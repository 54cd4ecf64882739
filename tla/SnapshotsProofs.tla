---------------------------- MODULE SnapshotsProofs ---------------------------
(***************************************************************************)
(* Proofs about Snapshots, for any number of processes, keys, retries and  *)
(* clock ticks.                                                            *)
(***************************************************************************)
EXTENDS Snapshots, SequenceTheorems, TLAPS

USE DEF AttemptsLeft, ContextDone, ListFromStart, LastPage

\* Every reader and every pack is a client.
LEMMA Clients == Packs \subseteq Client /\ Readers \subseteq Client
  BY SnapshotAssumption DEF SnapshotAssumption

LEMMA WaitsNat == Waits \in Nat /\ 0 \in 0..Waits /\ 0 \in 0..Requests
  BY ClientAssumption DEF ClientAssumption

\* What a listing reports is well typed.
LEMMA ContentsType ==
    ASSUME BucketTypeOK
    PROVE  /\ Contents \in SUBSET Entry
           /\ \A k \in Key : Stored(k) => EntryOf(k) \in Entry
  BY DEF BucketTypeOK, Contents, Stored, EntryOf, Entry, Version, Time

LEMMA InitType == Init => TypeOK
<1> SUFFICES ASSUME Init PROVE TypeOK
  OBVIOUS
<1>1. BucketTypeOK
  BY BucketAssumption DEF BucketAssumption, Init, ClientInit, BucketInit, BucketTypeOK
<1>2. QED
  <2>1. ask \in [Readers -> Selection]
    BY SnapshotAssumption DEF SnapshotAssumption, Init
  <2>2. QED
    BY <1>1, <2>1, WaitsNat DEF Init, ClientInit, TypeOK, ClientTypeOK

\* Opening a bucket for a call.
LEMMA OpenType ==
    ASSUME ClientTypeOK, NEW c \in Client, NEW o \in {"put", "list", "get"},
           NEW k \in Key \cup {NoKey}, k \in Key \/ o = "list", Open(c, o, k)
    PROVE  /\ op' \in [Client -> {"none", "put", "list", "get"}]
           /\ target' \in [Client -> Key \cup {NoKey}]
           /\ pc' \in [Client -> {"idle", "ready", "await", "sleep", "returned", "gone"}]
           /\ attempt' \in [Client -> 0..Waits]
           /\ err' \in [Client -> Error \cup {"ok"}]
           /\ \A d \in Client : /\ pc'[d] = "sleep" => attempt'[d] < Waits
                                /\ op'[d] \in {"put", "get"} => target'[d] \in Key
<1>1. "OpenFailed" \in Error
  BY DEF Error
<1>2. /\ err' \in [Client -> Error \cup {"ok"}]
      /\ pc' \in [Client -> {"idle", "ready", "await", "sleep", "returned", "gone"}]
      /\ \A d \in Client : pc'[d] = "sleep" => d # c /\ pc[d] = "sleep"
  <2>1. CASE pc' = [pc EXCEPT ![c] = "ready"] /\ UNCHANGED err
    BY <2>1 DEF ClientTypeOK
  <2>2. CASE Return(c, "OpenFailed")
    BY <1>1, <2>2 DEF ClientTypeOK, Return
  <2>3. QED
    BY <2>1, <2>2 DEF Open
<1>3. QED
  BY <1>2, WaitsNat DEF ClientTypeOK, Open

\* The end of a process.
LEMMA ExitType ==
    ASSUME TypeOK, NEW c \in Client, Leave(c), UNCHANGED <<picked, ask>>,
           NEW how \in {"ok", "failed", "killed"}, exit' = [exit EXCEPT ![c] = how]
    PROVE  TypeOK'
  BY WaitsNat DEF TypeOK, ClientTypeOK, BucketTypeOK, Leave, bucketVars

\* The commands keep the state well typed.
LEMMA CommandType ==
    ASSUME TypeOK, NEW c \in Client, Command(c)
    PROVE  TypeOK'
<1> USE DEF TypeOK, ClientTypeOK, bucketVars
<1>1. CASE c \in Packs /\ PackUpload(c)
  <2>1. PICK r \in Rand4[c] : Open(c, "put", KeyForName(Name[c], KeyTime(c, clock), r))
    BY <1>1 DEF PackUpload
  <2>2. KeyForName(Name[c], KeyTime(c, clock), r) \in Key
    BY <1>1, <2>1, SnapshotAssumption DEF BucketTypeOK, SnapshotAssumption
  <2>3. QED
    BY <1>1, <2>1, <2>2, OpenType DEF PackUpload, BucketTypeOK
<1>2. CASE c \in Packs /\ PackExit(c)
  BY <1>2, ExitType DEF PackExit, Exit
<1>3. CASE c \in Readers /\ UnpackBegin(c)
  <2>1. PICK o \in {"list", "get"}, k \in Key \cup {NoKey} :
            Open(c, o, k) /\ (k \in Key \/ o = "list")
    <3>1. CASE ask[c].by = "key"
      <4>1. ask[c] \in [by : {"key"}, key : Key]
        BY <1>3, <3>1, SnapshotAssumption DEF SnapshotAssumption, Selection
      <4>2. QED
        BY <1>3, <3>1, <4>1 DEF UnpackBegin
    <3>2. CASE ask[c].by # "key"
      BY <1>3, <3>2 DEF UnpackBegin
    <3>3. QED
      BY <3>1, <3>2
  <2>2. QED
    <3>1. o \in {"put", "list", "get"}
      OBVIOUS
    <3>2. QED
      BY <1>3, <2>1, <3>1, OpenType DEF UnpackBegin, BucketTypeOK
<1>4. CASE c \in Readers /\ UnpackPick(c)
  <2>1. PICK o \in Eligible(c) : /\ picked' = [picked EXCEPT ![c] = o]
                                 /\ Open(c, "get", o.key)
    BY <1>4 DEF UnpackPick
  <2>2. o \in Entry /\ o.key \in Key
    BY <1>4, <2>1 DEF Eligible, Entry
  <2>3. QED
    BY <1>4, <2>1, <2>2, OpenType DEF UnpackPick, BucketTypeOK
<1>5. CASE c \in Readers /\ ListingExit(c)
  BY <1>5, ExitType DEF ListingExit, Exit
<1>6. CASE c \in Readers /\ UnpackExit(c)
  BY <1>6, ExitType DEF UnpackExit, Exit
<1>7. QED
  BY <1>1, <1>2, <1>3, <1>4, <1>5, <1>6 DEF Command

\* The steps of a call keep the state well typed.
LEMMA ClientStepType ==
    ASSUME TypeOK, NEW c \in Client, ClientStep(c), UNCHANGED <<exit, picked, ask>>
    PROVE  TypeOK'
<1> USE WaitsNat DEF TypeOK, ClientTypeOK, bucketVars, Return
<1>0. {"NotFound", "TooLarge", "Canceled", "NoSnapshots", "ok"} \subseteq Error \cup {"ok"}
  BY DEF Error, DefinitiveCode
<1>1. ASSUME NEW e \in Error, Fail(c, e)
      PROVE  /\ pc' \in [Client -> {"idle", "ready", "await", "sleep", "returned", "gone"}]
             /\ err' \in [Client -> Error \cup {"ok"}]
             /\ \A d \in Client : pc'[d] = "sleep" => attempt[d] < Waits
  <2>1. CASE IsTransient(e) /\ attempt[c] < Waits
    BY <1>1, <2>1 DEF Fail
  <2>2. CASE ~(IsTransient(e) /\ attempt[c] < Waits)
    <3>1. pc' = [pc EXCEPT ![c] = "returned"] /\ err' = [err EXCEPT ![c] = e]
      BY <1>1, <2>2 DEF Fail
    <3>2. QED
      BY <1>1, <3>1
  <2>3. QED
    BY <2>1, <2>2
<1>2. CASE Attempt(c)
  <2>1. NextAttempt(c) \in 0..Waits
    BY <1>2 DEF Attempt, NextAttempt
  <2>2. sends' \in [Client -> 0..Requests]
    <3>1. CASE UNCHANGED sends
      BY <3>1
    <3>2. CASE sends' = [sends EXCEPT ![c] = 0]
      BY <3>2
    <3>3. QED
      BY <1>2, <3>1, <3>2 DEF Attempt
  <2>3. views' \in [Client -> SUBSET SUBSET Entry]
    <3>1. (IF op[c] = "list" THEN {Contents} ELSE {}) \in SUBSET SUBSET Entry
      BY ContentsType
    <3>2. QED
      BY <1>2, <3>1 DEF Attempt
  <2>4. /\ pc' \in [Client -> {"idle", "ready", "await", "sleep", "returned", "gone"}]
        /\ err' \in [Client -> Error \cup {"ok"}]
        /\ attempt' \in [Client -> 0..Waits]
        /\ \A d \in Client : pc'[d] = "sleep" => attempt'[d] < Waits
    <3>1. CASE Return(c, "Canceled")
      BY <1>0, <1>2, <2>1, <3>1 DEF Attempt
    <3>2. CASE UNCHANGED err /\ pc' = [pc EXCEPT ![c] = "await"]
      BY <1>2, <2>1, <3>2 DEF Attempt
    <3>3. QED
      BY <1>2, <3>1, <3>2 DEF Attempt
  <2>5. /\ applied' \in [Client -> BOOLEAN]
        /\ listed' \in [Client -> SUBSET Entry]
        /\ cursor' \in [Client -> Key \cup {<<>>}]
    <3>1. CASE UNCHANGED <<applied, listed, cursor>>
      BY <3>1
    <3>2. CASE applied' = [applied EXCEPT ![c] = FALSE] /\ ListFromStart(c)
      BY <3>2 DEF ListFromStart
    <3>3. QED
      BY <1>2, <3>1, <3>2 DEF Attempt
  <2>6. UNCHANGED <<objects, clock, op, target, cancelled, flight, got, exit, picked, ask>>
    BY <1>2 DEF Attempt
  <2>7. ClientTypeOK'
    BY <2>2, <2>3, <2>4, <2>5, <2>6 DEF BucketTypeOK
  <2>8. QED
    BY <2>6, <2>7
<1>3. CASE Fault(c)
  <2>1. Faults[c] \ {"OpenFailed"} \subseteq Error
    BY ClientAssumption DEF ClientAssumption, Error
  <2>2. QED
    BY <1>0, <1>1, <1>3, <2>1 DEF Fault, BucketTypeOK
<1>4. CASE PutOk(c)
  BY <1>0, <1>4 DEF PutOk, BucketTypeOK
<1>5. CASE GetAnswer(c)
  <2>1. objects[target[c]] # Absent /\ target[c] \in Key => objects[target[c]].body \in Body
    BY DEF BucketTypeOK, Version
  <2>2. QED
    BY <1>0, <1>1, <1>5, <2>1 DEF GetAnswer, BucketTypeOK, Stored
<1>6. CASE ListPage(c)
  BY <1>6, ContentsType DEF ListPage, Remaining, Listing, BucketTypeOK
<1>7. CASE ListEnd(c)
  BY <1>0, <1>7, ContentsType DEF ListEnd, Remaining, Listing, BucketTypeOK
<1>8. CASE Send(c)
  <2>1. Upload(c) \in Request
    <3>1. sends[c] + 1 \in 1..Requests
      BY <1>8, ClientAssumption DEF ClientAssumption, Send
    <3>2. QED
      BY <1>8, <3>1, ClientAssumption DEF ClientAssumption, Send, Upload, Request
  <2>2. sends' \in [Client -> 0..Requests]
    BY <1>8, ClientAssumption DEF ClientAssumption, Send
  <2>3. QED
    BY <1>8, <2>1, <2>2 DEF Send, BucketTypeOK
<1>9. QED
  BY <1>2, <1>3, <1>4, <1>5, <1>6, <1>7, <1>8 DEF ClientStep

\* What happens in the bucket keeps the state well typed.
LEMMA EnvironmentType ==
    ASSUME TypeOK, Environment, UNCHANGED <<exit, picked, ask>>
    PROVE  TypeOK'
<1> USE DEF TypeOK, ClientTypeOK
<1>1. ASSUME BucketTypeOK', Observe
      PROVE  views' \in [Client -> SUBSET SUBSET Entry]
  <2>1. Contents' \in SUBSET Entry
    BY <1>1 DEF BucketTypeOK, Contents, Stored, EntryOf, Entry, Version, Time
  <2>2. QED
    BY <1>1, <2>1 DEF Observe
<1>2. CASE ClockTicks
  BY <1>2, BucketAssumption DEF BucketAssumption, ClockTicks, Tick, clientVars, BucketTypeOK
<1>3. ASSUME NEW q \in flight, Land(q)
      PROVE  TypeOK'
  <2>1. q \in Request
    OBVIOUS
  <2>2. [body |-> q.body, mtime |-> clock] \in Version
    BY <2>1, BucketAssumption DEF BucketAssumption, Request, Version, BucketTypeOK, Time
  <2>3. BucketTypeOK'
    BY <1>3, <2>1, <2>2 DEF Land, Store, BucketTypeOK, Request
  <2>4. applied' \in [Client -> BOOLEAN]
    BY <1>3 DEF Land
  <2>5. QED
    BY <1>1, <1>3, <2>3, <2>4 DEF Land
<1>4. ASSUME NEW k \in Key, ObjectExpires(k)
      PROVE  TypeOK'
  <2>1. BucketTypeOK'
    BY <1>4 DEF ObjectExpires, Expire, BucketTypeOK
  <2>2. QED
    BY <1>1, <1>4, <2>1 DEF ObjectExpires
<1>5. QED
  BY <1>2, <1>3, <1>4 DEF Environment

LEMMA StepType == TypeOK /\ [Next]_vars => TypeOK'
<1> SUFFICES ASSUME TypeOK, [Next]_vars PROVE TypeOK'
  OBVIOUS
<1>1. ASSUME NEW c \in Client, Run(c) PROVE TypeOK'
  BY <1>1, CommandType, ClientStepType DEF Run
<1>2. ASSUME NEW c \in Client, Interrupt(c) PROVE TypeOK'
  BY <1>2 DEF Interrupt, Cancel, TypeOK, ClientTypeOK, BucketTypeOK, bucketVars
<1>3. ASSUME NEW c \in Client, Kill(c) PROVE TypeOK'
  BY <1>3, ExitType DEF Kill
<1>4. CASE Environment /\ UNCHANGED <<exit, picked, ask>>
  BY <1>4, EnvironmentType
<1>5. CASE UNCHANGED vars
  BY <1>5 DEF vars, bucketVars, clientVars, TypeOK, ClientTypeOK, BucketTypeOK
<1>6. Interruptible \subseteq Client
  BY SnapshotAssumption DEF SnapshotAssumption
<1>7. QED
  BY <1>1, <1>2, <1>3, <1>4, <1>5, <1>6 DEF Next

\* Type correctness: no interleaving of the commands, the retries, the
\* interrupts and the bucket leaves the state space.
THEOREM TypeCorrect == Spec => []TypeOK
<1>1. QED
  BY InitType, StepType, PTL DEF Spec

-------------------------------------------------------------------------------
(* No listing passes over a snapshot that was there all along.             *)

\* A snapshot of a name passes the filters of List.
LEMMA SnapshotIsListed ==
    ASSUME NEW name \in Seq(Nat) \ {<<>>}, NEW k \in Key, SnapshotOf(name, k)
    PROVE  IsPrefix(ListPrefix(name), k) /\ ~Placeholder(k)
<1>1. k \in Seq(Nat)
  BY BucketAssumption DEF BucketAssumption
<1>2. ~Placeholder(k)
  BY DEF SnapshotOf, Placeholder, Last
<1>3. CASE Last(name) = Slash
  BY <1>1, <1>2, <1>3 DEF SnapshotOf, ListPrefix, IsPrefix
<1>4. CASE Last(name) # Slash
  <2>1. ListPrefix(name) = Append(name, Slash)
    BY <1>4 DEF ListPrefix
  <2>2. SubSeq(k, 1, Len(name) + 1) = Append(name, Slash)
    BY <1>1 DEF SnapshotOf, Slash
  <2>3. QED
    BY <1>1, <1>2, <2>1, <2>2 DEF SnapshotOf, IsPrefix, Slash
<1>5. QED
  BY <1>3, <1>4

\* Every key comes after the empty cursor.
LEMMA AllAfterEmpty == \A k \in Key : KeyLess(<<>>, k)
<1> SUFFICES ASSUME NEW k \in Key PROVE KeyLess(<<>>, k)
  OBVIOUS
<1>1. k \in Seq(Nat) /\ k # <<>>
  BY BucketAssumption DEF BucketAssumption
<1>2. Len(<<>>) = 0 /\ Len(k) \in Nat /\ Len(k) # 0
  BY <1>1, EmptySeq
<1>3. Len(<<>>) < Len(k) /\ 1..Len(<<>>) = {}
  BY <1>2
<1>4. QED
  BY <1>3 DEF KeyLess

\* What a page of the listing adds: the snapshots among its keys.
LEMMA PageCovers ==
    ASSUME TypeOK, NEW u \in Client, NEW page \in SUBSET Remaining(u),
           NEW o \in Contents, SnapshotOf(Name[u], o.key), o.key \in page
    PROVE  o \in Listing(page)
<1>1. PICK k \in Key : Stored(k) /\ o = EntryOf(k)
  BY DEF Contents
<1>2. o.key = k
  BY <1>1 DEF EntryOf
<1>3. ~Placeholder(k)
  BY <1>2, SnapshotIsListed, ClientAssumption DEF ClientAssumption
<1>4. QED
  BY <1>1, <1>2, <1>3 DEF Listing

\* A snapshot beyond the cursor is still to be served.
LEMMA SnapshotRemains ==
    ASSUME TypeOK, NEW u \in Client, NEW o \in Contents,
           SnapshotOf(Name[u], o.key), KeyLess(cursor[u], o.key)
    PROVE  o.key \in Remaining(u)
<1>1. PICK k \in Key : Stored(k) /\ o = EntryOf(k)
  BY DEF Contents
<1>2. o.key = k
  BY <1>1 DEF EntryOf
<1>3. IsPrefix(ListPrefix(Name[u]), k)
  BY <1>2, SnapshotIsListed, ClientAssumption DEF ClientAssumption
<1>4. QED
  BY <1>1, <1>2, <1>3 DEF Remaining

\* A step that leaves u's listing and the bucket alone.
LEMMA CoversFrame ==
    ASSUME NEW u \in Client, ListingCovers(u), UNCHANGED objects,
           pc'[u] = pc[u], op'[u] = op[u], err'[u] = err[u], views'[u] = views[u],
           cursor'[u] = cursor[u], listed'[u] = listed[u]
    PROVE  ListingCovers(u)'
<1>1. Contents' = Contents
  BY DEF Contents, Stored, EntryOf
<1>2. QED
  BY <1>1 DEF ListingCovers, Steady

\* A change of the bucket: the listing in progress sees it.
LEMMA CoversObserve ==
    ASSUME TypeOK, NEW u \in Client, ListingCovers(u), Observe,
           UNCHANGED <<pc, op, err, cursor, listed>>
    PROVE  ListingCovers(u)'
<1>1. CASE pc[u] = "await" /\ op[u] = "list"
  <2>1. views'[u] = views[u] \cup {Contents'}
    BY <1>1 DEF Observe
  <2>2. \A o \in Entry : Steady(u, o)' => Steady(u, o)
    BY <2>1 DEF Steady
  <2>3. QED
    BY <1>1, <2>1, <2>2 DEF ListingCovers
<1>2. CASE ~(pc[u] = "await" /\ op[u] = "list")
  BY <1>2 DEF Observe, ListingCovers, Steady
<1>3. QED
  BY <1>1, <1>2

\* The steps of u's own call.
LEMMA CoversCall ==
    ASSUME TypeOK, NEW u \in Client, ListingCovers(u), ClientStep(u)
    PROVE  ListingCovers(u)'
<1>0. Contents' = Contents
  BY DEF ClientStep, Attempt, Send, Fault, PutOk, GetAnswer, ListPage, ListEnd,
         bucketVars, Contents, Stored, EntryOf
<1>1. CASE Attempt(u)
  <2>1. CASE cancelled[u]
    BY <1>1, <2>1 DEF Attempt, Return, ListingCovers, TypeOK, ClientTypeOK
  <2>2. CASE ~cancelled[u] /\ op[u] = "list"
    <3>1. pc'[u] = "await" /\ views'[u] = {Contents} /\ cursor'[u] = <<>>
      BY <1>1, <2>2 DEF Attempt, TypeOK, ClientTypeOK
    <3>2. \A o \in Entry : KeyLess(<<>>, o.key)
      BY AllAfterEmpty DEF Entry
    <3>3. QED
      BY <1>0, <3>1, <3>2 DEF ListingCovers
  <2>3. CASE ~cancelled[u] /\ op[u] # "list"
    BY <1>1, <2>3 DEF Attempt, ListingCovers
  <2>4. QED
    BY <2>1, <2>2, <2>3
<1>2. CASE Fault(u)
  <2>1. pc'[u] # "await" /\ (pc'[u] = "returned" => err'[u] # "ok")
    <3>1. PICK e \in Faults[u] \cup {"Canceled"} : Fail(u, e)
      BY <1>2 DEF Fault
    <3>2. e # "ok"
      BY ClientAssumption DEF ClientAssumption, TransientCode, DefinitiveCode
    <3>3. QED
      BY <3>1, <3>2 DEF Fail, Return, TypeOK, ClientTypeOK
  <2>2. QED
    BY <2>1 DEF ListingCovers
<1>3. CASE PutOk(u) \/ GetAnswer(u)
  BY <1>3 DEF PutOk, GetAnswer, ListingCovers
<1>4. CASE ListPage(u)
  <2>1. PICK hi \in Remaining(u) :
          /\ listed' = [listed EXCEPT ![u] = @ \cup
                          Listing({k \in Remaining(u) : ~KeyLess(hi, k)})]
          /\ cursor' = [cursor EXCEPT ![u] = hi]
    BY <1>4 DEF ListPage
  <2>2. ASSUME NEW o \in Entry, Steady(u, o), ~KeyLess(hi, o.key)
        PROVE  o \in listed'[u]
    <3>1. o \in Contents
      BY <1>4, <2>2 DEF ListPage, ListingCovers, Steady
    <3>2. CASE KeyLess(cursor[u], o.key)
      BY <2>1, <2>2, <3>1, <3>2, PageCovers, SnapshotRemains DEF Steady, TypeOK, ClientTypeOK
    <3>3. CASE ~KeyLess(cursor[u], o.key)
      BY <1>4, <2>1, <2>2, <3>3 DEF ListPage, ListingCovers, TypeOK, ClientTypeOK
    <3>4. QED
      BY <3>2, <3>3
  <2>3. QED
    BY <1>0, <1>4, <2>1, <2>2 DEF ListPage, ListingCovers, Steady, TypeOK, ClientTypeOK
<1>5. CASE ListEnd(u)
  <2>1. ASSUME NEW o \in Entry, Steady(u, o)
        PROVE  o \in listed'[u]
    <3>1. o \in Contents
      BY <1>5, <2>1 DEF ListEnd, ListingCovers, Steady
    <3>2. CASE KeyLess(cursor[u], o.key)
      BY <1>5, <2>1, <3>1, <3>2, PageCovers, SnapshotRemains
      DEF ListEnd, Steady, TypeOK, ClientTypeOK
    <3>3. CASE ~KeyLess(cursor[u], o.key)
      BY <1>5, <2>1, <3>3 DEF ListEnd, ListingCovers, TypeOK, ClientTypeOK
    <3>4. QED
      BY <3>2, <3>3
  <2>2. QED
    BY <1>5, <2>1 DEF ListEnd, Return, ListingCovers, Steady, TypeOK, ClientTypeOK
<1>6. CASE Send(u)
  BY <1>6, CoversFrame DEF Send, bucketVars
<1>7. QED
  BY <1>1, <1>2, <1>3, <1>4, <1>5, <1>6 DEF ClientStep

\* The steps of the commands between two calls, and the end of a process.
LEMMA CoversCommand ==
    ASSUME TypeOK, NEW u \in Client, ListingCovers(u), Command(u) \/ Kill(u)
    PROVE  ListingCovers(u)'
<1>1. CASE Leave(u)
  BY <1>1 DEF Leave, ListingCovers, TypeOK, ClientTypeOK
<1>2. ASSUME NEW o, NEW k, Open(u, o, k)
      PROVE  pc'[u] # "await" /\ (pc'[u] = "returned" => err'[u] # "ok")
  BY <1>2 DEF Open, Return, TypeOK, ClientTypeOK
<1>3. CASE ~Leave(u)
  <2>1. PICK o, k : Open(u, o, k)
    BY <1>3 DEF Command, PackUpload, PackExit, UnpackBegin, UnpackPick, ListingExit,
                UnpackExit, Exit, Kill
  <2>2. QED
    BY <1>2, <2>1 DEF ListingCovers
<1>4. QED
  BY <1>1, <1>3

\* A step of another process.
LEMMA OthersFrame ==
    ASSUME TypeOK, NEW u \in Client, NEW c \in Client, c # u,
           Run(c) \/ Interrupt(c) \/ Kill(c)
    PROVE  /\ UNCHANGED objects
           /\ pc'[u] = pc[u] /\ op'[u] = op[u] /\ err'[u] = err[u]
           /\ views'[u] = views[u] /\ cursor'[u] = cursor[u] /\ listed'[u] = listed[u]
<1> USE DEF TypeOK, ClientTypeOK, bucketVars
<1>1. CASE Leave(c)
  BY <1>1 DEF Leave
<1>2. CASE Command(c) /\ ~Leave(c)
  BY <1>2 DEF Command, PackUpload, PackExit, UnpackBegin, UnpackPick, ListingExit,
              UnpackExit, Exit, Open, Return
<1>3. CASE ClientStep(c)
  BY <1>3 DEF ClientStep, Attempt, Send, Fault, Fail, PutOk, GetAnswer, ListPage, ListEnd, Return
<1>4. CASE Interrupt(c)
  BY <1>4 DEF Interrupt, Cancel
<1>5. QED
  BY <1>1, <1>2, <1>3, <1>4 DEF Run, Kill

LEMMA ListingStep == TypeOK /\ ListingInv /\ [Next]_vars => ListingInv'
<1> SUFFICES ASSUME TypeOK, ListingInv, [Next]_vars, NEW u \in Client
             PROVE  ListingCovers(u)'
  BY DEF ListingInv
<1>1. ListingCovers(u)
  BY DEF ListingInv
<1>2. ASSUME NEW c \in Client, Run(c) \/ Interrupt(c) \/ Kill(c), c # u
      PROVE  ListingCovers(u)'
  BY <1>1, <1>2, OthersFrame, CoversFrame
<1>3. CASE Run(u) \/ Kill(u)
  BY <1>1, <1>3, CoversCall, CoversCommand DEF Run
<1>4. CASE Interrupt(u)
  BY <1>1, <1>4, CoversFrame DEF Interrupt, Cancel, bucketVars
<1>5. CASE Environment
  <2>1. CASE ClockTicks
    BY <1>1, <2>1, CoversFrame DEF ClockTicks, Tick, clientVars
  <2>2. CASE ~ClockTicks
    <3>1. Observe /\ UNCHANGED <<pc, op, err, cursor, listed>>
      BY <1>5, <2>2 DEF Environment, Land, ObjectExpires
    <3>2. QED
      BY <1>1, <3>1, CoversObserve
  <2>3. QED
    BY <2>1, <2>2
<1>6. CASE UNCHANGED vars
  BY <1>1, <1>6, CoversFrame DEF vars, clientVars, bucketVars
<1>7. QED
  BY <1>2, <1>3, <1>4, <1>5, <1>6, SnapshotAssumption DEF Next, SnapshotAssumption

\* A listing in progress, of whatever pages, retried however often, has
\* collected every snapshot up to its cursor that was there all along.
THEOREM ListingComplete == Spec => []ListingInv
<1>1. Init => ListingInv
  BY DEF Init, ClientInit, ListingInv, ListingCovers
<1>2. QED
  BY <1>1, ListingStep, TypeCorrect, PTL DEF Spec

\* unpack never restores an older snapshot than one that was in the bucket
\* during the whole listing: List, its retries and pickKey together.
THEOREM NothingNewerIsMissed == Spec => NothingNewerMissed
<1> DEFINE Right(u) ==
      \A o \in Entry :
         (\A v \in views[u] : o \in v) /\ InReach(u, o) => o.mtime <= picked'[u].mtime
<1>1. TypeOK /\ ListingInv /\ [Next]_vars => [\A u \in Readers : Picks(u) => Right(u)]_vars
  <2> SUFFICES ASSUME TypeOK, ListingInv, Next, NEW u \in Readers, Picks(u)
               PROVE  Right(u)
    OBVIOUS
  <2>1. UnpackPick(u)
    BY DEF Next, Run, Command, PackUpload, PackExit, UnpackBegin, UnpackPick, ListingExit,
           UnpackExit, Exit, Interrupt, Kill, Picks, TypeOK
  <2>2. ListingCovers(u)
    BY Clients DEF ListingInv
  <2>3. PICK o \in Eligible(u) : /\ \A o2 \in Eligible(u) : Ahead(o, o2)
                                 /\ picked' = [picked EXCEPT ![u] = o]
    BY <2>1 DEF UnpackPick
  <2>4. picked'[u] = o
    BY <2>3 DEF TypeOK
  <2>5. ASSUME NEW o2 \in Entry, \A v \in views[u] : o2 \in v, InReach(u, o2)
        PROVE  o2.mtime <= o.mtime
    <3>1. o2 \in Eligible(u)
      BY <2>1, <2>2, <2>5 DEF UnpackPick, ListingCovers, Steady, InReach, Eligible
    <3>2. Ahead(o, o2)
      BY <2>3, <3>1
    <3>3. o \in Entry /\ o.mtime \in Nat /\ o2.mtime \in Nat
      BY Clients, BucketAssumption
      DEF BucketAssumption, Eligible, Entry, Time, TypeOK, ClientTypeOK
    <3>4. QED
      BY <3>2, <3>3 DEF Ahead
  <2>6. QED
    BY <2>4, <2>5
<1>2. QED
  BY <1>1, TypeCorrect, ListingComplete, PTL DEF Spec, NothingNewerMissed

-------------------------------------------------------------------------------
(* Who waits.                                                              *)

LEMMA WaitStep == TypeOK /\ WaitsOnlyForFlakes /\ [Next]_vars => WaitsOnlyForFlakes'
<1> SUFFICES ASSUME TypeOK, WaitsOnlyForFlakes, [Next]_vars, NEW u \in Client,
                    pc'[u] = "sleep"
             PROVE  Faults[u] \cap TransientCode # {}
  BY DEF WaitsOnlyForFlakes
<1>1. CASE pc[u] = "sleep"
  BY <1>1 DEF WaitsOnlyForFlakes
<1>2. CASE pc[u] # "sleep"
  <2>1. ASSUME NEW c \in Client, Run(c) \/ Interrupt(c) \/ Kill(c)
        PROVE  \E e \in Faults[u] \cup {"Canceled", "NotFound", "TooLarge"} : IsTransient(e)
    <3>1. c = u
      BY <1>2, <2>1, OthersFrame
    <3>2. \E e \in Faults[u] \cup {"Canceled", "NotFound", "TooLarge"} : Fail(u, e)
      BY <1>2, <2>1, <3>1
      DEF Run, Command, PackUpload, PackExit, UnpackBegin, UnpackPick, ListingExit, UnpackExit,
          Exit, Open, Leave, Return, Interrupt, Cancel, Kill, ClientStep, Attempt, Send, Fault, PutOk,
          GetAnswer, ListPage, ListEnd, TypeOK, ClientTypeOK
    <3>3. QED
      BY <1>2, <3>2 DEF Fail, Return, TypeOK, ClientTypeOK
  <2>2. UNCHANGED pc => FALSE
    BY <1>2
  <2>3. Environment => UNCHANGED pc
    BY DEF Environment, ClockTicks, clientVars, Land, ObjectExpires
  <2>4. \E e \in Faults[u] \cup {"Canceled", "NotFound", "TooLarge"} : IsTransient(e)
    BY <2>1, <2>2, <2>3, SnapshotAssumption
    DEF Next, vars, clientVars, SnapshotAssumption
  <2>5. QED
    BY <2>4 DEF IsTransient, TransientCode
<1>3. QED
  BY <1>1, <1>2

\* Only a backend that flakes makes a process wait, for every set of answers.
THEOREM WaitsOnlyForFlakesHolds == Spec => []WaitsOnlyForFlakes
<1>1. Init => WaitsOnlyForFlakes
  BY DEF Init, ClientInit, WaitsOnlyForFlakes
<1>2. QED
  BY <1>1, WaitStep, TypeCorrect, PTL DEF Spec

\* What may be a flake is transient, and is none of the program's own errors.
LEMMA OwnErrors ==
    ASSUME NEW e, e \in {"Internal", "ResourceExhausted", "Unknown"}
    PROVE  IsTransient(e) /\ e \notin {"ok", "Canceled", "NotFound", "TooLarge", "NoSnapshots", "OpenFailed"}
  BY DEF IsTransient, TransientCode

\* A step of another process.
LEMMA OthersAttempt ==
    ASSUME TypeOK, NEW u \in Client, NEW c \in Client, c # u,
           Run(c) \/ Interrupt(c) \/ Kill(c)
    PROVE  attempt'[u] = attempt[u]
<1> USE DEF TypeOK, ClientTypeOK
<1>1. CASE Leave(c)
  BY <1>1 DEF Leave
<1>2. CASE Command(c) /\ ~Leave(c)
  BY <1>2 DEF Command, PackUpload, PackExit, UnpackBegin, UnpackPick, ListingExit, UnpackExit,
     Exit, Open
<1>3. CASE ClientStep(c)
  BY <1>3 DEF ClientStep, Attempt, Send, Fault, PutOk, GetAnswer, ListPage, ListEnd
<1>4. CASE Interrupt(c)
  BY <1>4 DEF Interrupt, Cancel
<1>5. QED
  BY <1>1, <1>2, <1>3, <1>4 DEF Run, Kill

\* The steps of the process itself.
LEMMA FlakeOwn ==
    ASSUME TypeOK, FlakesAreWaitedOut, NEW u \in Client, Run(u) \/ Interrupt(u) \/ Kill(u),
           pc'[u] = "returned", err'[u] \in {"Internal", "ResourceExhausted", "Unknown"}
    PROVE  attempt'[u] = Waits
<1> USE DEF TypeOK, ClientTypeOK
<1>1. CASE UNCHANGED <<pc, err, attempt>>
  BY <1>1 DEF FlakesAreWaitedOut
<1>2. ASSUME NEW e, Fail(u, e), UNCHANGED attempt
      PROVE  attempt'[u] = Waits
  <2>1. ~(IsTransient(e) /\ attempt[u] < Waits) /\ err'[u] = e
    BY <1>2 DEF Fail, Return
  <2>2. QED
    BY <1>2, <2>1, OwnErrors, WaitsNat
<1>3. ASSUME NEW o, NEW k, Open(u, o, k)
      PROVE  FALSE
  BY <1>3, OwnErrors DEF Open, Return
<1>4. CASE Attempt(u)
  BY <1>4, OwnErrors DEF Attempt, Return
<1>5. CASE Fault(u)
  BY <1>2, <1>5 DEF Fault
<1>6. CASE GetAnswer(u)
  BY <1>2, <1>6, OwnErrors DEF GetAnswer, Return
<1>7. CASE PutOk(u) \/ ListEnd(u)
  BY <1>7, OwnErrors DEF PutOk, ListEnd, Return
<1>8. CASE Send(u) \/ ListPage(u)
  BY <1>1, <1>8 DEF Send, ListPage
<1>9. CASE Command(u)
  <2>1. CASE Leave(u)
    BY <2>1 DEF Leave
  <2>2. CASE ~Leave(u)
    BY <1>3, <1>9, <2>2 DEF Command, PackUpload, PackExit, UnpackBegin, UnpackPick, ListingExit,
       UnpackExit, Exit
  <2>3. QED
    BY <2>1, <2>2
<1>10. CASE Interrupt(u)
  BY <1>1, <1>10 DEF Interrupt, Cancel
<1>11. CASE Kill(u)
  BY <1>11 DEF Kill, Leave
<1>12. QED
  BY <1>4, <1>5, <1>6, <1>7, <1>8, <1>9, <1>10, <1>11 DEF Run, ClientStep

LEMMA FlakeStep == TypeOK /\ FlakesAreWaitedOut /\ [Next]_vars => FlakesAreWaitedOut'
<1> SUFFICES ASSUME TypeOK, FlakesAreWaitedOut, [Next]_vars, NEW u \in Client,
                    pc'[u] = "returned",
                    err'[u] \in {"Internal", "ResourceExhausted", "Unknown"}
             PROVE  attempt'[u] = Waits
  BY DEF FlakesAreWaitedOut
<1>1. ASSUME NEW c \in Client, Run(c) \/ Interrupt(c) \/ Kill(c)
      PROVE  attempt'[u] = Waits
  <2>1. CASE c = u
    BY <1>1, <2>1, FlakeOwn
  <2>2. CASE c # u
    <3>1. pc'[u] = pc[u] /\ err'[u] = err[u]
      BY <1>1, <2>2, OthersFrame
    <3>2. attempt'[u] = attempt[u]
      BY <1>1, <2>2, OthersAttempt
    <3>3. QED
      BY <3>1, <3>2 DEF FlakesAreWaitedOut
  <2>3. QED
    BY <2>1, <2>2
<1>2. CASE Environment \/ UNCHANGED vars
  <2>1. UNCHANGED <<pc, err, attempt>>
    BY <1>2 DEF Environment, ClockTicks, clientVars, Land, ObjectExpires, vars
  <2>2. QED
    BY <2>1 DEF FlakesAreWaitedOut
<1>3. QED
  BY <1>1, <1>2, SnapshotAssumption DEF Next, SnapshotAssumption

\* No flake is reported before the schedule, of whatever length, is exhausted.
THEOREM FlakesAreWaitedOutHolds == Spec => []FlakesAreWaitedOut
<1>1. Init => FlakesAreWaitedOut
  BY DEF Init, ClientInit, FlakesAreWaitedOut
<1>2. QED
  BY <1>1, FlakeStep, TypeCorrect, PTL DEF Spec

-------------------------------------------------------------------------------
(* What a listing may contain.                                             *)

\* Everything collected was in the bucket during this attempt, and is a snapshot
\* of the name.
Genuine(u, o) == SnapshotOf(Name[u], o.key) /\ \E v \in views[u] : o \in v
GenuineInv == \A u \in Client : \A o \in listed[u] : Genuine(u, o)

\* What passes the filters of List is a snapshot of the name.
LEMMA ListedIsSnapshot ==
    ASSUME NEW u \in Client, NEW k \in Key,
           IsPrefix(ListPrefix(Name[u]), k), ~Placeholder(k)
    PROVE  SnapshotOf(Name[u], k)
<1> DEFINE name == Name[u]
<1>1. k \in Seq(Nat) /\ name \in Seq(Nat) /\ name # <<>> /\ Last(name) # Slash
  BY BucketAssumption, ClientAssumption, SnapshotAssumption
  DEF BucketAssumption, ClientAssumption, SnapshotAssumption
<1> HIDE DEF name
<1>2. ListPrefix(name) = Append(name, Slash)
  BY <1>1 DEF ListPrefix
<1>3. IsPrefix(Append(name, Slash), k)
  BY <1>2 DEF name
<1>4. Len(name) + 1 <= Len(k) /\ SubSeq(k, 1, Len(name) + 1) = Append(name, Slash)
  <2>1. Append(name, Slash) \in Seq(Nat) /\ Len(Append(name, Slash)) = Len(name) + 1
    BY <1>1 DEF Slash
  <2>2. SubSeq(Append(name, Slash), 1, Len(name) + 1) = Append(name, Slash)
    BY <2>1
  <2>3. QED
    BY <1>3, <2>1, <2>2 DEF IsPrefix
<1>5. \A i \in 1..Len(name) + 1 : k[i] = Append(name, Slash)[i]
  <2>1. \A i \in 1..Len(name) + 1 : SubSeq(k, 1, Len(name) + 1)[i] = k[i]
    BY <1>1, <1>4
  <2>2. QED
    BY <1>4, <2>1
<1>6. k[Len(name) + 1] = Slash /\ \A i \in 1..Len(name) : k[i] = name[i]
  BY <1>1, <1>5 DEF Slash
<1>7. SubSeq(k, 1, Len(name)) = name
  BY <1>1, <1>4, <1>6
<1>8. k[Len(k)] # Slash
  BY DEF Placeholder, Last
<1>9. Len(k) > Len(name) + 1
  BY <1>1, <1>4, <1>6, <1>8
<1>10. QED
  BY <1>6, <1>7, <1>8, <1>9 DEF SnapshotOf, name

\* A page of the listing adds snapshots of the name that are in the bucket.
LEMMA PageIsGenuine ==
    ASSUME TypeOK, NEW u \in Client, NEW page \in SUBSET Remaining(u), NEW o \in Listing(page)
    PROVE  o \in Contents /\ SnapshotOf(Name[u], o.key)
<1>1. PICK k \in page : ~Placeholder(k) /\ o = EntryOf(k)
  BY DEF Listing
<1>2. k \in Key /\ Stored(k) /\ IsPrefix(ListPrefix(Name[u]), k)
  BY DEF Remaining
<1>3. QED
  BY <1>1, <1>2, ListedIsSnapshot DEF EntryOf, Contents

LEMMA GenuineCall ==
    ASSUME TypeOK, NEW u \in Client, ListingCovers(u), \A o \in listed[u] : Genuine(u, o),
           ClientStep(u)
    PROVE  \A o \in listed'[u] : Genuine(u, o)'
<1> USE DEF TypeOK, ClientTypeOK
<1>1. CASE Attempt(u)
  BY <1>1 DEF Attempt, Genuine
<1>2. CASE Send(u) \/ Fault(u) \/ PutOk(u) \/ GetAnswer(u)
  BY <1>2 DEF Send, Fault, PutOk, GetAnswer, Genuine
<1>3. CASE ListPage(u)
  <2>1. PICK hi \in Remaining(u) :
          listed' = [listed EXCEPT ![u] = @ \cup
                          Listing({k \in Remaining(u) : ~KeyLess(hi, k)})]
    BY <1>3 DEF ListPage
  <2>2. Contents \in views[u] /\ views' = views
    BY <1>3 DEF ListPage, ListingCovers
  <2>3. \A o \in Listing({k \in Remaining(u) : ~KeyLess(hi, k)}) :
            o \in Contents /\ SnapshotOf(Name[u], o.key)
    BY PageIsGenuine
  <2>4. QED
    BY <2>1, <2>2, <2>3 DEF Genuine
<1>4. CASE ListEnd(u)
  <2>1. listed' = [listed EXCEPT ![u] = @ \cup Listing(Remaining(u))]
    BY <1>4 DEF ListEnd
  <2>2. Contents \in views[u] /\ views' = views
    BY <1>4 DEF ListEnd, ListingCovers
  <2>3. \A o \in Listing(Remaining(u)) : o \in Contents /\ SnapshotOf(Name[u], o.key)
    BY PageIsGenuine
  <2>4. QED
    BY <2>1, <2>2, <2>3 DEF Genuine
<1>5. QED
  BY <1>1, <1>2, <1>3, <1>4 DEF ClientStep

LEMMA GenuineStep == TypeOK /\ ListingInv /\ GenuineInv /\ [Next]_vars => GenuineInv'
<1> SUFFICES ASSUME TypeOK, ListingInv, GenuineInv, [Next]_vars, NEW u \in Client
             PROVE  \A o \in listed'[u] : Genuine(u, o)'
  BY DEF GenuineInv
<1>1. \A o \in listed[u] : Genuine(u, o)
  BY DEF GenuineInv
<1>2. ASSUME listed'[u] \in {{}, listed[u]}, \A v \in views[u] : v \in views'[u] \/ listed'[u] = {}
      PROVE  \A o \in listed'[u] : Genuine(u, o)'
  BY <1>1, <1>2 DEF Genuine
<1>3. ASSUME NEW c \in Client, Run(c) \/ Interrupt(c) \/ Kill(c), c # u
      PROVE  \A o \in listed'[u] : Genuine(u, o)'
  BY <1>2, <1>3, OthersFrame
<1>4. CASE Run(u) /\ ClientStep(u)
  BY <1>1, <1>4, GenuineCall DEF ListingInv
<1>5. CASE Command(u) \/ Kill(u) \/ Interrupt(u)
  <2>1. \/ listed'[u] = {}
        \/ listed'[u] = listed[u] /\ views'[u] = views[u]
    BY <1>5 DEF Command, PackUpload, PackExit, UnpackBegin, UnpackPick, ListingExit, UnpackExit,
                Exit, Leave, Kill, Interrupt, Cancel, TypeOK, ClientTypeOK
  <2>2. QED
    BY <1>2, <2>1
<1>6. CASE Environment
  <2>1. listed' = listed
    BY <1>6 DEF Environment, ClockTicks, clientVars, Land, ObjectExpires
  <2>2. views[u] \subseteq views'[u]
    BY <1>6 DEF Environment, ClockTicks, clientVars, Land, ObjectExpires, Observe
  <2>3. QED
    BY <1>2, <2>1, <2>2
<1>7. CASE UNCHANGED vars
  BY <1>2, <1>7 DEF vars, clientVars
<1>8. QED
  BY <1>3, <1>4, <1>5, <1>6, <1>7, SnapshotAssumption DEF Next, Run, SnapshotAssumption

\* What unpack picks was a snapshot of its name, in the bucket during the listing
\* attempt that succeeded, for any number of pages, retries and other processes.
THEOREM PickedFromTheBucketHolds == Spec => PickedFromTheBucket
<1>1. TypeOK /\ GenuineInv /\ [Next]_vars =>
          [\A u \in Readers : Picks(u) =>
              /\ InReach(u, picked'[u])
              /\ \E v \in views[u] : picked'[u] \in v]_vars
  <2> SUFFICES ASSUME TypeOK, GenuineInv, Next, NEW u \in Readers, Picks(u)
               PROVE  InReach(u, picked'[u]) /\ \E v \in views[u] : picked'[u] \in v
    OBVIOUS
  <2>1. UnpackPick(u)
    BY DEF Next, Run, Command, PackUpload, PackExit, UnpackBegin, UnpackPick, ListingExit,
           UnpackExit, Exit, Interrupt, Kill, Picks, TypeOK
  <2>2. PICK o \in Eligible(u) : picked' = [picked EXCEPT ![u] = o]
    BY <2>1 DEF UnpackPick
  <2>3. picked'[u] = o
    BY <2>2 DEF TypeOK
  <2>4. o \in listed[u] /\ (ask[u].by = "at" => o.mtime <= ask[u].time)
    BY DEF Eligible
  <2>5. Genuine(u, o)
    BY <2>4, Clients DEF GenuineInv
  <2>6. QED
    BY <2>3, <2>4, <2>5 DEF Genuine, InReach
<1>2. Init => GenuineInv
  BY DEF Init, ClientInit, GenuineInv
<1>3. Spec => []GenuineInv
  BY <1>2, GenuineStep, TypeCorrect, ListingComplete, PTL DEF Spec
<1>4. QED
  BY <1>1, <1>3, TypeCorrect, PTL DEF Spec, PickedFromTheBucket

-------------------------------------------------------------------------------
(* What an upload that succeeded has left in the bucket.                    *)

\* The keys a pack may draw.  The six hexadecimal digits of rand4 are all that
\* keeps those of two packs of one name and one second apart.
KeysOf(p) == {KeyForName(Name[p], KeyTime(p, t), r) : t \in 1..MaxTime, r \in Rand4[p]}

NoCollision == \A p, q \in Packs : p # q => KeysOf(p) \cap KeysOf(q) = {}

Holds(p) == Stored(target[p]) /\ objects[target[p]].body = Payload[p]

\* The store has answered p's upload, or p has said so.
Promised(p) == applied[p] \/ (pc[p] = "returned" /\ err[p] = "ok") \/ exit[p] = "ok"

PackInv(p) ==
    /\ pc[p] = "idle" => target[p] = NoKey
    /\ pc[p] \notin {"idle", "gone"} => op[p] = "put"
    /\ target[p] \in KeysOf(p) \cup {NoKey}
    /\ exit[p] # "running" => pc[p] = "gone"
    /\ Promised(p) => target[p] # NoKey /\ (target[p] \in Expirable \/ Holds(p))

\* A request in flight is the upload of a pack.
FromPack(q) == q.from \in Packs /\ q.key = target[q.from] /\ q.body = Payload[q.from]

\* Who sends uploads, and for which key: it is drawn once.
SenderInv ==
    /\ \A p \in Packs : /\ pc[p] = "idle" => target[p] = NoKey
                        /\ pc[p] \notin {"idle", "gone"} => op[p] = "put"
    /\ \A u \in Readers : op[u] # "put"
    /\ \A q \in flight : FromPack(q)

UploadInv ==
    /\ \A p \in Packs : PackInv(p)
    /\ \A u \in Readers : op[u] # "put"
    /\ \A q \in flight : FromPack(q)

LEMMA KeysOfAreKeys ==
    ASSUME NEW p \in Packs
    PROVE  KeysOf(p) \subseteq Key /\ NoKey \notin KeysOf(p)
  BY SnapshotAssumption, ClientAssumption DEF SnapshotAssumption, ClientAssumption, KeysOf

LEMMA NotBoth == ASSUME NEW p \in Packs PROVE p \in Client /\ p \notin Readers
  BY SnapshotAssumption, Clients DEF SnapshotAssumption

LEMMA UploadInit == Init => UploadInv
<1> SUFFICES ASSUME Init PROVE UploadInv
  OBVIOUS
<1>1. ASSUME NEW p \in Packs PROVE PackInv(p)
  BY NotBoth DEF Init, ClientInit, PackInv, Promised
<1>2. \A u \in Readers : op[u] # "put"
  BY Clients DEF Init, ClientInit
<1>3. QED
  BY <1>1, <1>2 DEF Init, ClientInit, UploadInv

\* A step of another process.
LEMMA OthersUpload ==
    ASSUME TypeOK, NEW p \in Client, NEW c \in Client, c # p,
           Run(c) \/ Interrupt(c) \/ Kill(c)
    PROVE  target'[p] = target[p] /\ applied'[p] = applied[p] /\ exit'[p] = exit[p]
<1> USE DEF TypeOK, ClientTypeOK
<1>1. CASE Leave(c) /\ (Kill(c) \/ \E s : Exit(c, s))
  BY <1>1 DEF Leave, Exit, Kill
<1>2. CASE Command(c) /\ ~Leave(c)
  BY <1>2 DEF Command, PackUpload, PackExit, UnpackBegin, UnpackPick, ListingExit,
              UnpackExit, Exit, Open, Return
<1>3. CASE Command(c) /\ Leave(c)
  BY <1>3 DEF Command, PackUpload, PackExit, UnpackBegin, UnpackPick, ListingExit,
              UnpackExit, Exit, Open, Return, Leave
<1>4. CASE ClientStep(c) /\ UNCHANGED exit
  BY <1>4 DEF ClientStep, Attempt, Send, Fault, Fail, PutOk, GetAnswer, ListPage, ListEnd, Return
<1>5. CASE Interrupt(c) \/ Kill(c)
  BY <1>5 DEF Interrupt, Cancel, Kill, Leave
<1>6. QED
  BY <1>2, <1>3, <1>4, <1>5 DEF Run

LEMMA PackInvFrame ==
    ASSUME NEW p \in Packs, PackInv(p), UNCHANGED objects,
           pc'[p] = pc[p], op'[p] = op[p], err'[p] = err[p],
           target'[p] = target[p], applied'[p] = applied[p], exit'[p] = exit[p]
    PROVE  PackInv(p)'
  BY DEF PackInv, Promised, Holds, Stored, KeysOf

\* The steps of the pack itself.
LEMMA PackInvOwn ==
    ASSUME TypeOK, NEW p \in Packs, PackInv(p), Run(p) \/ Interrupt(p) \/ Kill(p)
    PROVE  PackInv(p)'
<1> USE NotBoth DEF TypeOK, ClientTypeOK
<1>0. UNCHANGED objects
  BY DEF Run, Command, PackUpload, PackExit, Exit, Leave, Interrupt, Cancel, Kill, ClientStep,
         Attempt, Send, Fault, PutOk, GetAnswer, ListPage, ListEnd, bucketVars
<1>1. CASE PackUpload(p)
  <2>1. PICK r \in Rand4[p] : Open(p, "put", KeyForName(Name[p], KeyTime(p, clock), r))
    BY <1>1 DEF PackUpload
  <2>2. target'[p] \in KeysOf(p)
    BY <2>1 DEF Open, KeysOf, BucketTypeOK
  <2>3. pc'[p] \in {"ready", "returned"} /\ (pc'[p] = "returned" => err'[p] # "ok") /\ op'[p] = "put"
    BY <2>1 DEF Open, Return
  <2>4. ~Promised(p)
    BY <1>1 DEF PackUpload, PackInv
  <2>5. ~Promised(p)'
    BY <1>1, <2>3, <2>4 DEF PackUpload, Promised
  <2>6. exit'[p] = "running"
    BY <1>1, <2>4 DEF PackUpload, PackInv
  <2>7. QED
    BY <2>2, <2>3, <2>5, <2>6 DEF PackInv, KeysOf
<1>2. CASE Leave(p)
  <2>1. pc'[p] = "gone" /\ ~applied'[p] /\ target'[p] = target[p]
    BY <1>2 DEF Leave
  <2>2. exit'[p] = "ok" => Promised(p)
    <3>1. CASE PackExit(p)
      BY <3>1 DEF PackExit, Exit, Promised
    <3>2. CASE Kill(p)
      BY <3>2 DEF Kill
    <3>3. QED
      BY <3>1, <3>2, <1>2 DEF Run, Command, ClientStep, Attempt, Send, Fault, Fail, PutOk, GetAnswer,
         ListPage, ListEnd, Interrupt, Cancel, PackUpload, Open, Return, Leave, PackInv, Promised
  <2>3. QED
    BY <1>0, <2>1, <2>2 DEF PackInv, Promised, Holds, Stored, KeysOf
<1>3. CASE Interrupt(p)
  BY <1>0, <1>3, PackInvFrame DEF Interrupt, Cancel
<1>4. CASE ClientStep(p) /\ UNCHANGED exit
  <2>1. op' = op /\ target' = target /\ pc[p] \notin {"idle", "gone"}
    BY <1>4 DEF ClientStep, Attempt, Send, Fault, PutOk, GetAnswer, ListPage, ListEnd
  <2>2. pc'[p] \notin {"idle", "gone"} /\ op[p] = "put"
    BY <1>4, <2>1 DEF ClientStep, Attempt, Send, Fault, Fail, PutOk, GetAnswer, ListPage, ListEnd, Return,
       PackInv
  <2>3. Promised(p)' => Promised(p)
    <3>1. CASE Attempt(p)
      BY <1>4, <3>1 DEF Attempt, Return, Promised
    <3>2. CASE Fault(p)
      <4>1. PICK e \in Faults[p] \cup {"Canceled"} : Fail(p, e)
        BY <3>2 DEF Fault
      <4>2. e # "ok"
        BY ClientAssumption DEF ClientAssumption, TransientCode, DefinitiveCode
      <4>3. QED
        BY <1>4, <3>2, <4>1, <4>2 DEF Fault, Fail, Return, Promised
    <3>3. CASE PutOk(p)
      BY <3>3 DEF PutOk, Promised
    <3>4. QED
      BY <1>4, <2>2, <3>1, <3>2, <3>3 DEF ClientStep, Send, GetAnswer, ListPage, ListEnd, Promised
  <2>4. exit'[p] = "running"
    BY <1>4, <2>1 DEF PackInv
  <2>5. QED
    BY <1>0, <2>1, <2>2, <2>3, <2>4 DEF PackInv, Holds, Stored, KeysOf
<1>5. QED
  BY <1>1, <1>2, <1>3, <1>4 DEF Run, Command, PackExit, Exit, Kill

\* No reader sends an upload.
LEMMA ReadersOp ==
    ASSUME TypeOK, NEW u \in Readers, op[u] # "put", NEW c \in Client,
           Run(c) \/ Interrupt(c) \/ Kill(c)
    PROVE  op'[u] # "put"
<1> USE DEF TypeOK, ClientTypeOK
<1>0. u \in Client /\ u \notin Packs
  BY Clients, NotBoth
<1>1. CASE c # u
  BY <1>0, <1>1, OthersFrame
<1>2. CASE c = u
  BY <1>0, <1>2 DEF Run, Command, UnpackBegin, UnpackPick, ListingExit, UnpackExit, Exit, Open, Leave,
     Interrupt, Cancel, Kill, ClientStep, Attempt, Send, Fault, PutOk, GetAnswer, ListPage, ListEnd
<1>3. QED
  BY <1>1, <1>2

\* Every request that is sent is the upload of a pack, and its target stays.
LEMMA RequestsStep ==
    ASSUME TypeOK, SenderInv, NEW c \in Client, Run(c) \/ Interrupt(c) \/ Kill(c),
           NEW q \in flight'
    PROVE  FromPack(q)'
<1> USE DEF TypeOK, ClientTypeOK
<1>1. ASSUME q \in flight PROVE FromPack(q)'
  <2>1. q.from \in Packs /\ q.key \in Key /\ q.key = target[q.from] /\ q.body = Payload[q.from]
    BY <1>1 DEF SenderInv, FromPack, Request
  <2>2. q.from \in Client /\ pc[q.from] # "idle"
    BY <2>1, NotBoth, ClientAssumption DEF ClientAssumption, SenderInv
  <2>3. target'[q.from] = target[q.from]
    <3>1. CASE c # q.from
      BY <2>2, <3>1, OthersUpload
    <3>2. CASE c = q.from
      BY <2>1, <2>2, <3>2, NotBoth
      DEF Run, Command, PackUpload, PackExit, Exit, Leave, Interrupt, Cancel, Kill, ClientStep,
          Attempt, Send, Fault, PutOk, GetAnswer, ListPage, ListEnd
    <3>3. QED
      BY <3>1, <3>2
  <2>4. QED
    BY <2>1, <2>3 DEF FromPack
<1>2. ASSUME q \notin flight PROVE FromPack(q)'
  <2>1. Send(c) /\ op[c] = "put" /\ q = Upload(c) /\ UNCHANGED target
    BY <1>2 DEF Run, Command, PackUpload, PackExit, UnpackBegin, UnpackPick, ListingExit, UnpackExit,
       Exit, Leave, Interrupt, Cancel, Kill, ClientStep, Attempt, Send, Fault, PutOk, GetAnswer, ListPage, ListEnd
  <2>2. c \in Packs
    BY <2>1, SnapshotAssumption DEF SnapshotAssumption, SenderInv
  <2>3. QED
    BY <2>1, <2>2 DEF Upload, FromPack
<1>3. QED
  BY <1>1, <1>2

\* The store applies an upload: it is the pack's own, or one of another key.
LEMMA LandKeeps ==
    ASSUME NoCollision, TypeOK, UploadInv, NEW p \in Packs, NEW q \in flight, Land(q),
           UNCHANGED exit
    PROVE  PackInv(p)'
<1> USE DEF TypeOK, ClientTypeOK
<1>1. /\ q.from \in Packs /\ q.key \in Key /\ q.key = target[q.from] /\ q.body = Payload[q.from]
      /\ q.body \in Body
  BY DEF UploadInv, FromPack, Request
<1>2. PackInv(p) /\ PackInv(q.from) /\ p \in Client
  BY <1>1, NotBoth DEF UploadInv
<1>3. UNCHANGED <<pc, op, err, target, exit>>
  BY DEF Land
<1>4. PackInv(p)'
  <2>1. CASE p = q.from
    <3>1. objects'[target[p]] = [body |-> Payload[p], mtime |-> clock]
      BY <1>1, <2>1 DEF Land, Store, BucketTypeOK
    <3>2. objects'[target[p]] # Absent /\ objects'[target[p]].body = Payload[p]
      BY <1>1, <2>1, <3>1, BucketAssumption DEF BucketAssumption, Version, BucketTypeOK, Time
    <3>3. target[p] # NoKey
      BY <1>1, <2>1, ClientAssumption DEF ClientAssumption
    <3>4. Holds(p)'
      BY <1>3, <3>2 DEF Holds, Stored
    <3>5. QED
      BY <1>2, <1>3, <3>3, <3>4 DEF PackInv, KeysOf
  <2>2. CASE p # q.from
    <3>1. applied'[p] = applied[p]
      BY <1>1, <1>2, <2>2 DEF Land
    <3>2. Promised(p)' = Promised(p)
      BY <1>3, <3>1 DEF Promised
    <3>3. target[p] # NoKey => target[p] # q.key
      <4>1. q.key \in KeysOf(q.from)
        BY <1>1, <1>2, ClientAssumption DEF ClientAssumption, PackInv
      <4>2. target[p] # NoKey => target[p] \in KeysOf(p)
        BY <1>2 DEF PackInv
      <4>3. QED
        BY <1>1, <2>2, <4>1, <4>2 DEF NoCollision
    <3>4. target[p] # NoKey => objects'[target[p]] = objects[target[p]]
      BY <1>1, <3>3, KeysOfAreKeys DEF Land, Store, BucketTypeOK
    <3>5. target[p] # NoKey /\ Holds(p) => Holds(p)'
      BY <1>3, <3>4 DEF Holds, Stored
    <3>6. QED
      BY <1>2, <1>3, <3>2, <3>5 DEF PackInv, KeysOf
  <2>3. QED
    BY <2>1, <2>2
<1>5. QED
  BY <1>4

LEMMA UploadStep ==
    ASSUME NoCollision, TypeOK, UploadInv, [Next]_vars
    PROVE  UploadInv'
<1>1. ASSUME NEW c \in Client, Run(c) \/ Interrupt(c) \/ Kill(c)
      PROVE  UploadInv'
  <2>1. ASSUME NEW p \in Packs PROVE PackInv(p)'
    <3>1. PackInv(p) /\ p \in Client
      BY NotBoth DEF UploadInv
    <3>2. CASE c = p
      BY <1>1, <3>1, <3>2, PackInvOwn
    <3>3. CASE c # p
      BY <1>1, <3>1, <3>3, OthersFrame, OthersUpload, PackInvFrame
    <3>4. QED
      BY <3>2, <3>3
  <2>2. \A u \in Readers : op'[u] # "put"
    BY <1>1, ReadersOp DEF UploadInv
  <2>3. \A q \in flight' : FromPack(q)'
    BY <1>1, RequestsStep DEF UploadInv, SenderInv, PackInv
  <2>4. QED
    BY <2>1, <2>2, <2>3 DEF UploadInv
<1>2. CASE Environment /\ UNCHANGED <<exit, picked, ask>>
  <2>1. UNCHANGED <<op, target, pc, err>> /\ flight' \subseteq flight
    BY <1>2 DEF Environment, ClockTicks, clientVars, Land, ObjectExpires
  <2>2. (\A u \in Readers : op'[u] # "put") /\ (\A q \in flight' : FromPack(q)')
    BY <2>1 DEF UploadInv, FromPack
  <2>3. ASSUME NEW p \in Packs PROVE PackInv(p)'
    <3>1. PackInv(p)
      BY DEF UploadInv
    <3>2. CASE ClockTicks
      BY <1>2, <3>1, <3>2, PackInvFrame DEF ClockTicks, Tick, clientVars
    <3>3. ASSUME NEW q \in flight, Land(q) PROVE PackInv(p)'
      BY <1>2, <3>3, LandKeeps
    <3>4. ASSUME NEW k \in Key, ObjectExpires(k) PROVE PackInv(p)'
      <4>1. UNCHANGED applied
        BY <3>4 DEF ObjectExpires
      <4>2. target[p] # NoKey /\ target[p] \notin Expirable => objects'[target[p]] = objects[target[p]]
        BY <3>1, <3>4, KeysOfAreKeys
        DEF PackInv, ObjectExpires, Expire, TypeOK, ClientTypeOK, BucketTypeOK
      <4>3. target[p] # NoKey /\ target[p] \notin Expirable /\ Holds(p) => Holds(p)'
        BY <2>1, <4>2 DEF Holds, Stored
      <4>4. Promised(p)' = Promised(p)
        BY <1>2, <2>1, <4>1 DEF Promised
      <4>5. QED
        BY <1>2, <2>1, <3>1, <4>3, <4>4 DEF PackInv, KeysOf
    <3>5. QED
      BY <1>2, <3>2, <3>3, <3>4 DEF Environment
  <2>4. QED
    BY <2>2, <2>3 DEF UploadInv
<1>3. CASE UNCHANGED vars
  <2>1. \A p \in Packs : PackInv(p)'
    BY <1>3, PackInvFrame DEF vars, clientVars, bucketVars, UploadInv
  <2>2. QED
    BY <1>3, <2>1 DEF vars, clientVars, UploadInv, FromPack
<1>4. QED
  BY <1>1, <1>2, <1>3, SnapshotAssumption DEF Next, SnapshotAssumption

\* A pack that reported success has its snapshot in the bucket, whole, whatever
\* the other processes do and however late its uploads arrive, provided that no
\* two packs draw one key.
THEOREM SuccessIsStoredHolds ==
    ASSUME NoCollision
    PROVE  Spec => []SuccessIsStored
<1>1. TypeOK /\ UploadInv /\ [Next]_vars => UploadInv'
  BY UploadStep
<1>2. UploadInv => SuccessIsStored
  BY DEF UploadInv, PackInv, Promised, Holds, SuccessIsStored
<1>3. QED
  BY <1>1, <1>2, UploadInit, TypeCorrect, PTL DEF Spec

\* A pack that has its key keeps it.
LEMMA TargetStays ==
    ASSUME TypeOK, SenderInv, [Next]_vars, NEW p \in Packs, target[p] # NoKey
    PROVE  target'[p] = target[p]
<1> USE NotBoth DEF TypeOK, ClientTypeOK
<1>1. ASSUME NEW c \in Client, Run(c) \/ Interrupt(c) \/ Kill(c)
      PROVE  target'[p] = target[p]
  <2>1. CASE c # p
    BY <1>1, <2>1, OthersUpload
  <2>2. CASE c = p
    BY <1>1, <2>2 DEF SenderInv, Run, Command, PackUpload, PackExit, Exit, Leave, Interrupt, Cancel,
       Kill, ClientStep, Attempt, Send, Fault, PutOk, GetAnswer, ListPage, ListEnd
  <2>3. QED
    BY <2>1, <2>2
<1>2. Environment => target' = target
  BY DEF Environment, ClockTicks, clientVars, Land, ObjectExpires
<1>3. QED
  BY <1>1, <1>2, SnapshotAssumption DEF Next, vars, clientVars, SnapshotAssumption

-------------------------------------------------------------------------------
(* What an unpack that succeeds has downloaded.                             *)

\* No object of before the first run has a key that a pack may draw.
FreshKeys == \A p \in Packs : \A k \in KeysOf(p) : Preexisting[k] = Absent

\* Under a key of a pack there is never anything but what that pack uploads.
BodyInv == \A p \in Packs : \A k \in KeysOf(p) : Stored(k) => objects[k].body = Payload[p]

\* What was under a key before the first run.
HeldBefore(k, b) == Preexisting[k] # Absent /\ b = Preexisting[k].body

\* Under a key nobody has drawn there is what was there, if anything.
OldInv ==
    \A k \in Key : Stored(k) /\ (\A p \in Packs : target[p] # k) => HeldBefore(k, objects[k].body)

\* Get has answered u, or u has said that it restored something.
Restored(u) ==
    \/ pc[u] = "returned" /\ op[u] = "get" /\ err[u] = "ok"
    \/ exit[u] = "ok" /\ ask[u].by # "list"

ReadInv(u) ==
    /\ exit[u] # "running" => pc[u] = "gone"
    /\ op[u] = "get" => target[u] = Chosen(u)
    /\ op[u] = "list" => ask[u].by # "key"
    /\ Restored(u) =>
          /\ got[u] \in Body \ Oversized
          /\ target[u] \in Key
          /\ target[u] = Chosen(u)
          /\ \A p \in Packs : target[u] \in KeysOf(p) => got[u] = Payload[p]
          /\ (\A p \in Packs : target[p] # target[u]) => HeldBefore(target[u], got[u])

LEMMA BodyStep ==
    ASSUME NoCollision, TypeOK, UploadInv, BodyInv, [Next]_vars
    PROVE  BodyInv'
<1> SUFFICES ASSUME NEW p \in Packs, NEW k \in KeysOf(p), Stored(k)'
             PROVE  objects'[k].body = Payload[p]
  BY DEF BodyInv, KeysOf
<1>1. k \in Key
  BY KeysOfAreKeys
<1>2. CASE objects'[k] = objects[k]
  BY <1>2 DEF BodyInv, Stored
<1>3. ASSUME NEW q \in flight, Land(q), objects'[k] # objects[k]
      PROVE  objects'[k].body = Payload[p]
  <2>1. k = q.key /\ objects'[k].body = q.body
    BY <1>1, <1>3 DEF Land, Store, TypeOK, ClientTypeOK, BucketTypeOK
  <2>2. q.from \in Packs /\ q.key = target[q.from] /\ q.body = Payload[q.from]
    BY DEF UploadInv, FromPack
  <2>3. target[q.from] \in KeysOf(q.from)
    BY <1>1, <2>1, <2>2, ClientAssumption DEF ClientAssumption, UploadInv, PackInv
  <2>4. p = q.from
    BY <2>1, <2>2, <2>3 DEF NoCollision
  <2>5. QED
    BY <2>1, <2>2, <2>4
<1>4. ASSUME NEW x \in Key, ObjectExpires(x), objects'[k] # objects[k]
      PROVE  objects'[k].body = Payload[p]
  BY <1>1, <1>4 DEF ObjectExpires, Expire, Stored, TypeOK, ClientTypeOK, BucketTypeOK
<1>5. ASSUME NEW c \in Client, Run(c) \/ Interrupt(c) \/ Kill(c)
      PROVE  UNCHANGED objects
  BY <1>5 DEF Run, Command, PackUpload, PackExit, UnpackBegin, UnpackPick, ListingExit, UnpackExit,
     Exit, Leave, Interrupt, Cancel, Kill, ClientStep, Attempt, Send, Fault, PutOk, GetAnswer, ListPage,
     ListEnd, bucketVars
<1>6. ClockTicks \/ UNCHANGED vars => UNCHANGED objects
  BY DEF ClockTicks, Tick, vars, bucketVars
<1>7. QED
  BY <1>2, <1>3, <1>4, <1>5, <1>6, SnapshotAssumption DEF Next, Environment, SnapshotAssumption

\* An object that no pack drew the key of stays what it was.
LEMMA OldStep ==
    ASSUME TypeOK, UploadInv, OldInv, [Next]_vars
    PROVE  OldInv'
<1> SUFFICES ASSUME NEW k \in Key, Stored(k)', \A p \in Packs : target'[p] # k
             PROVE  HeldBefore(k, objects'[k].body)
  BY DEF OldInv, HeldBefore
<1> USE DEF TypeOK, ClientTypeOK
<1>0. SenderInv /\ k # NoKey
  BY ClientAssumption DEF ClientAssumption, UploadInv, SenderInv, PackInv
<1>1. \A p \in Packs : target[p] # k
  BY <1>0, TargetStays
<1>2. CASE objects'[k] = objects[k]
  BY <1>1, <1>2 DEF OldInv, Stored
<1>3. ASSUME NEW q \in flight, Land(q), objects'[k] # objects[k]
      PROVE  FALSE
  <2>1. k = q.key
    BY <1>3 DEF Land, Store, BucketTypeOK
  <2>2. q.from \in Packs /\ q.key = target[q.from]
    BY DEF UploadInv, FromPack
  <2>3. QED
    BY <1>1, <2>1, <2>2
<1>4. ASSUME NEW x \in Key, ObjectExpires(x), objects'[k] # objects[k]
      PROVE  FALSE
  BY <1>4 DEF ObjectExpires, Expire, Stored, BucketTypeOK
<1>5. ASSUME NEW c \in Client, Run(c) \/ Interrupt(c) \/ Kill(c)
      PROVE  UNCHANGED objects
  BY <1>5, OthersFrame DEF Run, Command, PackUpload, PackExit, UnpackBegin, UnpackPick, ListingExit,
     UnpackExit, Exit, Leave, Interrupt, Cancel, Kill, ClientStep, Attempt, Send, Fault, PutOk,
     GetAnswer, ListPage, ListEnd, bucketVars
<1>6. ClockTicks \/ UNCHANGED vars => UNCHANGED objects
  BY DEF ClockTicks, Tick, vars, bucketVars
<1>7. QED
  BY <1>2, <1>3, <1>4, <1>5, <1>6, SnapshotAssumption DEF Next, Environment, SnapshotAssumption

\* No pack changes the key it has drawn.
Kept == \A p \in Packs : target[p] # NoKey => target'[p] = target[p]

LEMMA StillNobodys ==
    ASSUME Kept, NEW k \in Key, \A p \in Packs : target'[p] # k
    PROVE  \A p \in Packs : target[p] # k
  BY ClientAssumption DEF ClientAssumption, Kept

\* A step of another process, or of the bucket.
LEMMA ReadFrame ==
    ASSUME NEW u \in Readers, ReadInv(u), Kept,
           pc'[u] = pc[u], op'[u] = op[u], err'[u] = err[u], target'[u] = target[u],
           exit'[u] = exit[u], got'[u] = got[u], picked'[u] = picked[u], ask'[u] = ask[u]
    PROVE  ReadInv(u)'
<1>1. Chosen(u)' = Chosen(u) /\ (Restored(u)' => Restored(u))
  BY DEF Chosen, Restored
<1>2. Restored(u) /\ (\A p \in Packs : target'[p] # target[u]) =>
          \A p \in Packs : target[p] # target[u]
  BY StillNobodys DEF ReadInv
<1>3. QED
  BY <1>1, <1>2 DEF ReadInv, KeysOf, HeldBefore

LEMMA OthersRead ==
    ASSUME TypeOK, NEW u \in Readers, NEW c \in Client, c # u,
           Run(c) \/ Interrupt(c) \/ Kill(c)
    PROVE  got'[u] = got[u] /\ picked'[u] = picked[u] /\ ask'[u] = ask[u]
<1> USE Clients DEF TypeOK, ClientTypeOK
<1>1. CASE Command(c)
  BY <1>1 DEF Command, PackUpload, PackExit, UnpackBegin, UnpackPick, ListingExit,
              UnpackExit, Exit, Leave
<1>2. CASE ClientStep(c) /\ UNCHANGED <<picked, ask>>
  BY <1>2 DEF ClientStep, Attempt, Send, Fault, PutOk, GetAnswer, ListPage, ListEnd
<1>3. CASE Interrupt(c) \/ Kill(c)
  BY <1>3 DEF Interrupt, Cancel, Kill, Leave
<1>4. QED
  BY <1>1, <1>2, <1>3 DEF Run

\* The answer to a Get.
LEMMA ReadAnswer ==
    ASSUME TypeOK, BodyInv, OldInv, NEW u \in Readers, ReadInv(u), GetAnswer(u),
           UNCHANGED <<exit, picked, ask>>
    PROVE  ReadInv(u)'
<1> USE Clients DEF TypeOK, ClientTypeOK
<1>1. /\ op[u] = "get" /\ pc[u] = "await" /\ target[u] \in Key /\ exit[u] = "running"
      /\ UNCHANGED <<op, target>>
  BY DEF GetAnswer, ReadInv
<1>2. ASSUME NEW e \in {"NotFound", "TooLarge"}, Fail(u, e) PROVE ReadInv(u)'
  <2>1. ~Restored(u)' /\ pc'[u] # "idle"
    BY <1>1, <1>2 DEF Fail, Return, Restored
  <2>2. QED
    BY <1>1, <2>1 DEF ReadInv, Chosen
<1>3. ASSUME Stored(target[u]), Fits(objects[target[u]].body),
             got' = [got EXCEPT ![u] = objects[target[u]].body], Return(u, "ok")
      PROVE  ReadInv(u)'
  <2>1. got'[u] = objects[target[u]].body
    BY <1>3
  <2>2. got'[u] \in Body \ Oversized
    BY <1>1, <1>3, <2>1 DEF Fits, Stored, BucketTypeOK, Version
  <2>3. \A p \in Packs : target[u] \in KeysOf(p) => got'[u] = Payload[p]
    BY <1>3, <2>1 DEF BodyInv
  <2>4. (\A p \in Packs : target[p] # target[u]) => HeldBefore(target[u], got'[u])
    BY <1>1, <1>3, <2>1 DEF OldInv
  <2>5. target[u] = Chosen(u) /\ Chosen(u)' = Chosen(u)
    BY <1>1 DEF ReadInv, Chosen
  <2>6. QED
    BY <1>1, <2>2, <2>3, <2>4, <2>5 DEF ReadInv, KeysOf, HeldBefore
<1>4. QED
  BY <1>2, <1>3 DEF GetAnswer

LEMMA ReadOwn ==
    ASSUME TypeOK, BodyInv, OldInv, Kept, NEW u \in Readers, ReadInv(u), op[u] # "put",
           Run(u) \/ Interrupt(u) \/ Kill(u)
    PROVE  ReadInv(u)'
<1> USE Clients DEF TypeOK, ClientTypeOK
<1>0. u \notin Packs
  BY NotBoth
<1>1. CASE UnpackBegin(u)
  <2>1. exit[u] = "running" /\ UNCHANGED <<exit, ask>>
    BY <1>1 DEF UnpackBegin, ReadInv
  <2>2. /\ op'[u] = "get" => target'[u] = Chosen(u)'
        /\ op'[u] = "list" => ask[u].by # "key"
        /\ ~(pc'[u] = "returned" /\ err'[u] = "ok")
    BY <1>1 DEF UnpackBegin, Open, Return, Chosen
  <2>3. QED
    BY <2>1, <2>2 DEF ReadInv, Restored
<1>2. CASE UnpackPick(u)
  <2>1. exit[u] = "running" /\ UNCHANGED <<exit, ask>>
    BY <1>2 DEF UnpackPick, ReadInv
  <2>2. PICK o \in Eligible(u) : picked' = [picked EXCEPT ![u] = o] /\ Open(u, "get", o.key)
    BY <1>2 DEF UnpackPick
  <2>3. target'[u] = picked'[u].key /\ ~(pc'[u] = "returned" /\ err'[u] = "ok")
    BY <2>2 DEF Open, Return
  <2>4. ask[u].by # "key"
    BY <1>2 DEF UnpackPick, ReadInv
  <2>5. QED
    BY <2>1, <2>3, <2>4 DEF ReadInv, Restored, Chosen
<1>3. CASE Leave(u) /\ (ListingExit(u) \/ UnpackExit(u) \/ Kill(u))
  <2>1. UNCHANGED <<target, got, picked, ask>> /\ pc'[u] = "gone" /\ op'[u] = "none"
    BY <1>3 DEF Leave, ListingExit, UnpackExit, Kill
  <2>2. Restored(u)' => Restored(u)
    BY <1>3, <2>1 DEF ListingExit, UnpackExit, Exit, Kill, Restored
  <2>3. Restored(u) /\ (\A p \in Packs : target'[p] # target[u]) =>
            \A p \in Packs : target[p] # target[u]
    BY StillNobodys DEF ReadInv
  <2>4. Chosen(u)' = Chosen(u)
    BY <2>1 DEF Chosen
  <2>5. QED
    BY <2>1, <2>2, <2>3, <2>4 DEF ReadInv, KeysOf, HeldBefore
<1>4. CASE Interrupt(u)
  BY <1>4, ReadFrame DEF Interrupt, Cancel
<1>5. CASE ClientStep(u) /\ UNCHANGED <<exit, picked, ask>>
  <2>1. CASE GetAnswer(u)
    BY <1>5, <2>1, ReadAnswer
  <2>2. CASE ~GetAnswer(u)
    <3>1. UNCHANGED <<op, target, got>> /\ pc[u] \in {"ready", "sleep", "await"}
      BY <1>5, <2>2 DEF ClientStep, Attempt, Send, Fault, PutOk, ListPage, ListEnd
    <3>2. ~(pc'[u] = "returned" /\ op'[u] = "get" /\ err'[u] = "ok")
      <4>1. CASE Attempt(u)
        BY <4>1 DEF Attempt, Return
      <4>2. CASE Fault(u)
        <5>1. PICK e \in Faults[u] \cup {"Canceled"} : Fail(u, e)
          BY <4>2 DEF Fault
        <5>2. e # "ok"
          BY ClientAssumption DEF ClientAssumption, TransientCode, DefinitiveCode
        <5>3. QED
          BY <5>1, <5>2 DEF Fail, Return
      <4>3. CASE Send(u) \/ PutOk(u) \/ ListPage(u) \/ ListEnd(u)
        BY <4>3 DEF Send, PutOk, ListPage, ListEnd
      <4>4. QED
        BY <1>5, <2>2, <4>1, <4>2, <4>3 DEF ClientStep
    <3>3. exit[u] = "running"
      BY <3>1 DEF ReadInv
    <3>4. QED
      BY <1>5, <3>1, <3>2, <3>3 DEF ReadInv, Restored, Chosen
  <2>3. QED
    BY <2>1, <2>2
<1>6. QED
  BY <1>0, <1>1, <1>2, <1>3, <1>4, <1>5 DEF Run, Command, ListingExit, UnpackExit, Exit, Kill

LEMMA ReadStep ==
    ASSUME TypeOK, UploadInv, BodyInv, OldInv, \A u \in Readers : ReadInv(u), [Next]_vars,
           NEW u \in Readers
    PROVE  ReadInv(u)'
<1>0. Kept
  BY TargetStays DEF Kept, UploadInv, SenderInv, PackInv
<1>1. ASSUME NEW c \in Client, Run(c) \/ Interrupt(c) \/ Kill(c) PROVE ReadInv(u)'
  <2>1. CASE c = u
    BY <1>0, <1>1, <2>1, ReadOwn DEF UploadInv
  <2>2. CASE c # u
    BY <1>0, <1>1, <2>2, Clients, OthersFrame, OthersUpload, OthersRead, ReadFrame
  <2>3. QED
    BY <2>1, <2>2
<1>2. CASE Environment /\ UNCHANGED <<exit, picked, ask>>
  <2>1. UNCHANGED <<pc, op, err, target, got>>
    BY <1>2 DEF Environment, ClockTicks, clientVars, Land, ObjectExpires
  <2>2. QED
    BY <1>0, <1>2, <2>1, ReadFrame
<1>3. CASE UNCHANGED vars
  BY <1>0, <1>3, ReadFrame DEF vars, clientVars
<1>4. QED
  BY <1>1, <1>2, <1>3, SnapshotAssumption DEF Next, SnapshotAssumption

\* What unpack hands to the decryption is the snapshot it picked, or was told to
\* take: what the pack that drew its key uploaded, whole, or, if none drew it, what
\* the key held before, provided that no two packs draw one key and none an old one.
THEOREM RestoredIsPickedHolds ==
    ASSUME NoCollision, FreshKeys
    PROVE  Spec => []RestoredIsPicked
<1> DEFINE All == UploadInv /\ BodyInv /\ OldInv /\ \A u \in Readers : ReadInv(u)
<1>1. Init => All
  <2> SUFFICES ASSUME Init PROVE All
    OBVIOUS
  <2>1. BodyInv
    BY KeysOfAreKeys DEF FreshKeys, BodyInv, Stored, Init, ClientInit, BucketInit
  <2>2. \A u \in Readers : ReadInv(u)
    BY Clients DEF Init, ClientInit, ReadInv, Restored
  <2>3. OldInv
    BY DEF OldInv, HeldBefore, Stored, Init, ClientInit, BucketInit
  <2>4. QED
    BY <2>1, <2>2, <2>3, UploadInit
<1>2. TypeOK /\ All /\ [Next]_vars => All'
  BY UploadStep, BodyStep, OldStep, ReadStep
<1>3. TypeOK /\ All => RestoredIsPicked
  <2> SUFFICES ASSUME TypeOK, All, NEW u \in Readers, exit[u] = "ok", ask[u].by # "list"
               PROVE  /\ got[u] \in Body \ Oversized
                      /\ \A p \in Packs : target[p] = Chosen(u) => got[u] = Payload[p]
                      /\ (\A p \in Packs : target[p] # Chosen(u)) => HeldBefore(Chosen(u), got[u])
    BY DEF RestoredIsPicked, HeldBefore
  <2>1. ReadInv(u) /\ Restored(u)
    BY DEF Restored
  <2>2. \A p \in Packs : target[p] \in KeysOf(p) \cup {NoKey}
    BY DEF UploadInv, PackInv
  <2>3. QED
    BY <2>1, <2>2, ClientAssumption DEF ReadInv, ClientAssumption
<1>4. QED
  BY <1>1, <1>2, <1>3, TypeCorrect, PTL DEF Spec

-------------------------------------------------------------------------------
(* The newest at some instant.                                             *)

\* No stamp is from the future, and what a listing in progress has seen is still
\* in the bucket, as old or newer, unless it could be deleted.
Since(o) == IF Stored(o.key) THEN o.mtime <= objects[o.key].mtime ELSE o.key \in Expirable

PastInv ==
    /\ \A k \in Key : Stored(k) => objects[k].mtime <= clock
    /\ \A u \in Client : \A v \in views[u] : \A o \in v : o.mtime <= clock /\ Since(o)

LEMMA PastInit == Init => PastInv
  BY BucketAssumption DEF BucketAssumption, Init, ClientInit, BucketInit, PastInv, Stored

\* What is in the bucket has such a past.
LEMMA ContentsPast ==
    ASSUME BucketTypeOK, \A k \in Key : Stored(k) => objects[k].mtime <= clock, NEW o \in Contents
    PROVE  /\ o \in Entry /\ Stored(o.key) /\ o.mtime = objects[o.key].mtime
           /\ o.mtime <= clock /\ Since(o)
<1>1. PICK k \in Key : Stored(k) /\ o = EntryOf(k)
  BY DEF Contents
<1>2. o.key = k /\ o.mtime = objects[k].mtime /\ o \in Entry
  BY <1>1, ContentsType DEF EntryOf
<1>3. o.mtime \in Nat
  BY <1>2, BucketAssumption DEF BucketAssumption, Entry, Time
<1>4. QED
  BY <1>1, <1>2, <1>3 DEF Since

\* A step of the clock or of the bucket makes nothing older.
LEMMA PastEnvironment ==
    ASSUME TypeOK, PastInv, Environment
    PROVE  /\ \A k \in Key : Stored(k)' => objects'[k].mtime <= clock'
           /\ \A o \in Entry : o.mtime <= clock /\ Since(o) => o.mtime <= clock' /\ Since(o)'
<1> USE DEF TypeOK, ClientTypeOK, BucketTypeOK
<1>0. /\ clock \in Nat /\ \A o \in Entry : o.mtime \in Nat /\ o.key \in Key
      /\ \A k \in Key : Stored(k) => objects[k].mtime \in Nat
  BY BucketAssumption DEF BucketAssumption, Entry, Time, Stored, Version
<1>1. CASE ClockTicks
  <2>1. objects' = objects /\ clock' = clock + 1
    BY <1>1 DEF ClockTicks, Tick
  <2>2. QED
    BY <1>0, <2>1 DEF PastInv, Since, Stored
<1>2. ASSUME NEW q \in flight, Land(q)
      PROVE  /\ \A k \in Key : Stored(k)' => objects'[k].mtime <= clock'
             /\ \A o \in Entry : o.mtime <= clock /\ Since(o) => o.mtime <= clock' /\ Since(o)'
  <2>1. q.key \in Key /\ q.body \in Body
    BY DEF Request
  <2>2. /\ clock' = clock
        /\ objects' = [objects EXCEPT ![q.key] = [body |-> q.body, mtime |-> clock]]
    BY <1>2 DEF Land, Store
  <2>3. [body |-> q.body, mtime |-> clock] # Absent
    BY <2>1, BucketAssumption DEF BucketAssumption, Version, Time
  <2>4. \A k \in Key : /\ k = q.key => Stored(k)' /\ objects'[k].mtime = clock
                       /\ k # q.key => objects'[k] = objects[k]
    BY <2>1, <2>2, <2>3 DEF Stored
  <2>5. QED
    BY <1>0, <2>2, <2>4 DEF PastInv, Since, Stored
<1>3. ASSUME NEW k \in Key, ObjectExpires(k)
      PROVE  /\ \A i \in Key : Stored(i)' => objects'[i].mtime <= clock'
             /\ \A o \in Entry : o.mtime <= clock /\ Since(o) => o.mtime <= clock' /\ Since(o)'
  <2>1. clock' = clock /\ objects' = [objects EXCEPT ![k] = Absent] /\ k \in Expirable
    BY <1>3 DEF ObjectExpires, Expire
  <2>2. \A i \in Key : /\ i = k => ~Stored(i)'
                       /\ i # k => objects'[i] = objects[i]
    BY <2>1 DEF Stored
  <2>3. QED
    BY <1>0, <2>1, <2>2 DEF PastInv, Since, Stored
<1>4. QED
  BY <1>1, <1>2, <1>3 DEF Environment

LEMMA PastStep == TypeOK /\ PastInv /\ [Next]_vars => PastInv'
<1> SUFFICES ASSUME TypeOK, PastInv, [Next]_vars PROVE PastInv'
  OBVIOUS
<1> USE DEF TypeOK, ClientTypeOK
<1>1. CASE Environment /\ UNCHANGED <<exit, picked, ask>>
  <2>1. \A k \in Key : Stored(k)' => objects'[k].mtime <= clock'
    BY <1>1, PastEnvironment
  <2>2. ASSUME NEW u \in Client, NEW v \in views'[u], NEW o \in v
        PROVE  o.mtime <= clock' /\ Since(o)'
    <3>1. v \in views[u] \/ v = Contents'
      BY <1>1 DEF Environment, ClockTicks, clientVars, Land, ObjectExpires, Observe
    <3>2. CASE v \in views[u]
      BY <1>1, <3>2, PastEnvironment DEF PastInv
    <3>3. CASE v = Contents'
      <4>1. PICK k \in Key : Stored(k)' /\ o = [key |-> k, mtime |-> objects'[k].mtime]
        BY <3>3 DEF Contents, EntryOf
      <4>2. o.mtime \in Nat
        <5>1. BucketTypeOK'
          BY StepType
        <5>2. QED
          BY <4>1, <5>1, BucketAssumption DEF BucketAssumption, BucketTypeOK, Stored, Version, Time
      <4>3. QED
        BY <2>1, <4>1, <4>2 DEF Since
    <3>4. QED
      BY <3>1, <3>2, <3>3
  <2>3. QED
    BY <2>1, <2>2 DEF PastInv
<1>2. CASE UNCHANGED bucketVars /\ \A u \in Client : views'[u] \subseteq views[u] \cup {Contents}
  <2>1. ASSUME NEW u \in Client, NEW v \in views'[u], NEW o \in v
        PROVE  o.mtime <= clock /\ Since(o)
    <3>1. CASE v \in views[u]
      BY <3>1 DEF PastInv
    <3>2. CASE v = Contents
      BY <3>2, ContentsPast DEF PastInv
    <3>3. QED
      BY <1>2, <3>1, <3>2
  <2>2. QED
    BY <1>2, <2>1 DEF bucketVars, PastInv, Since, Stored
<1>3. ASSUME NEW c \in Client, Run(c) \/ Interrupt(c) \/ Kill(c)
      PROVE  UNCHANGED bucketVars /\ \A u \in Client : views'[u] \subseteq views[u] \cup {Contents}
  <2>1. UNCHANGED bucketVars
    BY <1>3 DEF Run, Command, PackUpload, PackExit, UnpackBegin, UnpackPick, ListingExit,
       UnpackExit, Exit, Leave, Interrupt, Cancel, Kill, ClientStep, Attempt, Send, Fault, PutOk,
       GetAnswer, ListPage, ListEnd
  <2>2. \/ views' = views
        \/ \E w \in {{}, {Contents}} : views' = [views EXCEPT ![c] = w]
    BY <1>3 DEF Run, Command, PackUpload, PackExit, UnpackBegin, UnpackPick, ListingExit,
       UnpackExit, Exit, Leave, Interrupt, Cancel, Kill, ClientStep, Attempt, Send, Fault, PutOk,
       GetAnswer, ListPage, ListEnd
  <2>3. QED
    BY <2>1, <2>2
<1>4. CASE UNCHANGED vars
  BY <1>2, <1>4 DEF vars, clientVars
<1>5. QED
  BY <1>1, <1>2, <1>3, <1>4, SnapshotAssumption DEF Next, SnapshotAssumption

LEMMA SenderStep == TypeOK /\ SenderInv /\ [Next]_vars => SenderInv'
<1> SUFFICES ASSUME TypeOK, SenderInv, [Next]_vars PROVE SenderInv'
  OBVIOUS
<1> USE DEF TypeOK, ClientTypeOK
<1>1. ASSUME NEW c \in Client, Run(c) \/ Interrupt(c) \/ Kill(c)
      PROVE  SenderInv'
  <2>1. ASSUME NEW p \in Packs
        PROVE  /\ pc'[p] = "idle" => target'[p] = NoKey
               /\ pc'[p] \notin {"idle", "gone"} => op'[p] = "put"
    <3>1. CASE c # p
      BY <1>1, <3>1, NotBoth, OthersFrame, OthersUpload DEF SenderInv
    <3>2. CASE c = p
      BY <1>1, <3>2, NotBoth
      DEF SenderInv, Run, Command, PackUpload, PackExit, Exit, Leave, Open, Return, Interrupt, Cancel,
          Kill, ClientStep, Attempt, Send, Fault, Fail, PutOk, GetAnswer, ListPage, ListEnd
    <3>3. QED
      BY <3>1, <3>2
  <2>2. \A u \in Readers : op'[u] # "put"
    BY <1>1, ReadersOp DEF SenderInv
  <2>3. \A q \in flight' : FromPack(q)'
    BY <1>1, RequestsStep
  <2>4. QED
    BY <2>1, <2>2, <2>3 DEF SenderInv
<1>2. CASE Environment
  <2>1. UNCHANGED <<op, target, pc>> /\ flight' \subseteq flight
    BY <1>2 DEF Environment, ClockTicks, clientVars, Land, ObjectExpires
  <2>2. QED
    BY <2>1 DEF SenderInv, FromPack
<1>3. CASE UNCHANGED vars
  BY <1>3 DEF vars, clientVars, SenderInv, FromPack
<1>4. QED
  BY <1>1, <1>2, <1>3, SnapshotAssumption DEF Next, SnapshotAssumption

\* Something that u's listing has seen was deleted.
Broken(u) == \E v \in views[u] : \E o \in v : SnapshotOf(Name[u], o.key) /\ ~Lasting(o)

\* Something newer than o has been collected.
Outdone(u, o) == \E l \in listed[u] : l.mtime > o.mtime

\* At some instant nothing was newer than o, except beyond the cursor.
Leading(u, o) ==
    \E v \in views[u] :
        /\ o \in v
        /\ \A p \in v : SnapshotOf(Name[u], p.key) /\ p.mtime > o.mtime => KeyLess(cursor[u], p.key)

WasNewest(u, o) ==
    \E v \in views[u] :
        o \in v /\ \A p \in v : SnapshotOf(Name[u], p.key) => p.mtime <= o.mtime

LeadInv(u) ==
    /\ pc[u] = "await" /\ op[u] = "list" =>
         \A o \in Contents \cup listed[u] :
            SnapshotOf(Name[u], o.key) => Broken(u) \/ Outdone(u, o) \/ Leading(u, o)
    /\ pc[u] = "returned" /\ op[u] = "list" /\ err[u] = "ok" =>
         \A o \in listed[u] : Broken(u) \/ Outdone(u, o) \/ WasNewest(u, o)

\* What has been deleted stays so: if an upload brings it back, then by a pack
\* whose key it is.
LEMMA BrokenStays ==
    ASSUME TypeOK, SenderInv, PastInv, [Next]_vars, NEW u \in Client, Broken(u),
           views[u] \subseteq views'[u]
    PROVE  Broken(u)'
<1>1. PICK v \in views[u] : \E o \in v : SnapshotOf(Name[u], o.key) /\ ~Lasting(o)
  BY DEF Broken
<1>2. PICK o \in v : SnapshotOf(Name[u], o.key) /\ ~Lasting(o)
  BY <1>1
<1>3. o \in Entry /\ o.key \in Key /\ Since(o)
  BY DEF TypeOK, ClientTypeOK, Entry, PastInv
<1>4. SUFFICES ASSUME Lasting(o)' PROVE FALSE
  BY <1>2 DEF Broken
<1>5. Stored(o.key)' /\ (o.key \in Expirable => \A p \in Packs : target'[p] # o.key)
  BY <1>4 DEF Lasting
<1>6. o.key # NoKey
  BY <1>3, ClientAssumption DEF ClientAssumption
<1>7. CASE ~Stored(o.key)
  <2>1. o.key \in Expirable
    BY <1>3, <1>7 DEF Since
  <2>2. PICK q \in flight : Land(q) /\ q.key = o.key
    <3>1. objects'[o.key] # objects[o.key]
      BY <1>5, <1>7 DEF Stored
    <3>2. PICK q \in flight : Land(q)
      BY <1>3, <1>5, <1>7, <3>1
      DEF Next, vars, clientVars, bucketVars, Run, Command, PackUpload, PackExit, UnpackBegin,
          UnpackPick, ListingExit, UnpackExit, Exit, Leave, Interrupt, Cancel, Kill, ClientStep,
          Attempt, Send, Fault, PutOk, GetAnswer, ListPage, ListEnd, Environment, ClockTicks, Tick,
          ObjectExpires, Expire, Stored, TypeOK, ClientTypeOK, BucketTypeOK
    <3>3. QED
      BY <1>3, <3>1, <3>2 DEF Land, Store, TypeOK, ClientTypeOK, BucketTypeOK
  <2>3. q.from \in Packs /\ target[q.from] = o.key
    BY <2>2 DEF SenderInv, FromPack
  <2>4. QED
    BY <1>5, <1>6, <2>1, <2>3, TargetStays
<1>8. CASE Stored(o.key)
  <2>1. PICK p \in Packs : o.key \in Expirable /\ target[p] = o.key
    BY <1>2, <1>8 DEF Lasting
  <2>2. QED
    BY <1>5, <1>6, <2>1, TargetStays
<1>9. QED
  BY <1>7, <1>8

\* What a page adds: once the keys up to hi have been served, an entry is outdone,
\* or it leads up to hi.
LEMMA PageLeads ==
    ASSUME TypeOK, PastInv, NEW u \in Client, NEW page \in SUBSET Remaining(u), NEW o \in Entry,
           NEW v \in views[u], NEW p \in v,
           SnapshotOf(Name[u], p.key), p.mtime > o.mtime, KeyLess(cursor[u], p.key),
           p.key \in Remaining(u) => p.key \in page
    PROVE  Broken(u) \/ \E l \in Listing(page) : l.mtime > o.mtime
<1> SUFFICES ASSUME ~Broken(u) PROVE \E l \in Listing(page) : l.mtime > o.mtime
  OBVIOUS
<1>1. p \in Entry /\ p.key \in Key /\ p.mtime \in Nat /\ o.mtime \in Nat
  BY BucketAssumption DEF BucketAssumption, TypeOK, ClientTypeOK, Entry, Time
<1>2. Stored(p.key)
  BY DEF Broken, Lasting
<1>3. p.mtime <= objects[p.key].mtime
  BY <1>2 DEF PastInv, Since
<1> DEFINE l == EntryOf(p.key)
<1>4. l \in Contents /\ l.key = p.key /\ l.mtime = objects[p.key].mtime /\ l \in Entry
  BY <1>1, <1>2, ContentsType DEF EntryOf, Contents, TypeOK, ClientTypeOK
<1>5. l.mtime \in Nat
  BY <1>4, BucketAssumption DEF BucketAssumption, Entry, Time
<1>6. l \in Listing(page)
  BY <1>4, SnapshotRemains, PageCovers
<1>7. QED
  BY <1>1, <1>3, <1>4, <1>5, <1>6

\* The steps of u's own call.
LEMMA LeadCall ==
    ASSUME TypeOK, SenderInv, PastInv, [Next]_vars,
           NEW u \in Client, ListingCovers(u), \A o \in listed[u] : Genuine(u, o),
           LeadInv(u), ClientStep(u)
    PROVE  LeadInv(u)'
<1> USE DEF TypeOK, ClientTypeOK
<1>0. Contents' = Contents /\ \A o \in Contents : o \in Entry
  <2>1. UNCHANGED objects
    BY DEF ClientStep, Attempt, Send, Fault, PutOk, GetAnswer, ListPage, ListEnd, bucketVars
  <2>2. QED
    BY <2>1, ContentsType DEF Contents, Stored, EntryOf
<1>1. CASE Attempt(u)
  <2>1. CASE pc'[u] = "await" /\ op'[u] = "list"
    <3>1. views'[u] = {Contents} /\ cursor'[u] = <<>> /\ listed'[u] = {}
      BY <1>1, <2>1 DEF Attempt, Return
    <3>2. \A p \in Contents : KeyLess(<<>>, p.key)
      BY <1>0, AllAfterEmpty DEF Entry
    <3>3. \A o \in Contents : Leading(u, o)'
      BY <3>1, <3>2 DEF Leading
    <3>4. QED
      BY <1>0, <2>1, <3>1, <3>3 DEF LeadInv
  <2>2. CASE ~(pc'[u] = "await" /\ op'[u] = "list")
    <3>1. pc'[u] = "returned" => err'[u] # "ok"
      BY <1>1, <2>2 DEF Attempt, Return
    <3>2. QED
      BY <2>2, <3>1 DEF LeadInv
  <2>3. QED
    BY <2>1, <2>2
<1>2. CASE Fault(u)
  <2>1. PICK e \in Faults[u] \cup {"Canceled"} : Fail(u, e)
    BY <1>2 DEF Fault
  <2>2. e # "ok"
    BY ClientAssumption DEF ClientAssumption, TransientCode, DefinitiveCode
  <2>3. pc'[u] # "await" /\ (pc'[u] = "returned" => err'[u] # "ok")
    BY <2>1, <2>2 DEF Fail, Return
  <2>4. QED
    BY <2>3 DEF LeadInv
<1>3. CASE PutOk(u) \/ GetAnswer(u)
  BY <1>3 DEF PutOk, GetAnswer, LeadInv
<1>4. CASE ListPage(u)
  <2>1. PICK hi \in Remaining(u) :
          /\ listed' = [listed EXCEPT ![u] = @ \cup
                          Listing({k \in Remaining(u) : ~KeyLess(hi, k)})]
          /\ cursor' = [cursor EXCEPT ![u] = hi]
    BY <1>4 DEF ListPage
  <2> DEFINE page == {k \in Remaining(u) : ~KeyLess(hi, k)}
  <2>2. listed'[u] = listed[u] \cup Listing(page) /\ cursor'[u] = hi
    BY <2>1
  <2>3. views' = views /\ pc' = pc /\ op' = op /\ pc[u] = "await" /\ op[u] = "list"
    BY <1>4 DEF ListPage
  <2>4. Broken(u) => Broken(u)'
    BY <2>3, BrokenStays
  <2>5. \A o \in Listing(page) : o \in Contents
    BY PageIsGenuine
  <2> HIDE DEF page
  <2>6. ASSUME NEW o \in Contents \cup listed[u], SnapshotOf(Name[u], o.key)
        PROVE  Broken(u)' \/ Outdone(u, o)' \/ Leading(u, o)'
    <3>1. CASE Broken(u)
      BY <2>4, <3>1
    <3>2. CASE Outdone(u, o)
      BY <2>2, <3>2 DEF Outdone
    <3>3. CASE Leading(u, o)
      <4>1. PICK v \in views[u] :
              /\ o \in v
              /\ \A p \in v : SnapshotOf(Name[u], p.key) /\ p.mtime > o.mtime =>
                                  KeyLess(cursor[u], p.key)
        BY <3>3 DEF Leading
      <4>2. CASE \A p \in v : SnapshotOf(Name[u], p.key) /\ p.mtime > o.mtime => KeyLess(hi, p.key)
        BY <2>2, <2>3, <4>1, <4>2 DEF Leading
      <4>3. ASSUME NEW p \in v, SnapshotOf(Name[u], p.key), p.mtime > o.mtime, ~KeyLess(hi, p.key)
            PROVE  Broken(u) \/ \E l \in Listing(page) : l.mtime > o.mtime
        <5>1. p.key \in Remaining(u) => p.key \in page
          BY <4>3 DEF page
        <5>2. page \in SUBSET Remaining(u) /\ o \in Entry
          BY <1>0 DEF page
        <5>3. QED
          BY <4>1, <4>3, <5>1, <5>2, PageLeads
      <4>4. QED
        BY <2>2, <2>4, <4>2, <4>3 DEF Outdone
    <3>4. QED
      BY <2>3, <2>6, <3>1, <3>2, <3>3 DEF LeadInv
  <2>7. QED
    BY <1>0, <2>2, <2>3, <2>5, <2>6 DEF LeadInv
<1>5. CASE ListEnd(u)
  <2>1. listed'[u] = listed[u] \cup Listing(Remaining(u))
    BY <1>5 DEF ListEnd
  <2>2. views' = views /\ op' = op /\ pc'[u] = "returned" /\ pc[u] = "await" /\ op[u] = "list"
    BY <1>5 DEF ListEnd, Return
  <2>3. Broken(u) => Broken(u)'
    BY <2>2, BrokenStays
  <2>4. \A o \in Listing(Remaining(u)) : o \in Contents /\ SnapshotOf(Name[u], o.key)
    BY PageIsGenuine
  <2>5. ASSUME NEW o \in Contents \cup listed[u], SnapshotOf(Name[u], o.key)
        PROVE  Broken(u)' \/ Outdone(u, o)' \/ WasNewest(u, o)'
    <3>1. CASE Broken(u)
      BY <2>3, <3>1
    <3>2. CASE Outdone(u, o)
      BY <2>1, <3>2 DEF Outdone
    <3>3. CASE Leading(u, o)
      <4>1. PICK v \in views[u] :
              /\ o \in v
              /\ \A p \in v : SnapshotOf(Name[u], p.key) /\ p.mtime > o.mtime =>
                                  KeyLess(cursor[u], p.key)
        BY <3>3 DEF Leading
      <4>2. \A p \in v : p.mtime \in Nat /\ o.mtime \in Nat
        BY <1>0, BucketAssumption DEF BucketAssumption, Entry, Time
      <4>3. CASE \A p \in v : SnapshotOf(Name[u], p.key) => p.mtime <= o.mtime
        BY <2>2, <4>1, <4>3 DEF WasNewest
      <4>4. ASSUME NEW p \in v, SnapshotOf(Name[u], p.key), p.mtime > o.mtime
            PROVE  Broken(u) \/ \E l \in Listing(Remaining(u)) : l.mtime > o.mtime
        BY <1>0, <4>1, <4>4, PageLeads
      <4>5. CASE \E p \in v : SnapshotOf(Name[u], p.key) /\ p.mtime > o.mtime
        BY <2>1, <2>3, <4>4, <4>5 DEF Outdone
      <4>6. QED
        BY <4>2, <4>3, <4>5
    <3>4. QED
      BY <2>2, <2>5, <3>1, <3>2, <3>3 DEF LeadInv
  <2>6. \A o \in listed'[u] : o \in Contents \cup listed[u] /\ SnapshotOf(Name[u], o.key)
    BY <2>1, <2>4 DEF Genuine
  <2>7. \A o \in listed'[u] : Broken(u)' \/ Outdone(u, o)' \/ WasNewest(u, o)'
    BY <2>5, <2>6
  <2>8. QED
    BY <2>2, <2>7 DEF LeadInv
<1>6. CASE Send(u)
  BY <1>6 DEF Send, LeadInv
<1>7. QED
  BY <1>1, <1>2, <1>3, <1>4, <1>5, <1>6 DEF ClientStep

\* A step that leaves u's listing and the bucket alone.
LEMMA LeadFrame ==
    ASSUME TypeOK, SenderInv, PastInv, [Next]_vars, NEW u \in Client, LeadInv(u),
           pc'[u] = pc[u], op'[u] = op[u], err'[u] = err[u], views'[u] = views[u],
           cursor'[u] = cursor[u], listed'[u] = listed[u], UNCHANGED objects
    PROVE  LeadInv(u)'
<1>1. Broken(u) => Broken(u)'
  BY BrokenStays
<1>2. Contents' = Contents
  BY DEF Contents, Stored, EntryOf
<1>3. ASSUME pc[u] = "await" /\ op[u] = "list",
             NEW o \in Contents' \cup listed'[u], SnapshotOf(Name[u], o.key)
      PROVE  Broken(u)' \/ Outdone(u, o)' \/ Leading(u, o)'
  <2>1. Broken(u) \/ Outdone(u, o) \/ Leading(u, o)
    BY <1>2, <1>3 DEF LeadInv
  <2>2. QED
    BY <1>1, <2>1 DEF Outdone, Leading
<1>4. ASSUME pc[u] = "returned" /\ op[u] = "list" /\ err[u] = "ok", NEW o \in listed'[u]
      PROVE  Broken(u)' \/ Outdone(u, o)' \/ WasNewest(u, o)'
  <2>1. Broken(u) \/ Outdone(u, o) \/ WasNewest(u, o)
    BY <1>4 DEF LeadInv
  <2>2. QED
    BY <1>1, <2>1 DEF Outdone, WasNewest
<1>5. QED
  BY <1>3, <1>4 DEF LeadInv

\* A change of the bucket: what appears is as new as can be.
LEMMA LeadObserve ==
    ASSUME TypeOK, SenderInv, PastInv, [Next]_vars, NEW u \in Client, LeadInv(u),
           \A k \in Key : Stored(k)' => objects'[k].mtime <= clock',
           \A o \in Contents' : o \in Contents \/ o.mtime = clock',
           Observe, UNCHANGED <<pc, op, err, cursor, listed>>
    PROVE  LeadInv(u)'
<1> USE DEF TypeOK, ClientTypeOK
<1>1. views[u] \subseteq views'[u]
  BY DEF Observe
<1>2. /\ Broken(u) => Broken(u)'
      /\ \A o : /\ Outdone(u, o) => Outdone(u, o)'
                /\ Leading(u, o) => Leading(u, o)'
                /\ WasNewest(u, o) => WasNewest(u, o)'
  BY <1>1, BrokenStays DEF Outdone, Leading, WasNewest
<1>3. CASE pc[u] = "await" /\ op[u] = "list"
  <2>1. Contents' \in views'[u]
    BY <1>3 DEF Observe
  <2>2. ASSUME NEW o \in Contents', o.mtime = clock' PROVE Leading(u, o)'
    <3>1. \A p \in Contents' : p.mtime <= clock' /\ p.mtime \in Nat /\ clock' \in Nat
      <4>1. BucketTypeOK'
        BY StepType
      <4>2. QED
        BY <4>1, BucketAssumption
        DEF BucketAssumption, BucketTypeOK, Contents, EntryOf, Stored, Version, Time
    <3>2. \A p \in Contents' : ~(p.mtime > o.mtime)
      BY <2>2, <3>1
    <3>3. QED
      BY <2>1, <3>2 DEF Leading
  <2>3. QED
    BY <1>2, <1>3, <2>2 DEF LeadInv
<1>4. CASE ~(pc[u] = "await" /\ op[u] = "list")
  BY <1>2, <1>4 DEF LeadInv
<1>5. QED
  BY <1>3, <1>4

LEMMA LeadStep ==
    ASSUME TypeOK, ListingInv, GenuineInv, SenderInv, PastInv, [Next]_vars,
           NEW u \in Client, LeadInv(u)
    PROVE  LeadInv(u)'
<1> USE DEF TypeOK, ClientTypeOK
<1>1. ASSUME NEW c \in Client, Run(c) \/ Interrupt(c) \/ Kill(c), c # u
      PROVE  LeadInv(u)'
  BY <1>1, OthersFrame, LeadFrame
<1>2. CASE ClientStep(u)
  BY <1>2, LeadCall DEF ListingInv, GenuineInv
<1>3. CASE Command(u) \/ Kill(u)
  <2>1. pc'[u] # "await" /\ (pc'[u] = "returned" => err'[u] # "ok")
    <3>1. CASE Leave(u)
      BY <3>1 DEF Leave
    <3>2. CASE ~Leave(u)
      <4>1. PICK o, k : Open(u, o, k)
        BY <1>3, <3>2 DEF Command, PackUpload, PackExit, UnpackBegin, UnpackPick, ListingExit,
                    UnpackExit, Exit, Kill
      <4>2. QED
        BY <4>1 DEF Open, Return
    <3>3. QED
      BY <3>1, <3>2
  <2>2. QED
    BY <2>1 DEF LeadInv
<1>4. CASE Interrupt(u)
  BY <1>4, LeadFrame DEF Interrupt, Cancel, bucketVars
<1>5. CASE Environment
  <2>1. CASE ClockTicks
    BY <2>1, LeadFrame DEF ClockTicks, Tick, clientVars
  <2>2. CASE ~ClockTicks
    <3>1. Observe /\ UNCHANGED <<pc, op, err, cursor, listed>>
      BY <1>5, <2>2 DEF Environment, Land, ObjectExpires
    <3>2. \A k \in Key : Stored(k)' => objects'[k].mtime <= clock'
      BY <1>5, PastEnvironment
    <3>3. \A k \in Key : Stored(k)' =>
              (Stored(k) /\ objects'[k] = objects[k]) \/ objects'[k].mtime = clock'
      <4>1. ASSUME NEW q \in flight, Land(q), NEW k \in Key
            PROVE  objects'[k] = objects[k] \/ objects'[k].mtime = clock'
        BY <4>1 DEF Land, Store, BucketTypeOK
      <4>2. ASSUME NEW i \in Key, ObjectExpires(i), NEW k \in Key
            PROVE  objects'[k] = objects[k] \/ objects'[k] = Absent
        BY <4>2 DEF ObjectExpires, Expire, BucketTypeOK
      <4>3. QED
        BY <1>5, <2>2, <4>1, <4>2 DEF Environment, Stored
    <3>4. \A o \in Contents' : o \in Contents \/ o.mtime = clock'
      BY <3>3 DEF Contents, EntryOf
    <3>5. QED
      BY <3>1, <3>2, <3>4, LeadObserve
  <2>3. QED
    BY <2>1, <2>2
<1>6. CASE UNCHANGED vars
  BY <1>6, LeadFrame DEF vars, clientVars, bucketVars
<1>7. QED
  BY <1>1, <1>2, <1>3, <1>4, <1>5, <1>6, SnapshotAssumption DEF Next, Run, SnapshotAssumption

\* If no snapshot of the name was deleted meanwhile, the snapshot the default unpack
\* picks was the newest of its name at some instant of the listing, however many
\* pages and retries it took and whatever was uploaded between them.
THEOREM PickedWasNewestHolds == Spec => PickedWasNewest
<1> DEFINE All == GenuineInv /\ SenderInv /\ PastInv /\ \A u \in Client : LeadInv(u)
<1> DEFINE Right(u) ==
         /\ Picks(u) /\ ask[u].by = "newest"
         /\ \A v \in views[u] : \A o \in v : InReach(u, o) => Lasting(o)
         => \E v \in views[u] :
              /\ picked'[u] \in v
              /\ \A o \in v : InReach(u, o) => o.mtime <= picked'[u].mtime
<1>1. Init => All
  <2> SUFFICES ASSUME Init PROVE All
    OBVIOUS
  <2>1. SenderInv
    BY NotBoth, Clients DEF Init, ClientInit, SenderInv
  <2>2. \A u \in Client : LeadInv(u)
    BY DEF Init, ClientInit, LeadInv
  <2>3. QED
    BY <2>1, <2>2, PastInit DEF Init, ClientInit, GenuineInv
<1>2. TypeOK /\ ListingInv /\ All /\ [Next]_vars => All'
  BY GenuineStep, SenderStep, PastStep, LeadStep
<1>3. TypeOK /\ All /\ [Next]_vars => [\A u \in Readers : Right(u)]_vars
  <2> SUFFICES ASSUME TypeOK, All, Next, NEW u \in Readers, Picks(u), ask[u].by = "newest",
                      \A v \in views[u] : \A o \in v : InReach(u, o) => Lasting(o)
               PROVE  \E v \in views[u] :
                         /\ picked'[u] \in v
                         /\ \A o \in v : InReach(u, o) => o.mtime <= picked'[u].mtime
    OBVIOUS
  <2>1. UnpackPick(u)
    BY DEF Next, Run, Command, PackUpload, PackExit, UnpackBegin, UnpackPick, ListingExit,
           UnpackExit, Exit, Interrupt, Kill, Picks, TypeOK
  <2>2. PICK o \in Eligible(u) : /\ \A o2 \in Eligible(u) : Ahead(o, o2)
                                 /\ picked' = [picked EXCEPT ![u] = o]
    BY <2>1 DEF UnpackPick
  <2>3. picked'[u] = o /\ o \in listed[u]
    BY <2>2 DEF TypeOK, Eligible
  <2>4. ~Broken(u)
    BY DEF Broken, InReach
  <2>5. ~Outdone(u, o)
    <3> SUFFICES ASSUME NEW l \in listed[u], l.mtime > o.mtime PROVE FALSE
      BY DEF Outdone
    <3>1. l \in Eligible(u)
      BY DEF Eligible
    <3>2. Ahead(o, l)
      BY <2>2, <3>1
    <3>3. l \in Entry /\ o \in Entry
      BY <2>3, Clients DEF TypeOK, ClientTypeOK
    <3>4. l.mtime \in Nat /\ o.mtime \in Nat
      BY <3>3, BucketAssumption DEF BucketAssumption, Entry, Time
    <3>5. QED
      BY <3>2, <3>4 DEF Ahead
  <2>6. WasNewest(u, o)
    BY <2>1, <2>3, <2>4, <2>5, Clients DEF LeadInv, UnpackPick
  <2>7. QED
    BY <2>3, <2>6 DEF WasNewest, InReach
<1>4. QED
  BY <1>1, <1>2, <1>3, TypeCorrect, ListingComplete, PTL DEF Spec, PickedWasNewest

===============================================================================
