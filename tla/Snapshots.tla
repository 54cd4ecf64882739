------------------------------- MODULE Snapshots ------------------------------
(***************************************************************************)
(* The commands pack, unpack and list of internal/cli, run concurrently by *)
(* several confkoffer processes against one bucket.                        *)
(*                                                                         *)
(* A pack names its snapshot (KeyForName) and uploads it; an unpack lists  *)
(* the snapshots of its name, picks one and downloads it; a list stops     *)
(* after the listing.  What happens to the bytes before the upload and     *)
(* after the download is not modelled here: a body stands for them.        *)
(***************************************************************************)
EXTENDS BlobClient, Integers

CONSTANTS
    Packs, Readers,  \* the processes running pack, and those running unpack or list
    Skew,            \* Skew[p]: the clock of p's machine minus the store's clock
    Rand4,           \* Rand4[p]: the values p may draw for <rand4>
    Select,          \* Select[u]: the ways u may select a snapshot
    Interruptible    \* the processes that may be interrupted or killed

VARIABLES
    exit,     \* exit[c]: "running", or how c ended: exit code 0, 1 or SIGKILL
    picked,   \* picked[u]: the listing entry pickKey chose
    ask       \* ask[u]: the flags of u

vars == <<bucketVars, clientVars, exit, picked, ask>>

NoEntry == [key |-> NoKey, mtime |-> 0]

\* --at <time> and --object-key <key> carry an argument.
Selection ==
    [by : {"newest", "list"}] \cup [by : {"at"}, time : Time] \cup [by : {"key"}, key : Key]

\* Mutant: the key is the second alone.
KeyForSecond(name, ts, rand4) == name \o <<Slash, ts, 1>>

\* <name>/<ts>-<rand4>.enc, with the time and the suffix one character each.
KeyForName(name, ts, rand4) == name \o <<Slash, ts, rand4>>

\* The second that p's machine reads when the store's clock reads t.
KeyTime(p, t) == t + Skew[p]

ASSUME SnapshotAssumption ==
    /\ Client = Packs \cup Readers
    /\ Packs \cap Readers = {}
    /\ Interruptible \subseteq Client
    /\ Skew \in [Packs -> Int]
    /\ Rand4 \in [Packs -> SUBSET Nat]
    /\ Select \in [Readers -> SUBSET Selection]
    /\ \A c \in Client : Last(Name[c]) # Slash          \* ValidateName
    /\ \A p \in Packs, t \in 1..MaxTime : \A r \in Rand4[p] :
          KeyForName(Name[p], KeyTime(p, t), r) \in Key

TypeOK ==
    /\ ClientTypeOK
    /\ exit \in [Client -> {"running", "ok", "failed", "killed"}]
    /\ picked \in [Readers -> Entry \cup {NoEntry}]
    /\ ask \in [Readers -> Selection]

Init ==
    /\ ClientInit
    /\ exit = [c \in Client |-> "running"]
    /\ picked = [u \in Readers |-> NoEntry]
    /\ ask \in [Readers -> UNION {Select[u] : u \in Readers}]
    /\ \A u \in Readers : ask[u] \in Select[u]

Exit(c, success) ==
    /\ exit' = [exit EXCEPT ![c] = IF success THEN "ok" ELSE "failed"]
    /\ Leave(c)

-------------------------------------------------------------------------------
(* pack                                                                    *)

\* The key is drawn once, before Put and its retries.
PackUpload(p) ==
    /\ pc[p] = "idle"
    /\ \E r \in Rand4[p] : Open(p, "put", KeyForName(Name[p], KeyTime(p, clock), r))
    /\ UNCHANGED <<bucketVars, cancelled, applied, sends, flight, listed, cursor, got,
                   views, exit, picked, ask>>

PackExit(p) ==
    /\ pc[p] = "returned"
    /\ Exit(p, err[p] = "ok")
    /\ UNCHANGED <<picked, ask>>

-------------------------------------------------------------------------------
(* unpack and list                                                         *)

\* pickKey: --object-key skips the listing.
UnpackBegin(u) ==
    /\ pc[u] = "idle"
    /\ IF ask[u].by = "key" THEN Open(u, "get", ask[u].key)
                               ELSE Open(u, "list", NoKey)
    /\ UNCHANGED <<bucketVars, cancelled, applied, sends, flight, listed, cursor, got,
                   views, exit, picked, ask>>

\* Mutant: newest by the name of the key.
AheadByKey(a, b) == ~KeyLess(a.key, b.key)

\* The order of sortByLastModifiedDesc.  The sort is stable and the listing
\* arrives in key order, so of two equal times the smaller key comes first.
Ahead(a, b) ==
    \/ a.mtime > b.mtime
    \/ a.mtime = b.mtime /\ ~KeyLess(b.key, a.key)

\* PickAt's cutoff; the default takes the head of the whole listing.
Eligible(u) ==
    {o \in listed[u] : ask[u].by = "at" => o.mtime <= ask[u].time}

\* pickKey, on a listing that succeeded, and Get opens the bucket again.
UnpackPick(u) ==
    /\ pc[u] = "returned"
    /\ op[u] = "list"
    /\ err[u] = "ok"
    /\ ask[u].by # "list"
    /\ \E o \in Eligible(u) :
         /\ \A o2 \in Eligible(u) : Ahead(o, o2)
         /\ picked' = [picked EXCEPT ![u] = o]
         /\ Open(u, "get", o.key)
    /\ listed' = [listed EXCEPT ![u] = {}]
    /\ cursor' = [cursor EXCEPT ![u] = <<>>]
    /\ views' = [views EXCEPT ![u] = {}]
    /\ UNCHANGED <<bucketVars, cancelled, applied, sends, flight, got, exit, ask>>

\* The listing failed, PickAt found nothing old enough, or it was all that
\* the list command asked for.
ListingExit(u) ==
    /\ pc[u] = "returned"
    /\ op[u] = "list"
    /\ \/ err[u] # "ok"
       \/ ask[u].by = "list"
       \/ Eligible(u) = {}
    /\ Exit(u, err[u] = "ok" /\ ask[u].by = "list")
    /\ UNCHANGED <<picked, ask>>

\* The download is decrypted and extracted.
UnpackExit(u) ==
    /\ pc[u] = "returned"
    /\ op[u] = "get"
    /\ Exit(u, err[u] = "ok")
    /\ UNCHANGED <<picked, ask>>

-------------------------------------------------------------------------------

Command(c) ==
    \/ c \in Packs /\ (PackUpload(c) \/ PackExit(c))
    \/ c \in Readers /\ (UnpackBegin(c) \/ UnpackPick(c) \/ ListingExit(c) \/ UnpackExit(c))

\* Every step process c takes of its own accord.
Run(c) ==
    \/ Command(c)
    \/ ClientStep(c) /\ UNCHANGED <<exit, picked, ask>>

Interrupt(c) ==
    /\ exit[c] = "running"
    /\ Cancel(c)
    /\ UNCHANGED <<exit, picked, ask>>

\* SIGKILL, or the machine goes down.
Kill(c) ==
    /\ exit[c] = "running"
    /\ exit' = [exit EXCEPT ![c] = "killed"]
    /\ Leave(c)
    /\ UNCHANGED <<picked, ask>>

Next ==
    \/ \E c \in Client : Run(c)
    \/ \E c \in Interruptible : Interrupt(c) \/ Kill(c)
    \/ Environment /\ UNCHANGED <<exit, picked, ask>>

Spec == Init /\ [][Next]_vars

\* A process that can take a step takes one: the goroutine is scheduled, and
\* a request is answered, or fails, in the end.  Signals, the retention rule,
\* the clock and uploads in flight are owed nothing.
FairSpec == Spec /\ \A c \in Client : WF_vars(Run(c))

Ended(c) == exit[c] # "running"

-------------------------------------------------------------------------------
(* Safety                                                                  *)

\* The snapshots of a name: everything stored under "<name>/", and nothing of
\* a sibling whose name merely starts with the same characters.
SnapshotOf(name, k) ==
    /\ Len(k) > Len(name) + 1
    /\ SubSeq(k, 1, Len(name)) = name
    /\ k[Len(name) + 1] = Slash
    /\ k[Len(k)] # Slash

InReach(u, o) ==
    /\ SnapshotOf(Name[u], o.key)
    /\ ask[u].by = "at" => o.mtime <= ask[u].time

Picks(u) == picked'[u] # picked[u]

\* A snapshot that was in the bucket during the whole listing attempt and is
\* within --at is never passed over for an older one, whatever the pages, the
\* retries, the other packs and the retention rule did meanwhile (List must
\* read the whole prefix, reset its slice, and sort before [0] is taken).
NothingNewerMissed ==
    [][\A u \in Readers : Picks(u) =>
         \A o \in Entry :
            (\A v \in views[u] : o \in v) /\ InReach(u, o)
               => o.mtime <= picked'[u].mtime]_vars

\* Why: a listing in progress has collected every snapshot up to its cursor
\* that has been there all along, and one that succeeded has collected all.
Steady(u, o) == SnapshotOf(Name[u], o.key) /\ \A v \in views[u] : o \in v

ListingCovers(u) ==
    /\ pc[u] = "await" /\ op[u] = "list" =>
         /\ Contents \in views[u]
         /\ \A o \in Entry :
               Steady(u, o) /\ ~KeyLess(cursor[u], o.key) => o \in listed[u]
    /\ pc[u] = "returned" /\ op[u] = "list" /\ err[u] = "ok" =>
         \A o \in Entry : Steady(u, o) => o \in listed[u]

ListingInv == \A u \in Client : ListingCovers(u)

\* What unpack picks was a snapshot of its name, in the bucket at some time
\* during the listing attempt that succeeded: never a leftover of a failed
\* attempt, a placeholder or another project's object.
PickedFromTheBucket ==
    [][\A u \in Readers : Picks(u) =>
         /\ InReach(u, picked'[u])
         /\ \E v \in views[u] : picked'[u] \in v]_vars

\* Still there, and not because a late upload has brought back what was deleted.
Lasting(o) == Stored(o.key) /\ ~(o.key \in Expirable /\ \E p \in Packs : target[p] = o.key)

\* If no snapshot of the name has been deleted since the listing began, the one
\* the default unpack picks was the newest at some instant of the listing, although
\* no request ever sees more than one page.
PickedWasNewest ==
    [][\A u \in Readers :
         /\ Picks(u) /\ ask[u].by = "newest"
         /\ \A v \in views[u] : \A o \in v : InReach(u, o) => Lasting(o)
         => \E v \in views[u] :
              /\ picked'[u] \in v
              /\ \A o \in v : InReach(u, o) => o.mtime <= picked'[u].mtime]_vars

\* A pack that reported success has its snapshot in the bucket, intact, until
\* somebody else deletes it: no retry, failure or other pack undoes it.
SuccessIsStored ==
    \A p \in Packs : exit[p] = "ok" /\ target[p] \notin Expirable =>
        Stored(target[p]) /\ objects[target[p]].body = Payload[p]

\* Only a backend that answers with transient errors makes a process sit out
\* the backoff schedule: a snapshot that vanished between the listing and the
\* download, one that is too large, a cancelled request, or any answer the
\* backend meant, ends the call at once.
WaitsOnlyForFlakes ==
    \A c \in Client : pc[c] = "sleep" => Faults[c] \cap TransientCode # {}

\* The other half: nothing that may be a flake is reported before the whole
\* backoff schedule has been waited out.  A reader that gives up at the first
\* one leaves the user without a snapshot that is there.
FlakesAreWaitedOut ==
    \A c \in Client :
        pc[c] = "returned" /\ err[c] \in {"Internal", "ResourceExhausted", "Unknown"}
            => attempt[c] = Waits

\* The snapshot u asked for by its key, or the one it picked.
Chosen(u) == IF ask[u].by = "key" THEN ask[u].key ELSE picked[u].key

\* An unpack that reports success hands on the snapshot it chose, whole: what the
\* pack that drew this key encrypted, or what the key held before the first run.
\* Get is a request of its own, long after the listing, and other packs, late
\* uploads and the retention rule have been at work in between.
RestoredIsPicked ==
    \A u \in Readers : exit[u] = "ok" /\ ask[u].by # "list" =>
        /\ got[u] \in Body \ Oversized
        /\ \A p \in Packs : target[p] = Chosen(u) => got[u] = Payload[p]
        /\ (\A p \in Packs : target[p] # Chosen(u))
              => Preexisting[Chosen(u)] # Absent /\ got[u] = Preexisting[Chosen(u)].body

\* Every command ends, whatever the backend answers and whenever it is
\* interrupted: the retries are bounded, and so is the listing.
Termination == \A c \in Client : <>Ended(c)

===============================================================================
