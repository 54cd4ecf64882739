----------------------------- MODULE ExtractProofs ----------------------------
(***************************************************************************)
(* Proofs about Extract, for any number of unpack runs, any archives and   *)
(* any other programs at work in the output directory.                     *)
(***************************************************************************)
EXTENDS Extract, TLAPS

\* TempInv is inductive together with the types.
Inv == TypeOK /\ TempInv

\* The entry a run is at is an entry of its archive.
LEMMA CurrentEntry ==
    ASSUME NEW p \in Proc, done[p] \in Nat, done[p] < Len(Archive[p])
    PROVE  /\ Current(p) \in ArchiveEntry
           /\ Current(p).path \in Path
           /\ Current(p).file \in File
           /\ Current(p).file.data \in Data
           /\ Current(p).file.mode \in Mode
<1>1. Archive[p] \in Seq(ArchiveEntry)
  BY ExtractAssumption DEF ExtractAssumption
<1>2. done[p] + 1 \in 1..Len(Archive[p])
  BY <1>1
<1>3. Current(p) \in ArchiveEntry
  BY <1>1, <1>2 DEF Current
<1>4. QED
  BY <1>3 DEF ArchiveEntry, File

LEMMA LenNat == \A p \in Proc : Len(Archive[p]) \in Nat
  BY ExtractAssumption DEF ExtractAssumption

LEMMA InitInv == Init => Inv
<1> SUFFICES ASSUME Init PROVE Inv
  OBVIOUS
<1>1. disk \in [Path -> TempFile \cup {Missing, Directory}]
  BY DEF Init, File, TempFile
<1>2. TypeOK
  BY <1>1, LenNat DEF Init, TypeOK, Step, Ending
<1>3. TempInv
  BY DEF Init, TempInv, TempMatches, Writing
<1>4. QED
  BY <1>2, <1>3 DEF Inv

\* A well-typed step that touches no run but p.
OnlyRun(p) ==
    /\ disk' \in [Path -> TempFile \cup {Missing, Directory}]
    /\ temp' \in [Proc -> TempFile \cup {NoTemp}]
    /\ pc' \in [Proc -> Step \cup Ending]
    /\ skipped' \in [Proc -> SUBSET Path]
    /\ done' \in [Proc -> Nat]
    /\ done'[p] <= Len(Archive[p])
    /\ \A q \in Proc \ {p} : temp'[q] = temp[q] /\ pc'[q] = pc[q] /\ done'[q] = done[q]

\* Such a step keeps the invariant if p ends up in a state that matches it.
LEMMA OneRun ==
    ASSUME Inv, NEW p \in Proc, OnlyRun(p), TempMatches(p)'
    PROVE  Inv'
<1> USE DEF OnlyRun
<1>1. TypeOK'
  <2>1. ASSUME NEW q \in Proc PROVE done'[q] \in 0..Len(Archive[q])
    <3>1. CASE q = p
      BY <3>1, LenNat
    <3>2. CASE q # p
      BY <3>2 DEF Inv, TypeOK
    <3>3. QED
      BY <3>1, <3>2
  <2>2. QED
    BY <2>1 DEF TypeOK
<1>2. ASSUME NEW q \in Proc PROVE TempMatches(q)'
  <2>1. CASE q = p
    BY <2>1
  <2>2. CASE q # p
    <3>1. temp'[q] = temp[q] /\ pc'[q] = pc[q] /\ done'[q] = done[q]
      BY <2>2
    <3>2. TempMatches(q)
      BY DEF Inv, TempInv
    <3>3. QED
      BY <3>1, <3>2 DEF TempMatches, Current
  <2>3. QED
    BY <2>1, <2>2
<1>3. QED
  BY <1>1, <1>2 DEF Inv, TempInv

\* The steps of the loop keep the invariant.
LEMMA LoopInv ==
    ASSUME Inv, NEW p \in Proc,
           \/ OpenArchive(p) \/ AllExtracted(p) \/ RejectEntry(p) \/ IgnoreSpecial(p)
           \/ ExtractDirectory(p) \/ SkipExisting(p) \/ BeginFile(p) \/ Kill(p)
    PROVE  Inv'
<1> USE DEF Inv, TypeOK, Step, Ending, At, AtEntry, Goto, NextEntry
<1>0. TempMatches(p)
  BY DEF TempInv
<1>1. CASE AllExtracted(p)
  <2>1. OnlyRun(p)
    BY <1>1 DEF AllExtracted, OnlyRun
  <2>2. TempMatches(p)'
    BY <1>1, <1>0 DEF AllExtracted, TempMatches, Writing
  <2>3. QED
    BY <2>1, <2>2, OneRun
<1>2. CASE RejectEntry(p)
  <2>1. OnlyRun(p)
    BY <1>2 DEF RejectEntry, OnlyRun
  <2>2. TempMatches(p)'
    BY <1>2, <1>0 DEF RejectEntry, TempMatches, Writing
  <2>3. QED
    BY <2>1, <2>2, OneRun
<1>3. CASE IgnoreSpecial(p)
  <2>1. OnlyRun(p)
    BY <1>3, LenNat DEF IgnoreSpecial, OnlyRun
  <2>2. TempMatches(p)'
    BY <1>3, <1>0 DEF IgnoreSpecial, TempMatches, Writing
  <2>3. QED
    BY <2>1, <2>2, OneRun
<1>4. CASE ExtractDirectory(p)
  <2>1. OnlyRun(p)
    <3>1. disk' \in [Path -> TempFile \cup {Missing, Directory}]
      BY <1>4 DEF ExtractDirectory
    <3>2. CASE NextEntry(p)
      BY <1>4, <3>1, <3>2, LenNat DEF ExtractDirectory, OnlyRun
    <3>3. CASE Goto(p, "failed") /\ UNCHANGED done
      BY <1>4, <3>1, <3>3 DEF ExtractDirectory, OnlyRun
    <3>4. QED
      BY <1>4, <3>2, <3>3 DEF ExtractDirectory
  <2>2. TempMatches(p)'
    BY <1>4, <1>0 DEF ExtractDirectory, TempMatches, Writing
  <2>3. QED
    BY <2>1, <2>2, OneRun
<1>5. CASE SkipExisting(p)
  <2>1. OnlyRun(p)
    BY <1>5, LenNat, CurrentEntry DEF SkipExisting, OnlyRun
  <2>2. TempMatches(p)'
    BY <1>5, <1>0 DEF SkipExisting, TempMatches, Writing
  <2>3. QED
    BY <2>1, <2>2, OneRun
<1>6. CASE BeginFile(p)
  <2>1. OnlyRun(p)
    BY <1>6 DEF BeginFile, OnlyRun
  <2>2. TempMatches(p)'
    BY <1>6, <1>0 DEF BeginFile, TempMatches, Writing, Current
  <2>3. QED
    BY <2>1, <2>2, OneRun
<1>7. CASE Kill(p)
  <2>1. OnlyRun(p)
    BY <1>7 DEF Kill, OnlyRun
  <2>2. TempMatches(p)'
    BY <1>7, <1>0 DEF Kill, TempMatches, Writing
  <2>3. QED
    BY <2>1, <2>2, OneRun
<1>8. CASE OpenArchive(p)
  <2>1. pc' = [pc EXCEPT ![p] = "entry"] \/ pc' = [pc EXCEPT ![p] = "failed"]
    BY <1>8 DEF OpenArchive
  <2>2. pc' \in [Proc -> Step \cup Ending] /\ \A q \in Proc \ {p} : pc'[q] = pc[q]
    BY <2>1
  <2>3. OnlyRun(p)
    BY <1>8, <2>2 DEF OpenArchive, OnlyRun
  <2>4. TempMatches(p)'
    BY <1>8, <1>0 DEF OpenArchive, TempMatches, Writing
  <2>5. QED
    BY <2>3, <2>4, OneRun
<1>9. QED
  BY <1>1, <1>2, <1>3, <1>4, <1>5, <1>6, <1>7, <1>8

\* The steps of writeFile keep the invariant.
LEMMA WriteFileInv ==
    ASSUME Inv, NEW p \in Proc,
           \/ CreateTemp(p) \/ Copy(p) \/ Chmod(p) \/ Close(p) \/ Rename(p) \/ Unwind(p)
    PROVE  Inv'
<1> USE DEF Inv, TypeOK, Step, Ending, At, Goto, NextEntry
<1>0. /\ TempMatches(p)
      /\ [data |-> Torn, mode |-> Private] \in TempFile
      /\ File \subseteq TempFile
  BY DEF TempInv, File, TempFile
<1>1. CASE CreateTemp(p)
  <2>1. OnlyRun(p)
    <3>1. temp' \in [Proc -> TempFile \cup {NoTemp}]
      BY <1>1, <1>0 DEF CreateTemp
    <3>2. pc' = [pc EXCEPT ![p] = "copy"] \/ pc' = [pc EXCEPT ![p] = "failed"]
      BY <1>1 DEF CreateTemp
    <3>3. pc' \in [Proc -> Step \cup Ending] /\ \A q \in Proc \ {p} : pc'[q] = pc[q]
      BY <3>2
    <3>4. \A q \in Proc \ {p} : temp'[q] = temp[q]
      BY <1>1 DEF CreateTemp
    <3>5. QED
      BY <1>1, <3>1, <3>3, <3>4 DEF CreateTemp, OnlyRun
  <2>2. TempMatches(p)'
    BY <1>1, <1>0 DEF CreateTemp, TempMatches, Writing, Current
  <2>3. QED
    BY <2>1, <2>2, OneRun
<1>2. CASE Copy(p)
  <2>1. OnlyRun(p)
    <3>1. pc' = [pc EXCEPT ![p] = "chmod"] \/ pc' = [pc EXCEPT ![p] = "unwind"]
      BY <1>2 DEF Copy
    <3>2. pc' \in [Proc -> Step \cup Ending] /\ \A q \in Proc \ {p} : pc'[q] = pc[q]
      BY <3>1
    <3>3. QED
      BY <1>2, <3>2 DEF Copy, OnlyRun
  <2>2. TempMatches(p)'
    BY <1>2, <1>0 DEF Copy, TempMatches, Writing, Current
  <2>3. QED
    BY <2>1, <2>2, OneRun
<1>3. CASE Chmod(p)
  <2>1. OnlyRun(p)
    <3>1. /\ temp[p] = [data |-> Torn, mode |-> Private]
          /\ Current(p).file.mode \in Mode
      BY <1>3, <1>0, CurrentEntry DEF Chmod, TempMatches, Writing
    <3>2. [temp[p] EXCEPT !.mode = Current(p).file.mode] \in TempFile
      BY <3>1 DEF TempFile
    <3>3. /\ temp' \in [Proc -> TempFile \cup {NoTemp}]
          /\ pc' \in [Proc -> Step \cup Ending]
          /\ \A q \in Proc \ {p} : temp'[q] = temp[q] /\ pc'[q] = pc[q]
      <4>1. CASE /\ temp' = [temp EXCEPT ![p].mode = Current(p).file.mode]
                 /\ pc' = [pc EXCEPT ![p] = "close"]
        BY <4>1, <3>2
      <4>2. CASE pc' = [pc EXCEPT ![p] = "unwind"] /\ UNCHANGED temp
        BY <4>2
      <4>3. QED
        BY <1>3, <4>1, <4>2 DEF Chmod
    <3>4. QED
      BY <1>3, <3>3 DEF Chmod, OnlyRun
  <2>2. TempMatches(p)'
    BY <1>3, <1>0 DEF Chmod, TempMatches, Writing, Current
  <2>3. QED
    BY <2>1, <2>2, OneRun
<1>4. CASE Close(p)
  <2> DEFINE f == Current(p).file
  <2>1. f \in File /\ f = [data |-> f.data, mode |-> f.mode]
    BY <1>0, <1>4, CurrentEntry DEF Close, TempMatches, Writing, File
  <2>2. temp[p] = [data |-> Torn, mode |-> f.mode]
    BY <1>0, <1>4 DEF Close, TempMatches
  <2>3. CASE pc' = [pc EXCEPT ![p] = "rename"] /\ temp' = [temp EXCEPT ![p].data = f.data]
    <3>0. [temp[p] EXCEPT !.data = f.data] = f
      BY <2>1, <2>2
    <3>1. temp'[p] = f
      BY <2>1, <2>2, <2>3
    <3>2. temp' = [temp EXCEPT ![p] = f]
      BY <2>3, <3>0
    <3>3. OnlyRun(p)
      BY <1>0, <1>4, <2>1, <2>3, <3>2 DEF Close, OnlyRun
    <3>4. TempMatches(p)'
      BY <1>0, <1>4, <2>3, <3>1 DEF Close, TempMatches, Writing, Current
    <3>5. QED
      BY <3>3, <3>4, OneRun
  <2>4. CASE pc' = [pc EXCEPT ![p] = "unwind"] /\ UNCHANGED temp
    <3>1. OnlyRun(p)
      BY <1>4, <2>4 DEF Close, OnlyRun
    <3>2. TempMatches(p)'
      BY <1>0, <1>4, <2>4 DEF Close, TempMatches, Writing, Current
    <3>3. QED
      BY <3>1, <3>2, OneRun
  <2>5. QED
    BY <1>4, <2>3, <2>4 DEF Close
<1>5. CASE Rename(p)
  <2> DEFINE x == Current(p).path
  <2>1. temp[p] \in File /\ done[p] < Len(Archive[p])
    BY <1>0, <1>5, CurrentEntry DEF Rename, TempMatches, Writing
  <2>2. CASE /\ disk' = [disk EXCEPT ![x] = temp[p]]
             /\ temp' = [temp EXCEPT ![p] = NoTemp]
             /\ NextEntry(p)
    <3>1. done'[p] = done[p] + 1 /\ pc'[p] = "entry" /\ temp'[p] = NoTemp
      BY <2>2
    <3>2. disk' \in [Path -> TempFile \cup {Missing, Directory}]
      BY <1>0, <2>1, <2>2
    <3>3. OnlyRun(p)
      BY <1>5, <2>1, <2>2, <3>2, LenNat DEF Rename, OnlyRun
    <3>4. TempMatches(p)'
      BY <3>1 DEF TempMatches, Writing
    <3>5. QED
      BY <3>3, <3>4, OneRun
  <2>3. CASE pc' = [pc EXCEPT ![p] = "unwind"] /\ UNCHANGED <<disk, temp, done>>
    <3>1. OnlyRun(p)
      BY <1>5, <2>3 DEF Rename, OnlyRun
    <3>2. TempMatches(p)'
      BY <1>0, <1>5, <2>3 DEF Rename, TempMatches, Writing, Current
    <3>3. QED
      BY <3>1, <3>2, OneRun
  <2>4. QED
    BY <1>5, <2>2, <2>3 DEF Rename
<1>6. CASE Unwind(p)
  <2>1. OnlyRun(p)
    BY <1>6 DEF Unwind, OnlyRun
  <2>2. TempMatches(p)'
    BY <1>6, <1>0 DEF Unwind, TempMatches, Writing
  <2>3. QED
    BY <2>1, <2>2, OneRun
<1>7. QED
  BY <1>1, <1>2, <1>3, <1>4, <1>5, <1>6

LEMMA NextInv == Inv /\ [Next]_vars => Inv'
<1> SUFFICES ASSUME Inv, [Next]_vars PROVE Inv'
  OBVIOUS
<1>1. ASSUME NEW p \in Proc, Extracting(p) \/ Kill(p) PROVE Inv'
  BY <1>1, LoopInv, WriteFileInv DEF Extracting
<1>2. ASSUME NEW x \in Path, Edit(x) PROVE Inv'
  BY <1>2 DEF Edit, Inv, TypeOK, TempInv, TempMatches, Current, File, TempFile
<1>3. CASE UNCHANGED vars
  BY <1>3 DEF vars, Inv, TypeOK, TempInv, TempMatches, Current
<1>4. QED
  BY <1>1, <1>2, <1>3 DEF Next

LEMMA Invariance == Spec => []Inv
  BY InitInv, NextInv, PTL DEF Spec

\* Every state of an extraction is well typed.
THEOREM TypeCorrect == Spec => []TypeOK
<1>1. Inv => TypeOK
  BY DEF Inv
<1>2. QED
  BY <1>1, Invariance, PTL

\* Whatever fails, whenever a run is killed and whoever else writes to the
\* directory, no destination holds a partial or corrupt file.
THEOREM NeverTornHolds == Spec => []NeverTorn
<1>1. Init => NeverTorn
  BY DEF Init, NeverTorn, Abstract!Content
<1>2. ASSUME Inv, NeverTorn, [Next]_vars
      PROVE  NeverTorn'
  <2> USE DEF NeverTorn, Abstract!Content
  <2>1. CASE UNCHANGED disk
    BY <1>2, <2>1
  <2>2. ASSUME NEW p \in Proc, ExtractDirectory(p) PROVE NeverTorn'
    BY <1>2, <2>2 DEF ExtractDirectory
  <2>3. ASSUME NEW p \in Proc, Rename(p) PROVE NeverTorn'
    <3>1. temp[p] \in File
      BY <1>2, <2>3, CurrentEntry DEF Inv, TypeOK, TempInv, TempMatches, Rename, At, Writing
    <3>2. QED
      BY <1>2, <2>3, <3>1 DEF Rename
  <2>4. ASSUME NEW x \in Path, Edit(x) PROVE NeverTorn'
    BY <1>2, <2>4 DEF Edit
  <2>5. ASSUME NEW p \in Proc, Extracting(p) \/ Kill(p) PROVE NeverTorn'
    BY <2>1, <2>2, <2>3, <2>5
       DEF Extracting, AllExtracted, RejectEntry, IgnoreSpecial, SkipExisting, BeginFile,
           CreateTemp, Copy, Chmod, Close, Unwind, Kill, OpenArchive
  <2>6. QED
    BY <1>2, <2>1, <2>4, <2>5 DEF Next, vars
<1>3. QED
  BY <1>1, <1>2, Invariance, PTL DEF Spec

\* At every step of writeFile the temporary file holds what that step leaves, and
\* when it is renamed it is the archived file, whole.
THEOREM TempInvHolds == Spec => []TempInv
<1>1. Inv => TempInv
  BY DEF Inv
<1>2. QED
  BY <1>1, Invariance, PTL

\* A run that returned, with an error or without, has left no temporary file.
THEOREM NoLitterHolds == Spec => []NoLitter
<1>1. Inv => NoLitter
  BY DEF Inv, TempInv, TempMatches, NoLitter
<1>2. QED
  BY <1>1, Invariance, PTL

-------------------------------------------------------------------------------
(* The paths that nobody else writes.                                      *)

\* A run writes the path of its current entry, or nothing.
LEMMA WritesItsEntry ==
    ASSUME Inv, NEW p \in Proc, Extracting(p) \/ Kill(p)
    PROVE  \/ UNCHANGED disk
           \/ /\ ExtractDirectory(p) \/ Rename(p)
              /\ done[p] < Len(Archive[p]) /\ Current(p).path \in Path
              /\ \E v : disk' = [disk EXCEPT ![Current(p).path] = v]
<1>1. CASE ExtractDirectory(p)
  <2>1. done[p] < Len(Archive[p]) /\ done[p] \in Nat
    BY <1>1 DEF ExtractDirectory, AtEntry, Inv, TypeOK
  <2>2. QED
    BY <1>1, <2>1, CurrentEntry DEF ExtractDirectory
<1>2. CASE Rename(p)
  <2>1. done[p] < Len(Archive[p]) /\ done[p] \in Nat
    BY <1>2 DEF Rename, At, Inv, TypeOK, TempInv, TempMatches, Writing
  <2>2. QED
    BY <1>2, <2>1, CurrentEntry DEF Rename
<1>3. CASE ~ExtractDirectory(p) /\ ~Rename(p)
  BY <1>3 DEF Extracting, AllExtracted, RejectEntry, IgnoreSpecial, SkipExisting, BeginFile,
     CreateTemp, Copy, Chmod, Close, Unwind, Kill, OpenArchive
<1>4. QED
  BY <1>1, <1>2, <1>3

LEMMA OthersStayAway ==
    ASSUME Inv, NEW p \in Proc, NEW x \in Path, Alone(p, x),
           \/ \E q \in Proc \ {p} : Extracting(q) \/ Kill(q)
           \/ \E y \in Path : Edit(y)
    PROVE  disk'[x] = disk[x]
<1>1. ASSUME NEW y \in Path, Edit(y) PROVE disk'[x] = disk[x]
  BY <1>1 DEF Edit, Alone
<1>2. ASSUME NEW q \in Proc \ {p}, Extracting(q) \/ Kill(q) PROVE disk'[x] = disk[x]
  <2>1. CASE UNCHANGED disk
    BY <2>1
  <2>2. CASE /\ done[q] < Len(Archive[q]) /\ Current(q).path \in Path
             /\ \E v : disk' = [disk EXCEPT ![Current(q).path] = v]
    <3>1. done[q] + 1 \in DOMAIN Archive[q]
      BY <2>2, ExtractAssumption DEF ExtractAssumption, Inv, TypeOK
    <3>2. Current(q).path # x
      BY <3>1 DEF Alone, Current
    <3>3. QED
      BY <2>2, <3>2
  <2>3. QED
    BY <1>2, <2>1, <2>2, WritesItsEntry
<1>3. QED
  BY <1>1, <1>2

\* What Lstat did not find is still not there when the file is renamed.
Underway == {"create", "copy", "chmod", "close", "rename"}

Kept(p, x) == ~Overwrite[p] /\ Alone(p, x) /\ x \notin Unreadable

StillMissing ==
    \A p \in Proc :
        pc[p] \in Underway /\ Kept(p, Current(p).path) => disk[Current(p).path] = Missing

LEMMA StaysMissing ==
    ASSUME Inv, StillMissing, [Next]_vars
    PROVE  StillMissing'
<1> SUFFICES ASSUME NEW p \in Proc, pc'[p] \in Underway, Kept(p, Current(p)'.path)
             PROVE  disk'[Current(p)'.path] = Missing
  BY DEF StillMissing, Kept, Alone
<1>1. ASSUME UNCHANGED <<pc, done>>, NEW y \in Path, Edit(y) \/ UNCHANGED vars
      PROVE  disk'[Current(p)'.path] = Missing
  <2>1. Current(p)' = Current(p) /\ pc[p] \in Underway
    BY <1>1 DEF Current
  <2>2. Current(p).path \in Path
    BY <2>1, CurrentEntry DEF Inv, TypeOK, TempInv, TempMatches, Underway, Writing
  <2>3. disk'[Current(p).path] = disk[Current(p).path]
    BY <1>1, <2>1, <2>2, OthersStayAway DEF Kept, vars
  <2>4. QED
    BY <2>1, <2>3 DEF StillMissing
<1>2. ASSUME NEW q \in Proc \ {p}, Extracting(q) \/ Kill(q)
      PROVE  disk'[Current(p)'.path] = Missing
  <2>1. pc'[p] = pc[p] /\ done'[p] = done[p]
    BY <1>2 DEF Extracting, AllExtracted, RejectEntry, IgnoreSpecial, ExtractDirectory,
       SkipExisting, BeginFile, CreateTemp, Copy, Chmod, Close, Rename, Unwind, Kill,
       OpenArchive, Goto, NextEntry, Inv, TypeOK
  <2>2. Current(p)' = Current(p) /\ pc[p] \in Underway
    BY <2>1 DEF Current
  <2>3. Current(p).path \in Path
    BY <2>2, CurrentEntry DEF Inv, TypeOK, TempInv, TempMatches, Underway, Writing
  <2>4. disk'[Current(p).path] = disk[Current(p).path]
    BY <1>2, <2>2, <2>3, OthersStayAway DEF Kept
  <2>5. QED
    BY <2>2, <2>4 DEF StillMissing
<1>3. ASSUME Extracting(p) \/ Kill(p)
      PROVE  disk'[Current(p)'.path] = Missing
  <2>1. CASE BeginFile(p)
    <3>1. Current(p)' = Current(p) /\ UNCHANGED disk /\ MayWrite(p)
      BY <2>1 DEF BeginFile, Current
    <3>2. QED
      BY <3>1 DEF MayWrite, Kept
  <2>2. CASE CreateTemp(p) \/ Copy(p) \/ Chmod(p) \/ Close(p)
    <3>1. UNCHANGED <<disk, done>> /\ pc[p] \in Underway
      BY <2>2 DEF CreateTemp, Copy, Chmod, Close, At, Underway
    <3>2. Current(p)' = Current(p)
      BY <3>1 DEF Current
    <3>3. QED
      BY <3>1, <3>2 DEF StillMissing
  <2>3. CASE ~(BeginFile(p) \/ CreateTemp(p) \/ Copy(p) \/ Chmod(p) \/ Close(p))
    <3>1. pc'[p] \in {"entry", "failed", "ok", "killed", "unwind"}
      BY <1>3, <2>3
         DEF Extracting, AllExtracted, RejectEntry, IgnoreSpecial, ExtractDirectory,
             SkipExisting, Rename, Unwind, Kill, OpenArchive, Goto, NextEntry, Inv, TypeOK
    <3>2. QED
      BY <3>1 DEF Underway
  <2>4. QED
    BY <2>1, <2>2, <2>3
<1>4. QED
  <2>1. CASE UNCHANGED vars
    <3>1. Current(p)' = Current(p) /\ disk' = disk /\ pc' = pc
      BY <2>1 DEF vars, Current
    <3>2. QED
      BY <3>1 DEF StillMissing
  <2>2. CASE \E y \in Path : Edit(y)
    BY <1>1, <2>2 DEF Edit
  <2>3. CASE \E q \in Proc : Extracting(q) \/ Kill(q)
    BY <1>2, <1>3, <2>3
  <2>4. QED
    BY <2>1, <2>2, <2>3 DEF Next

LEMMA StillMissingAlways == Spec => []StillMissing
<1>1. Init => StillMissing
  BY DEF Init, StillMissing, Underway
<1>2. QED
  BY <1>1, StaysMissing, Invariance, PTL DEF Spec

\* For any archives, and whatever fails: without --overwrite an unpack replaces
\* nothing at a path that no other run and no other program writes.
THEOREM KeptWhenAloneHolds == Spec => KeptWhenAlone
<1> DEFINE Step1 == \A p \in Proc, x \in Path :
                      ~Overwrite[p] /\ Alone(p, x) /\ x \notin Unreadable /\ disk[x] # Missing
                         => disk'[x] = disk[x]
<1>1. ASSUME Inv, StillMissing, [Next]_vars PROVE [Step1]_vars
  <2> SUFFICES ASSUME NEW p \in Proc, NEW x \in Path, Kept(p, x), disk[x] # Missing, Next
               PROVE  disk'[x] = disk[x]
    BY <1>1 DEF Kept
  <2>1. CASE \/ \E q \in Proc \ {p} : Extracting(q) \/ Kill(q)
             \/ \E y \in Path : Edit(y)
    BY <1>1, <2>1, OthersStayAway DEF Kept
  <2>2. CASE Extracting(p) \/ Kill(p)
    <3>1. CASE ExtractDirectory(p)
      BY <1>1, <3>1 DEF ExtractDirectory, Inv, TypeOK
    <3>2. CASE Rename(p)
      <4>1. pc[p] \in Underway
        BY <3>2 DEF Rename, At, Underway
      <4>2. x # Current(p).path
        BY <1>1, <4>1 DEF StillMissing
      <4>3. QED
        BY <1>1, <3>2, <4>2 DEF Rename, Inv, TypeOK
    <3>3. QED
      BY <1>1, <2>2, <3>1, <3>2, WritesItsEntry
  <2>3. QED
    BY <2>1, <2>2 DEF Next
<1>2. QED
  BY <1>1, StillMissingAlways, Invariance, PTL DEF Spec, KeptWhenAlone

\* The entries that a run has dealt with.
PutInv ==
    \A p \in Proc : \A i \in 1..done[p] :
        Archive[p][i].kind = "file" /\ Alone(p, Archive[p][i].path) =>
            \/ Archive[p][i].path \in skipped[p]
            \/ IsPut(p, Archive[p][i].path, done[p])

LEMMA StaysPut ==
    ASSUME Inv, PutInv, [Next]_vars
    PROVE  PutInv'
<1> SUFFICES ASSUME NEW p \in Proc, NEW i \in 1..done'[p],
                    Archive[p][i].kind = "file", Alone(p, Archive[p][i].path)
             PROVE  \/ Archive[p][i].path \in skipped'[p]
                    \/ IsPut(p, Archive[p][i].path, done[p])'
  BY DEF PutInv, Alone
<1> DEFINE x == Archive[p][i].path
           n == done[p]
<1>1. n \in Nat /\ n <= Len(Archive[p]) /\ Len(Archive[p]) \in Nat
  BY LenNat DEF Inv, TypeOK
<1>2. ASSUME i \in DOMAIN Archive[p] PROVE x \in Path
  <2>1. Archive[p] \in Seq(ArchiveEntry)
    BY ExtractAssumption DEF ExtractAssumption
  <2>2. Archive[p][i] \in ArchiveEntry
    BY <1>2, <2>1
  <2>3. QED
    BY <2>2 DEF ArchiveEntry
<1>3. DOMAIN Archive[p] = 1..Len(Archive[p])
  BY ExtractAssumption DEF ExtractAssumption
<1> HIDE DEF x
<1>4. ASSUME disk'[x] = disk[x], done'[p] = n, skipped'[p] = skipped[p]
      PROVE  x \in skipped'[p] \/ IsPut(p, x, done[p])'
  BY <1>4 DEF PutInv, IsPut, x
<1>5. CASE UNCHANGED vars
  BY <1>4, <1>5 DEF vars, x
<1>6. CASE \E y \in Path : Edit(y)
  <2>1. UNCHANGED <<done, skipped>>
    BY <1>6 DEF Edit
  <2>2. x \in Path
    BY <1>1, <1>2, <1>3, <2>1
  <2>3. QED
    BY <1>4, <1>6, <2>1, <2>2, OthersStayAway DEF x
<1>7. ASSUME NEW q \in Proc \ {p}, Extracting(q) \/ Kill(q)
      PROVE  x \in skipped'[p] \/ IsPut(p, x, done[p])'
  <2>1. done'[p] = n /\ skipped'[p] = skipped[p]
    BY <1>7 DEF Extracting, AllExtracted, RejectEntry, IgnoreSpecial, ExtractDirectory,
       SkipExisting, BeginFile, CreateTemp, Copy, Chmod, Close, Rename, Unwind, Kill,
       OpenArchive, Goto, NextEntry, Inv, TypeOK
  <2>2. x \in Path
    BY <1>1, <1>2, <1>3, <2>1
  <2>3. disk'[x] = disk[x]
    BY <1>7, <2>2, OthersStayAway DEF x
  <2>4. QED
    BY <1>4, <2>1, <2>3
<1>8. CASE Extracting(p) \/ Kill(p)
  <2>1. CASE done'[p] = n
    <3>1. UNCHANGED disk /\ skipped'[p] = skipped[p]
      BY <1>1, <1>8, <2>1
         DEF Extracting, AllExtracted, RejectEntry, IgnoreSpecial, ExtractDirectory,
             SkipExisting, BeginFile, CreateTemp, Copy, Chmod, Close, Rename, Unwind, Kill,
             OpenArchive, NextEntry, Inv, TypeOK
    <3>2. QED
      BY <1>4, <2>1, <3>1 DEF x
  <2>2. CASE done'[p] # n
    <3>1. /\ IgnoreSpecial(p) \/ ExtractDirectory(p) \/ SkipExisting(p) \/ Rename(p)
          /\ NextEntry(p)
      BY <1>8, <2>2
         DEF Extracting, AllExtracted, RejectEntry, IgnoreSpecial, ExtractDirectory,
             SkipExisting, BeginFile, CreateTemp, Copy, Chmod, Close, Rename, Unwind, Kill,
             OpenArchive
    <3>2. done'[p] = n + 1 /\ skipped[p] \subseteq skipped'[p]
      BY <3>1 DEF NextEntry, IgnoreSpecial, ExtractDirectory, SkipExisting, Rename, Inv, TypeOK
    <3>3. n < Len(Archive[p]) /\ i \in 1..(n + 1) /\ n + 1 \in 1..Len(Archive[p])
      <4>1. n < Len(Archive[p])
        BY <3>1 DEF IgnoreSpecial, ExtractDirectory, SkipExisting, Rename, AtEntry, At, Inv,
           TempInv, TempMatches, Writing
      <4>2. QED
        BY <1>1, <3>2, <4>1
    <3>4. x \in Path
      BY <1>1, <1>2, <1>3, <3>3
    <3>5. CASE i = n + 1
      <4>1. Current(p) = Archive[p][i] /\ Current(p).path = x /\ Current(p).kind = "file"
        BY <3>5 DEF Current, x
      <4>2. CASE SkipExisting(p)
        BY <4>1, <4>2 DEF SkipExisting, Inv, TypeOK
      <4>3. CASE Rename(p)
        <5>1. temp[p] = Archive[p][i].file
          BY <4>1, <4>3 DEF Rename, At, Inv, TempInv, TempMatches
        <5>2. disk'[x] = Archive[p][i].file
          BY <2>2, <3>4, <4>1, <4>3, <5>1 DEF Rename, Inv, TypeOK
        <5>3. QED
          BY <3>2, <4>1, <5>2 DEF IsPut, x
      <4>4. QED
        BY <3>1, <4>1, <4>2, <4>3 DEF IgnoreSpecial, ExtractDirectory
    <3>6. CASE i # n + 1
      <4>1. i \in 1..n
        BY <1>1, <3>3, <3>6
      <4>2. x \in skipped[p] \/ IsPut(p, x, n)
        BY <4>1 DEF PutInv, x
      <4>3. CASE x \in skipped[p]
        BY <3>2, <4>3 DEF x
      <4>4. CASE IsPut(p, x, n)
        <5>1. PICK j \in 1..n : /\ Archive[p][j].kind = "file" /\ Archive[p][j].path = x
                                /\ disk[x] = Archive[p][j].file
          BY <4>4 DEF IsPut
        <5>2. j \in 1..(n + 1) /\ n + 1 \in 1..(n + 1)
          BY <1>1
        <5>3. CASE disk'[x] = disk[x]
          BY <3>2, <5>1, <5>2, <5>3 DEF IsPut, x
        <5>4. CASE disk'[x] # disk[x] /\ Rename(p)
          <6>1. Current(p).path = x /\ disk'[x] = temp[p]
            BY <2>2, <3>4, <5>4 DEF Rename, Inv, TypeOK
          <6>2. /\ Current(p) = Archive[p][n + 1] /\ Current(p).kind = "file"
                /\ temp[p] = Current(p).file
            BY <5>4 DEF Rename, At, Inv, TempInv, TempMatches, Writing, Current
          <6>3. QED
            BY <3>2, <5>2, <6>1, <6>2 DEF IsPut, x
        <5>5. CASE disk'[x] # disk[x] /\ ExtractDirectory(p)
          <6>1. disk[x] \in {Missing, Directory}
            BY <2>2, <3>4, <5>5 DEF ExtractDirectory, Inv, TypeOK
          <6>2. disk[x] \in File
            <7>1. j \in DOMAIN Archive[p] /\ Archive[p] \in Seq(ArchiveEntry)
              BY <1>1, <1>3, ExtractAssumption DEF ExtractAssumption
            <7>2. Archive[p][j] \in ArchiveEntry
              BY <7>1
            <7>3. QED
              BY <5>1, <7>2 DEF ArchiveEntry
          <6>3. File \subseteq TempFile
            BY DEF File, TempFile
          <6>4. QED
            BY <6>1, <6>2, <6>3, ExtractAssumption DEF ExtractAssumption
        <5>6. QED
          BY <3>1, <5>3, <5>4, <5>5 DEF IgnoreSpecial, SkipExisting
      <4>5. QED
        BY <4>2, <4>3, <4>4
    <3>7. QED
      BY <3>5, <3>6
  <2>3. QED
    BY <2>1, <2>2
<1>9. QED
  BY <1>5, <1>6, <1>7, <1>8 DEF Next, x

\* For any archives, and whatever fails: what a run that says "ok" did not put in
\* its place, it reports as skipped.
THEOREM PutOrReportedHolds == Spec => []PutOrReported
<1>1. Init => PutInv
  BY DEF Init, PutInv
<1>2. Spec => []PutInv
  BY <1>1, StaysPut, Invariance, PTL DEF Spec
<1>3. Inv /\ PutInv => PutOrReported
  <2> SUFFICES ASSUME Inv, PutInv, NEW p \in Proc, pc[p] = "ok", NEW i \in DOMAIN Archive[p],
                      Archive[p][i].kind = "file", Alone(p, Archive[p][i].path)
               PROVE  \/ Archive[p][i].path \in skipped[p]
                      \/ IsPut(p, Archive[p][i].path, Len(Archive[p]))
    BY DEF PutOrReported
  <2>1. done[p] = Len(Archive[p])
    BY DEF Inv, TempInv, TempMatches
  <2>2. i \in 1..Len(Archive[p])
    BY ExtractAssumption DEF ExtractAssumption
  <2>3. QED
    BY <2>1, <2>2 DEF PutInv
<1>4. QED
  BY <1>2, <1>3, Invariance, PTL

-------------------------------------------------------------------------------
(* Extract implements AtomicExtract.                                       *)

Status == [p \in Proc |-> IF pc[p] \in {"ok", "failed", "killed"} THEN pc[p] ELSE "running"]

\* What a step of p does to the status an observer sees.
LEMMA StatusStep ==
    ASSUME pc \in [Proc -> Step \cup Ending], NEW p \in Proc, pc[p] \notin Ending,
           NEW s \in Step \cup Ending, Goto(p, s)
    PROVE  /\ Status[p] = "running"
           /\ s \in Step => UNCHANGED Status
           /\ s \in Ending => Status' = [Status EXCEPT ![p] = s]
<1>1. pc'[p] = s /\ \A q \in Proc \ {p} : pc'[q] = pc[q]
  BY DEF Goto
<1>2. s \in Step => s \notin Ending
  BY DEF Step, Ending
<1>3. QED
  BY <1>1, <1>2 DEF Status, Ending

\* The step of the abstract specification that corresponds to a step of p in
\* the loop.
LEMMA LoopRefines ==
    ASSUME Inv, NEW p \in Proc,
           \/ OpenArchive(p) \/ AllExtracted(p) \/ RejectEntry(p) \/ IgnoreSpecial(p)
           \/ ExtractDirectory(p) \/ SkipExisting(p) \/ BeginFile(p) \/ Kill(p)
    PROVE  [Abstract!Next]_(Abstract!vars)
<1> USE DEF Abstract!vars, At, AtEntry
<1>0. pc \in [Proc -> Step \cup Ending] /\ "entry" \in Step /\ "entry" \notin Ending
  BY DEF Inv, TypeOK, Step, Ending
<1>1. CASE AllExtracted(p)
  <2>1. Abstract!Finish(p)
    BY <1>0, <1>1, StatusStep DEF AllExtracted, Abstract!Finish, Status, Ending
  <2>2. QED
    BY <2>1 DEF Abstract!Next
<1>2. CASE RejectEntry(p)
  <2>1. Abstract!Stop(p)
    BY <1>0, <1>2, StatusStep DEF RejectEntry, Abstract!Stop, Status, Ending
  <2>2. QED
    BY <2>1 DEF Abstract!Next
<1>3. CASE IgnoreSpecial(p)
  <2>1. Abstract!PassOver(p)
    BY <1>0, <1>3, StatusStep
       DEF IgnoreSpecial, NextEntry, Abstract!PassOver, Abstract!Left, Abstract!Current,
           Abstract!Advance, Current, Status, Ending
  <2>2. QED
    BY <2>1 DEF Abstract!Next
<1>4. CASE ExtractDirectory(p)
  <2>1. CASE NextEntry(p)
    <3>1. Abstract!MakeDirectory(p) \/ Abstract!Stop(p)
      BY <1>0, <1>4, <2>1, StatusStep
         DEF ExtractDirectory, NextEntry, Abstract!MakeDirectory, Abstract!Left,
             Abstract!Current, Abstract!Advance, Abstract!Stop, Current, Status, Ending, Goto,
             Inv, TypeOK
    <3>2. QED
      BY <3>1 DEF Abstract!Next
  <2>2. CASE Goto(p, "failed") /\ UNCHANGED <<disk, done>>
    <3>1. Abstract!Stop(p)
      BY <1>0, <1>4, <2>2, StatusStep DEF ExtractDirectory, Abstract!Stop, Status, Ending
    <3>2. QED
      BY <3>1 DEF Abstract!Next
  <2>3. QED
    BY <1>4, <2>1, <2>2 DEF ExtractDirectory
<1>5. CASE SkipExisting(p)
  <2>1. Abstract!PassOver(p)
    BY <1>0, <1>5, StatusStep
       DEF SkipExisting, NextEntry, Abstract!PassOver, Abstract!Left, Abstract!Current,
           Abstract!Advance, Current, Status, Ending
  <2>2. QED
    BY <2>1 DEF Abstract!Next
<1>6. CASE BeginFile(p)
  BY <1>0, <1>6, StatusStep DEF BeginFile, Step, Status, Ending
<1>7. CASE Kill(p)
  <2>1. Abstract!Stop(p)
    BY <1>0, <1>7, StatusStep DEF Kill, Abstract!Stop, Status, Ending
  <2>2. QED
    BY <2>1 DEF Abstract!Next
<1>8. CASE OpenArchive(p)
  <2>1. CASE Goto(p, "entry")
    BY <1>0, <1>8, <2>1, StatusStep DEF OpenArchive, Status, Step, Ending
  <2>2. CASE Goto(p, "failed")
    <3>1. Abstract!Stop(p)
      BY <1>0, <1>8, <2>2, StatusStep DEF OpenArchive, Abstract!Stop, Status, Ending
    <3>2. QED
      BY <3>1 DEF Abstract!Next
  <2>3. QED
    BY <1>8, <2>1, <2>2 DEF OpenArchive
<1>9. QED
  BY <1>1, <1>2, <1>3, <1>4, <1>5, <1>6, <1>7, <1>8

\* ... and in writeFile, where only Rename shows.
LEMMA WriteFileRefines ==
    ASSUME Inv, NEW p \in Proc,
           \/ CreateTemp(p) \/ Copy(p) \/ Chmod(p) \/ Close(p) \/ Rename(p) \/ Unwind(p)
    PROVE  [Abstract!Next]_(Abstract!vars)
<1> USE DEF Abstract!vars, At
<1>0. /\ pc \in [Proc -> Step \cup Ending]
      /\ Step \cap Ending = {}
      /\ {"create", "copy", "chmod", "close", "rename", "unwind", "entry"} \subseteq Step
      /\ "failed" \in Ending
  BY DEF Inv, TypeOK, Step, Ending
<1>1. ASSUME NEW s \in Step, Goto(p, s), pc[p] \in Step, UNCHANGED <<disk, done>>
      PROVE  [Abstract!Next]_(Abstract!vars)
  BY <1>0, <1>1, StatusStep DEF Status
<1>2. ASSUME Goto(p, "failed"), pc[p] \in Step, UNCHANGED <<disk, done>>
      PROVE  [Abstract!Next]_(Abstract!vars)
  <2>1. Abstract!Stop(p)
    BY <1>0, <1>2, StatusStep DEF Abstract!Stop, Status
  <2>2. QED
    BY <2>1 DEF Abstract!Next
<1>3. CASE CreateTemp(p)
  BY <1>0, <1>1, <1>2, <1>3 DEF CreateTemp
<1>4. CASE Copy(p)
  BY <1>0, <1>1, <1>4 DEF Copy
<1>5. CASE Chmod(p)
  BY <1>0, <1>1, <1>5 DEF Chmod
<1>6. CASE Close(p)
  BY <1>0, <1>1, <1>6 DEF Close
<1>7. CASE Rename(p)
  <2>1. CASE Goto(p, "unwind") /\ UNCHANGED <<disk, done>>
    BY <1>0, <1>1, <1>7, <2>1 DEF Rename
  <2>2. CASE /\ disk[Current(p).path] # Directory
             /\ disk' = [disk EXCEPT ![Current(p).path] = temp[p]]
             /\ NextEntry(p)
    <3>1. /\ done[p] < Len(Archive[p])
          /\ Current(p).kind = "file"
          /\ temp[p] = Current(p).file
      BY <1>7 DEF Inv, TempInv, TempMatches, Writing, Rename
    <3>2. UNCHANGED Status /\ Status[p] = "running"
      BY <1>0, <1>7, <2>2, StatusStep DEF Rename, NextEntry
    <3>3. Abstract!Install(p)
      BY <2>2, <3>1, <3>2
         DEF NextEntry, Abstract!Install, Abstract!Left, Abstract!Current, Abstract!Advance,
             Current, Status
    <3>4. QED
      BY <3>3 DEF Abstract!Next
  <2>3. QED
    BY <1>7, <2>1, <2>2 DEF Rename
<1>8. CASE Unwind(p)
  BY <1>0, <1>2, <1>8 DEF Unwind
<1>9. QED
  BY <1>3, <1>4, <1>5, <1>6, <1>7, <1>8

\* Seen from outside, an extraction goes through its archive entry by entry,
\* each of them put in place at once or passed over.
THEOREM RefinesAtomicExtract == Spec => ImplementsAtomicExtract
<1>1. Init => Abstract!Init
  BY DEF Init, Abstract!Init, Abstract!Content
<1>2. ASSUME Inv, [Next]_vars
      PROVE  [Abstract!Next]_(Abstract!vars)
  <2>1. ASSUME NEW p \in Proc, Extracting(p) \/ Kill(p)
        PROVE  [Abstract!Next]_(Abstract!vars)
    BY <1>2, <2>1, LoopRefines, WriteFileRefines DEF Extracting
  <2>2. ASSUME NEW x \in Path, Edit(x)
        PROVE  [Abstract!Next]_(Abstract!vars)
    <3>1. PICK c \in Abstract!Content : Abstract!Edit(x, c)
      BY <2>2 DEF Edit, Abstract!Edit, Abstract!Content
    <3>2. QED
      BY <3>1 DEF Abstract!Next
  <2>3. CASE UNCHANGED vars
    BY <2>3 DEF vars, Abstract!vars
  <2>4. QED
    BY <1>2, <2>1, <2>2, <2>3 DEF Next
<1>3. QED
  BY <1>1, <1>2, Invariance, PTL DEF Spec, ImplementsAtomicExtract, Abstract!Spec

===============================================================================
