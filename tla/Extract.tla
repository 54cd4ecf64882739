-------------------------------- MODULE Extract -------------------------------
(***************************************************************************)
(* archive.Unpack and writeFile: an archive is extracted entry by entry,   *)
(* each file through a temporary file beside its destination that is       *)
(* renamed into place.  Any system call may fail, the process may be       *)
(* killed, and other processes (further unpacks among them) use the same   *)
(* directory.                                                              *)
(*                                                                         *)
(* A file goes through   entry -> create -> copy -> chmod -> close ->      *)
(* rename -> entry, and through "unwind" (the deferred cleanup of          *)
(* writeFile) when one of these steps fails.                               *)
(***************************************************************************)
EXTENDS Naturals, Sequences

CONSTANTS
    Proc, Path, Missing, Directory, Archive, Overwrite,
    Data,        \* what a file can contain
    Mode,        \* the permissions an archive can record
    Torn,        \* content that is incomplete or corrupt
    Private,     \* the permissions CreateTemp gives
    NoTemp,      \* no temporary file
    Unreadable,  \* the paths on which Lstat may fail although something is there
    Editable     \* the paths other programs write

VARIABLES
    disk,        \* disk[x]: what is at path x
    temp,        \* temp[p]: the temporary file of p that is on disk
    done,        \* done[p]: how many entries p has dealt with
    pc,          \* pc[p]: the next system call of p, or how p ended
    skipped      \* skipped[p]: UnpackResult.Skipped

vars == <<disk, temp, done, pc, skipped>>

File == [data : Data, mode : Mode]
TempFile == [data : Data \cup {Torn}, mode : Mode \cup {Private}]

Abstract == INSTANCE AtomicExtract WITH
    status <- [p \in Proc |-> IF pc[p] \in {"ok", "failed", "killed"} THEN pc[p] ELSE "running"]

\* An entry: "damage" says whether its bytes decompress to the whole file, fail
\* the CRC at the end, or run past MaxEntrySize.
ArchiveEntry == [path : Path, kind : Abstract!Kind, file : File,
                 damage : {"none", "crc", "large"}]

Ending == {"ok", "failed", "killed"}
Step == {"open", "entry", "create", "copy", "chmod", "close", "rename", "unwind"}

ASSUME ExtractAssumption ==
    /\ Archive \in [Proc -> Seq(ArchiveEntry)]
    /\ Overwrite \in [Proc -> BOOLEAN]
    /\ Torn \notin Data
    /\ Private \notin Mode
    /\ NoTemp \notin TempFile
    /\ Missing \notin TempFile \cup {Directory}
    /\ Directory \notin TempFile
    /\ Unreadable \subseteq Path
    /\ Editable \subseteq Path

TypeOK ==
    /\ disk \in [Path -> TempFile \cup {Missing, Directory}]
    /\ temp \in [Proc -> TempFile \cup {NoTemp}]
    /\ \A p \in Proc : done[p] \in 0..Len(Archive[p])
    /\ done \in [Proc -> Nat]
    /\ pc \in [Proc -> Step \cup Ending]
    /\ skipped \in [Proc -> SUBSET Path]

Init ==
    /\ disk \in [Path -> File \cup {Missing, Directory}]
    /\ temp = [p \in Proc |-> NoTemp]
    /\ done = [p \in Proc |-> 0]
    /\ pc = [p \in Proc |-> "open"]
    /\ skipped = [p \in Proc |-> {}]

Current(p) == Archive[p][done[p] + 1]
At(p, step) == pc[p] = step
Goto(p, step) == pc' = [pc EXCEPT ![p] = step]

\* At the top of the loop, with an entry left.
AtEntry(p) == At(p, "entry") /\ done[p] < Len(Archive[p])

\* Mutant: the loop does not move on.
NextEntryStuck(p) ==
    /\ Goto(p, "entry")
    /\ UNCHANGED done

\* Mutant: the loop moves on twice.
NextEntryTwice(p) ==
    /\ Goto(p, "entry")
    /\ done' = [done EXCEPT ![p] = @ + 2]

\* The next iteration.
NextEntry(p) ==
    /\ Goto(p, "entry")
    /\ done' = [done EXCEPT ![p] = @ + 1]

-------------------------------------------------------------------------------
(* The loop of Unpack.                                                     *)

\* The zip directory is read and the output directory made, or not.
OpenArchive(p) ==
    /\ At(p, "open")
    /\ Goto(p, "entry") \/ Goto(p, "failed")
    /\ UNCHANGED <<disk, temp, done, skipped>>

AllExtracted(p) ==
    /\ At(p, "entry")
    /\ done[p] = Len(Archive[p])
    /\ Goto(p, "ok")
    /\ UNCHANGED <<disk, temp, done, skipped>>

\* sanitizeArchivePath or pathIsContained refuses the name.
RejectEntry(p) ==
    /\ AtEntry(p)
    /\ Current(p).kind = "unsafe"
    /\ Goto(p, "failed")
    /\ UNCHANGED <<disk, temp, done, skipped>>

IgnoreSpecial(p) ==
    /\ AtEntry(p)
    /\ Current(p).kind = "special"
    /\ NextEntry(p)
    /\ UNCHANGED <<disk, temp, skipped>>

ExtractDirectory(p) ==
    /\ AtEntry(p)
    /\ Current(p).kind = "dir"
    /\ LET x == Current(p).path IN
         \/ /\ disk[x] \in {Missing, Directory}
            /\ disk' = [disk EXCEPT ![x] = Directory]
            /\ NextEntry(p)
         \/ /\ Goto(p, "failed")            \* MkdirAll fails
            /\ UNCHANGED <<disk, done>>
    /\ UNCHANGED <<temp, skipped>>

\* Mutant: what is skipped is not reported.
SkipSilently(p) ==
    /\ AtEntry(p)
    /\ Current(p).kind = "file"
    /\ ~Overwrite[p]
    /\ disk[Current(p).path] # Missing
    /\ NextEntry(p)
    /\ UNCHANGED <<disk, temp, skipped>>

\* Lstat found something, and --overwrite was not given.
SkipExisting(p) ==
    /\ AtEntry(p)
    /\ Current(p).kind = "file"
    /\ ~Overwrite[p]
    /\ disk[Current(p).path] # Missing
    /\ skipped' = [skipped EXCEPT ![p] = @ \cup {Current(p).path}]
    /\ NextEntry(p)
    /\ UNCHANGED <<disk, temp>>

\* Mutant: only a directory is looked out for.
MayReplaceFiles(p) ==
    \/ Overwrite[p]
    \/ disk[Current(p).path] # Directory

\* Any error of Lstat counts as "nothing there".
MayWrite(p) ==
    \/ Overwrite[p]
    \/ disk[Current(p).path] = Missing
    \/ Current(p).path \in Unreadable

BeginFile(p) ==
    /\ AtEntry(p)
    /\ Current(p).kind = "file"
    /\ MayWrite(p)
    /\ Goto(p, "create")
    /\ UNCHANGED <<disk, temp, done, skipped>>

-------------------------------------------------------------------------------
(* writeFile.                                                              *)

\* MkdirAll of the parent, f.Open and CreateTemp; nothing to undo if one fails.
CreateTemp(p) ==
    /\ At(p, "create")
    /\ \/ /\ temp' = [temp EXCEPT ![p] = [data |-> Torn, mode |-> Private]]
          /\ Goto(p, "copy")
       \/ Goto(p, "failed") /\ UNCHANGED temp
    /\ UNCHANGED <<disk, done, skipped>>

\* Mutant: the error of io.Copy is not looked at, and the temporary file is
\* taken for complete.
CopyUnchecked(p) ==
    /\ At(p, "copy")
    /\ Goto(p, "rename")
    /\ UNCHANGED <<disk, temp, done, skipped>>

\* The bytes go through the limiter and the CRC is verified at their end.
Copy(p) ==
    /\ At(p, "copy")
    /\ \/ Current(p).damage = "none" /\ Goto(p, "chmod")
       \/ Goto(p, "unwind")
    /\ UNCHANGED <<disk, temp, done, skipped>>

Chmod(p) ==
    /\ At(p, "chmod")
    /\ \/ /\ temp' = [temp EXCEPT ![p].mode = Current(p).file.mode]
          /\ Goto(p, "close")
       \/ Goto(p, "unwind") /\ UNCHANGED temp
    /\ UNCHANGED <<disk, done, skipped>>

\* A deferred write error surfaces at the latest here, so until then the
\* content is not known to be whole.
Close(p) ==
    /\ At(p, "close")
    /\ \/ /\ temp' = [temp EXCEPT ![p].data = Current(p).file.data]
          /\ Goto(p, "rename")
       \/ Goto(p, "unwind") /\ UNCHANGED temp
    /\ UNCHANGED <<disk, done, skipped>>

\* Rename replaces a file, whoever put it there, but not a directory.
Rename(p) ==
    /\ At(p, "rename")
    /\ LET x == Current(p).path IN
         \/ /\ disk[x] # Directory
            /\ disk' = [disk EXCEPT ![x] = temp[p]]
            /\ temp' = [temp EXCEPT ![p] = NoTemp]
            /\ NextEntry(p)
         \/ Goto(p, "unwind") /\ UNCHANGED <<disk, temp, done>>
    /\ UNCHANGED skipped

\* Mutant: an entry that cannot be written is dropped, and the loop goes on.
UnwindAndGoOn(p) ==
    /\ At(p, "unwind")
    /\ temp' = [temp EXCEPT ![p] = NoTemp]
    /\ NextEntry(p)
    /\ UNCHANGED <<disk, skipped>>

\* Mutant: the temporary file is closed and forgotten.
UnwindWithoutRemove(p) ==
    /\ At(p, "unwind")
    /\ Goto(p, "failed")
    /\ UNCHANGED <<disk, temp, done, skipped>>

\* The deferred function of writeFile, after an error.
Unwind(p) ==
    /\ At(p, "unwind")
    /\ temp' = [temp EXCEPT ![p] = NoTemp]
    /\ Goto(p, "failed")
    /\ UNCHANGED <<disk, done, skipped>>

-------------------------------------------------------------------------------

Extracting(p) ==
    \/ OpenArchive(p) \/ AllExtracted(p) \/ RejectEntry(p) \/ IgnoreSpecial(p)
    \/ ExtractDirectory(p) \/ SkipExisting(p) \/ BeginFile(p) \/ CreateTemp(p)
    \/ Copy(p) \/ Chmod(p) \/ Close(p) \/ Rename(p) \/ Unwind(p)

\* A hard kill runs no deferred function: the temporary file stays.
Kill(p) ==
    /\ pc[p] \notin Ending
    /\ Goto(p, "killed")
    /\ UNCHANGED <<disk, temp, done, skipped>>

\* Another program creates, replaces or removes a file.
Edit(x) ==
    /\ x \in Editable
    /\ \E c \in File \cup {Missing} : disk' = [disk EXCEPT ![x] = c]
    /\ UNCHANGED <<temp, done, pc, skipped>>

Next ==
    \/ \E p \in Proc : Extracting(p) \/ Kill(p)
    \/ \E x \in Path : Edit(x)

Spec == Init /\ [][Next]_vars

\* System calls return.
FairSpec == Spec /\ \A p \in Proc : WF_vars(Extracting(p))

-------------------------------------------------------------------------------
(* Properties                                                              *)

\* Unpack implements AtomicExtract: seen from outside, each file appears at its
\* destination whole and with its final mode, whatever fails and whenever the
\* process is killed.
ImplementsAtomicExtract == Abstract!Spec

\* No destination ever holds a partial, corrupt or oversized file, nor one with
\* the permissions of a temporary file.
NeverTorn == disk \in [Path -> Abstract!Content]

\* An extraction that returns, with an error or without, leaves no temporary
\* file: only a hard kill strands one.
NoLitter == \A p \in Proc : pc[p] \in {"ok", "failed"} => temp[p] = NoTemp

\* zip.go:82: "If overwrite is false, existing files are left in place".
ExistingKept ==
    [][\A p \in Proc : ~Overwrite[p] /\ done'[p] # done[p] =>
         LET x == Current(p).path IN disk[x] # Missing => disk'[x] = disk[x]]_vars

\* What a run finds at a path that nobody else writes, and that Lstat can read, it
\* leaves there for want of --overwrite, from its Lstat to its rename, and also if
\* it has put it there itself, for an earlier entry of the same name.
Alone(p, x) ==
    /\ x \notin Editable
    /\ \A q \in Proc \ {p} : \A i \in DOMAIN Archive[q] : Archive[q][i].path # x

KeptWhenAlone ==
    [][\A p \in Proc, x \in Path :
         ~Overwrite[p] /\ Alone(p, x) /\ x \notin Unreadable /\ disk[x] # Missing
            => disk'[x] = disk[x]]_vars

\* A run that says "ok" has put every file of its archive in its place, or names it
\* among those it has skipped (zip.go:82-83), at the paths that nobody else writes.
IsPut(p, x, n) ==
    \E i \in 1..n : Archive[p][i].kind = "file" /\ Archive[p][i].path = x
                     /\ disk[x] = Archive[p][i].file

PutOrReported ==
    \A p \in Proc : pc[p] = "ok" =>
        \A i \in DOMAIN Archive[p] :
            LET x == Archive[p][i].path IN
            Archive[p][i].kind = "file" /\ Alone(p, x) =>
                x \in skipped[p] \/ IsPut(p, x, Len(Archive[p]))

\* Why: what the temporary file holds at each step of writeFile, and that it
\* equals the archived file when it is renamed.
Writing == {"create", "copy", "chmod", "close", "rename", "unwind"}

TempMatches(p) ==
    /\ pc[p] \in Writing => done[p] < Len(Archive[p]) /\ Current(p).kind = "file"
    /\ pc[p] \in {"copy", "chmod"} => temp[p] = [data |-> Torn, mode |-> Private]
    /\ pc[p] = "close" => temp[p] = [data |-> Torn, mode |-> Current(p).file.mode]
    /\ pc[p] = "rename" => temp[p] = Current(p).file
    /\ pc[p] \in {"open", "entry", "create", "ok", "failed"} => temp[p] = NoTemp
    /\ pc[p] = "ok" => done[p] = Len(Archive[p])

TempInv == \A p \in Proc : TempMatches(p)

\* Every extraction ends.
Termination == \A p \in Proc : <>(pc[p] \in Ending)

===============================================================================
