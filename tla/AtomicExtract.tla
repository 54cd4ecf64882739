----------------------------- MODULE AtomicExtract ----------------------------
(***************************************************************************)
(* What archive.Unpack promises about the files in the output directory:   *)
(* it goes through the archive in order, and each entry is passed over or  *)
(* put in place in one indivisible step, complete and with its final mode. *)
(* A run may stop anywhere between two entries.  Extract implements this.  *)
(***************************************************************************)
EXTENDS Naturals, Sequences

CONSTANTS
    Proc,       \* the unpack runs that share the output directory
    Path,       \* the destinations, relative to it
    File,       \* the regular files it can hold
    Missing,    \* the value of a path where there is nothing
    Directory,  \* the value of a path that is a directory
    Archive,    \* Archive[p]: the entries of the archive p extracts
    Overwrite   \* Overwrite[p]: --overwrite

VARIABLES
    disk,       \* disk[x]: what is at path x
    done,       \* done[p]: how many entries p has dealt with
    status      \* status[p]: "running", "ok", "failed" or "killed"

vars == <<disk, done, status>>

Content == File \cup {Missing, Directory}

\* Symbolic links, devices and the like are neither packed nor restored.
Kind == {"file", "dir", "special", "unsafe"}

TypeOK ==
    /\ disk \in [Path -> Content]
    /\ done \in [Proc -> Nat]
    /\ status \in [Proc -> {"running", "ok", "failed", "killed"}]

Init ==
    /\ disk \in [Path -> Content]
    /\ done = [p \in Proc |-> 0]
    /\ status = [p \in Proc |-> "running"]

Left(p) == status[p] = "running" /\ done[p] < Len(Archive[p])
Current(p) == Archive[p][done[p] + 1]

Advance(p) ==
    /\ done' = [done EXCEPT ![p] = @ + 1]
    /\ UNCHANGED status

\* The entry takes the place of whatever file was there.
Install(p) ==
    /\ Left(p)
    /\ Current(p).kind = "file"
    /\ disk[Current(p).path] # Directory
    /\ disk' = [disk EXCEPT ![Current(p).path] = Current(p).file]
    /\ Advance(p)

MakeDirectory(p) ==
    /\ Left(p)
    /\ Current(p).kind = "dir"
    /\ disk[Current(p).path] \in {Missing, Directory}
    /\ disk' = [disk EXCEPT ![Current(p).path] = Directory]
    /\ Advance(p)

\* Nothing is done about the entry: it is no file, or something is there.
PassOver(p) ==
    /\ Left(p)
    /\ \/ Current(p).kind = "special"
       \/ Current(p).kind = "file" /\ ~Overwrite[p] /\ disk[Current(p).path] # Missing
    /\ Advance(p)
    /\ UNCHANGED disk

Finish(p) ==
    /\ status[p] = "running"
    /\ done[p] = Len(Archive[p])
    /\ status' = [status EXCEPT ![p] = "ok"]
    /\ UNCHANGED <<disk, done>>

Stop(p) ==
    /\ status[p] = "running"
    /\ \E how \in {"failed", "killed"} : status' = [status EXCEPT ![p] = how]
    /\ UNCHANGED <<disk, done>>

\* Other programs put files in place or remove them, atomically as well.
Edit(x, c) ==
    /\ disk' = [disk EXCEPT ![x] = c]
    /\ UNCHANGED <<done, status>>

Next ==
    \/ \E p \in Proc : Install(p) \/ MakeDirectory(p) \/ PassOver(p) \/ Finish(p) \/ Stop(p)
    \/ \E x \in Path, c \in Content : Edit(x, c)

Spec == Init /\ [][Next]_vars

===============================================================================
