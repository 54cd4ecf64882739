------------------------------- MODULE MCExtract ------------------------------
(***************************************************************************)
(* Small instances of Extract: two or three destinations and two unpack    *)
(* runs, whose archives have between them every kind of entry and of       *)
(* damage.                                                                 *)
(***************************************************************************)
EXTENDS Extract, TLC

CONSTANTS p1, p2, a, b, c, old, new1, new2, m1, m2

Entry(x, k, d, m, dmg) ==
    [path |-> x, kind |-> k, file |-> [data |-> d, mode |-> m], damage |-> dmg]

FileEntry(x, d, m) == Entry(x, "file", d, m, "none")
SpecialEntry == Entry(a, "special", new1, m1, "none")

\* p1's archive has a file that p2's has not, twice; the last file of p1's does
\* not pass the CRC.  p2's makes a directory where p1's has a file, and holds a name
\* that must not be extracted.
TwoArchives == [p \in Proc |->
    IF p = p1 THEN <<FileEntry(c, new1, m1), FileEntry(a, new1, m1), SpecialEntry,
                     FileEntry(c, new2, m2), Entry(b, "file", new1, m2, "crc")>>
              ELSE <<FileEntry(b, new2, m2), Entry(a, "dir", new2, m1, "none"),
                     Entry(a, "unsafe", new2, m1, "none")>>]

\* A directory and a file, and the file once more.
GoodArchive == [p \in Proc |->
    <<Entry(a, "dir", new1, m1, "none"), FileEntry(b, new1, m1), FileEntry(b, new2, m2)>>]

\* Only p2 was given --overwrite.
MCOverwrite == [p \in Proc |-> p = p2]
NoOverwrite == [p \in Proc |-> FALSE]

===============================================================================
