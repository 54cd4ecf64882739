--------------------------------- MODULE Gather -------------------------------
(***************************************************************************)
(* From the source directory to the archive: scan.Walk selects files,      *)
(* buildArchive then reads them one by one, while other programs may       *)
(* change the directory between any two system calls.                      *)
(*                                                                         *)
(* Other programs replace what is at a path in one step (a rename, or a    *)
(* removal); a file that is rewritten in place while it is copied is not   *)
(* modelled.  A symbolic link leads to a file outside the directory, to an *)
(* empty directory, or to nothing.                                         *)
(***************************************************************************)
EXTENDS Patterns

CONSTANTS
    Place,      \* the names, relative to the source directory, that are used
    Data, Mode, \* what a file can contain, and its permissions
    OddMode,    \* the permissions of what is not a regular file
    Missing,    \* nothing is there
    Directory,
    Special,    \* a device, a pipe or a socket
    Editable,   \* the places other programs change, and what they put there
    Edited,
    Inputs      \* the inputs considered

VARIABLES
    tree,       \* tree[x]: what is at x in the source directory
    include,    \* cfg.Patterns
    exclude,
    edits,      \* how often the directory may still change
    versions,   \* history: versions[x]: what has been at x so far
    todo,       \* the directory entries that WalkDir has read and not visited
    matches,    \* the files selected, with the mode they had
    entries,    \* what has been added to the archive
    phase       \* "begin", "walk", "archive", "packed" or "failed"

gatherVars == <<tree, include, exclude, edits, versions, todo, matches, entries, phase>>

Root == <<>>

File == [data : Data, mode : Mode]
Link == [to : File \cup {Directory, Missing}]
Node == File \cup Link \cup {Missing, Directory, Special}

DirEntry == [path : Place \cup {Root}, type : {"file", "dir", "link", "special"}]
Match == [path : Place, mode : Mode \cup {OddMode}]
Entry == [name : Seq(Range(Character)), file : [data : Data, mode : Mode \cup {OddMode}]]

\* Only directories have something in them.
WellRooted(t) == \A x \in Place : t[x] # Missing => t[Parent(x)] = Directory

IsInput(in) ==
    /\ in.tree \in [Place \cup {Root} -> Node] /\ WellRooted(in.tree)
    /\ \A p \in in.include \cup in.exclude : p \in Seq(Range(Character))
    /\ in.edits \in Nat

ASSUME GatherAssumption ==
    /\ IsFiniteSet(Place) /\ Place \subseteq Seq(Range(Character))
    /\ \A x \in Place : IsFileName(x) /\ Parent(x) \in Place \cup {Root}
    /\ Editable \subseteq Place
    /\ Edited \subseteq Node \ {Special}
    /\ Missing \notin File \cup Link /\ Directory \notin File \cup Link
    /\ Special \notin File \cup Link
    /\ Missing # Directory /\ Special \notin {Missing, Directory}
    /\ File \cap Link = {}
    /\ OddMode \notin Mode
    /\ \A in \in Inputs : IsInput(in)

GatherTypeOK ==
    /\ tree \in [Place \cup {Root} -> Node]
    /\ edits \in Nat
    /\ versions \in [Place \cup {Root} -> SUBSET Node]
    /\ todo \in Seq(DirEntry)
    /\ matches \in Seq(Match)
    /\ entries \in Seq(Entry)
    /\ Len(entries) <= Len(matches)

GatherStart(in) ==
    /\ tree = in.tree
    /\ include = in.include
    /\ exclude = in.exclude
    /\ edits = in.edits
    /\ versions = [x \in Place \cup {Root} |-> {in.tree[x]}]
    /\ todo = <<>>
    /\ matches = <<>>
    /\ entries = <<>>
    /\ phase = "begin"

GatherInit == \E in \in Inputs : GatherStart(in)

-------------------------------------------------------------------------------
(* scan.Walk                                                               *)

Selected(x) == MatchAny(include, x) /\ ~MatchAny(exclude, x)

TypeOf(node) ==
    CASE node \in File -> "file"
      [] node \in Link -> "link"
      [] node = Directory -> "dir"
      [] OTHER -> "special"

ModeOf(node) == IF node \in File THEN node.mode ELSE OddMode

Listed(x) == [path |-> x, type |-> TypeOf(tree[x])]

Goto(p) == phase' = p

\* Any system call may fail, which ends the command.
Fail ==
    /\ Goto("failed")
    /\ UNCHANGED <<todo, matches, entries>>

\* The patterns are compiled, and the source directory is looked at.
WalkBegin ==
    /\ phase = "begin"
    /\ \/ /\ include # {} /\ \A p \in include \cup exclude : ~Invalid(p)
          /\ tree[Root] # Missing
          /\ todo' = <<Listed(Root)>>
          /\ Goto("walk")
          /\ UNCHANGED <<matches, entries>>
       \/ Fail

\* os.ReadDir sorts what it returns: the i-th of the entries of a directory has
\* i - 1 before it.
InOrder(S) ==
    LET rank == [a \in S |-> Cardinality({b \in S : NameLess(b.path, a.path)})]
    IN [i \in 1..Cardinality(S) |-> CHOOSE a \in S : rank[a] = i - 1]

\* A link that has taken the place of the directory is followed.
ReadDir(x) ==
    InOrder({Listed(y) : y \in {z \in Place : Parent(z) = x /\ tree[z] # Missing}})

Visiting(type) == phase = "walk" /\ todo # <<>> /\ Head(todo).type = type

Descend ==
    /\ Visiting("dir")
    /\ LET x == Head(todo).path IN
         \/ /\ tree[x] \in {Directory, [to |-> Directory]}
            /\ todo' = ReadDir(x) \o Tail(todo)
            /\ UNCHANGED <<matches, entries, phase>>
         \/ Fail

\* Links and special files, the root if it is not a directory, and what the
\* patterns do not select.
PassOver ==
    /\ \/ Visiting("link") \/ Visiting("special")
       \/ Visiting("file") /\ (Head(todo).path = Root \/ ~Selected(Head(todo).path))
    /\ todo' = Tail(todo)
    /\ UNCHANGED <<matches, entries, phase>>

\* Mutant: a file that has vanished is selected all the same.
SelectVanished ==
    /\ Visiting("file")
    /\ LET x == Head(todo).path IN
         /\ x # Root /\ Selected(x)
         /\ matches' = Append(matches, [path |-> x, mode |-> tree[x]])
         /\ todo' = Tail(todo)
         /\ UNCHANGED <<entries, phase>>

\* d.Info(): the mode is of what is there now.
Select ==
    /\ Visiting("file")
    /\ LET x == Head(todo).path IN
         /\ x # Root /\ Selected(x)
         /\ \/ /\ tree[x] # Missing
               /\ matches' = Append(matches, [path |-> x, mode |-> ModeOf(tree[x])])
               /\ todo' = Tail(todo)
               /\ UNCHANGED <<entries, phase>>
            \/ Fail

\* Mutant: an "if" for the inner "for".
InsertedOnePlace(ms, m) ==
    InsertAt(ms, IF ms # <<>> /\ NameLess(m.path, Last(ms).path) THEN Len(ms) ELSE Len(ms) + 1, m)

\* The inner loop of sortMatches: m goes down until what is before it is not
\* greater.
Inserted(ms, m) ==
    LET staying == {j \in DOMAIN ms : ~NameLess(m.path, ms[j].path)}
    IN InsertAt(ms, IF staying = {} THEN 1 ELSE Max(staying) + 1, m)

SortedMatches(ms) == FoldLeft(Inserted, <<>>, ms)

\* An empty selection is an error of runPack.
WalkEnd ==
    /\ phase = "walk" /\ todo = <<>>
    /\ IF matches = <<>> THEN Fail
       ELSE /\ matches' = SortedMatches(matches)
            /\ Goto("archive")
            /\ UNCHANGED <<todo, entries>>

-------------------------------------------------------------------------------
(* buildArchive                                                            *)

\* What os.Open leads to.
Target(node) == IF node \in Link THEN node.to ELSE node
Readable(node) == Target(node) \in File

NextMatch == matches[Len(entries) + 1]

\* os.Open and Writer.Add: a directory can be opened and not read, a bad name is
\* refused.
AddFile ==
    /\ phase = "archive" /\ Len(entries) < Len(matches)
    /\ LET m == NextMatch
           node == tree[m.path] IN
       \/ /\ Readable(node) /\ ~Unsafe(m.path)
          /\ entries' = Append(entries, [name |-> ArchiveName(m.path),
                                         file |-> [data |-> Target(node).data, mode |-> m.mode]])
          /\ UNCHANGED <<todo, matches, phase>>
       \/ Fail

\* Writer.Bytes
ArchiveEnd ==
    /\ phase = "archive" /\ Len(entries) = Len(matches)
    /\ Goto("packed")
    /\ UNCHANGED <<todo, matches, entries>>

Gathering ==
    /\ WalkBegin \/ Descend \/ PassOver \/ Select \/ WalkEnd \/ AddFile \/ ArchiveEnd
    /\ UNCHANGED <<tree, include, exclude, edits, versions>>

\* Another program puts something else in a place; what was under it goes.
Edit ==
    /\ phase \notin {"packed", "failed"}
    /\ edits > 0
    /\ \E x \in Editable, node \in Edited :
         /\ tree[Parent(x)] = Directory
         /\ tree' = [y \in Place \cup {Root} |->
                        CASE y = x -> node
                          [] Under(y, x) -> Missing
                          [] OTHER -> tree[y]]
    /\ versions' = [y \in Place \cup {Root} |-> versions[y] \cup {tree'[y]}]
    /\ edits' = edits - 1
    /\ UNCHANGED <<include, exclude, todo, matches, entries, phase>>

GatherNext == Gathering \/ Edit

GatherSpec == GatherInit /\ [][GatherNext]_gatherVars

-------------------------------------------------------------------------------
(* Properties                                                              *)

Backslashed(x) == Contains(x, "\\")

\* What the documents say is packed (scan.go:7-9, README.md:504-514).
Meant(x) == (\E p \in include : Means(p, x)) /\ ~(\E p \in exclude : Means(p, x))

\* A file that nobody touched during a pack that succeeded is in its archive,
\* with its content and its mode, if the patterns mean it, whatever vanished or
\* changed around it.
UntouchedArePacked ==
    phase = "packed" =>
        \A x \in Place, f \in File : versions[x] = {f} /\ Meant(x) =>
            \E i \in DOMAIN matches : matches[i].path = x /\ entries[i].file = f

\* Nothing else is packed: the patterns mean every file in the archive, it has
\* been a regular file of the directory, and its content and its mode are of
\* something that was at its place, not necessarily at the same time.  (A link
\* put there after the walk is followed, against scan.go:11.)
OnlySelectedArePacked ==
    phase = "packed" =>
        \A i \in DOMAIN matches :
            LET x == matches[i].path IN
            /\ Meant(x)
            /\ \E f \in File : f \in versions[x]
            /\ \E v \in versions[x] : entries[i].file.mode = ModeOf(v)
            /\ \E v \in versions[x] : Readable(v) /\ entries[i].file.data = Target(v).data

\* The entries of the archive are in byte order of their names, none twice,
\* whatever order the directories are walked in ("a.b" comes before "a/b", and
\* after it in the walk).  A name with a backslash is the exception: the files
\* are sorted before Writer.Add makes it a slash.
ArchivedInOrder ==
    phase = "packed" =>
        \A i, j \in DOMAIN entries :
            i < j /\ ~Backslashed(matches[i].path) /\ ~Backslashed(matches[j].path) =>
                NameLess(entries[i].name, entries[j].name)

===============================================================================
