------------------------------ MODULE GatherProofs -----------------------------
(***************************************************************************)
(* What scan.Walk and buildArchive archive is what the patterns mean, as   *)
(* it was, in order, for every directory and every change to it.           *)
(***************************************************************************)
EXTENDS Gather, PatternsProofs

Places == Place \cup {Root}
Text == Seq(Range(Character))

-------------------------------------------------------------------------------
(* Sorting.                                                                *)

\* Matches in the order of their paths.
Ordered(q) == \A i, j \in DOMAIN q : i < j => NameLess(q[i].path, q[j].path)

\* Records of different paths.
Keyed(S) ==
    /\ IsFiniteSet(S) /\ \A a \in S : a.path \in Text
    /\ \A a, b \in S : a.path = b.path => a = b

Before(S, a) == {b \in S : NameLess(b.path, a.path)}
Rank(S) == [a \in S |-> Cardinality(Before(S, a))]

LEMMA RankGrows ==
    ASSUME NEW S, Keyed(S)
    PROVE  /\ \A a \in S : Rank(S)[a] \in 0..(Cardinality(S) - 1)
           /\ \A a, b \in S : NameLess(a.path, b.path) => Rank(S)[a] < Rank(S)[b]
<1>1. ASSUME NEW a \in S
      PROVE  Cardinality(Before(S, a)) \in Nat /\ Cardinality(Before(S, a)) < Cardinality(S)
  <2>1. Before(S, a) \in SUBSET S /\ a \notin Before(S, a)
    BY NameLessIrreflexive DEF Before, Keyed, Text
  <2>2. IsFiniteSet(S) /\ IsFiniteSet(Before(S, a))
    BY <2>1, FS_Subset DEF Keyed
  <2>3. Cardinality(Before(S, a)) \in Nat /\ Cardinality(S) \in Nat
    BY <2>2, FS_CardinalityType
  <2>4. Cardinality(Before(S, a)) <= Cardinality(S) /\ Cardinality(Before(S, a)) # Cardinality(S)
    BY <2>1, <2>2, FS_Subset
  <2>5. QED
    BY <2>3, <2>4
<1>2. ASSUME NEW a \in S, NEW b \in S, NameLess(a.path, b.path)
      PROVE  Cardinality(Before(S, a)) < Cardinality(Before(S, b))
  <2>1. a \in Before(S, b) /\ a \notin Before(S, a) /\ Before(S, b) \in SUBSET S
    BY <1>2, NameLessIrreflexive DEF Before, Keyed, Text
  <2>2. Before(S, a) \in SUBSET Before(S, b)
    BY <1>2, NameLessTransitive DEF Before, Keyed, Text
  <2>3. IsFiniteSet(S) /\ IsFiniteSet(Before(S, b))
    BY <2>1, FS_Subset DEF Keyed
  <2>4. /\ Cardinality(Before(S, a)) <= Cardinality(Before(S, b))
        /\ Cardinality(Before(S, a)) # Cardinality(Before(S, b))
    BY <2>1, <2>2, <2>3, FS_Subset
  <2>5. Cardinality(Before(S, a)) \in Nat /\ Cardinality(Before(S, b)) \in Nat
    BY <1>1
  <2>6. QED
    BY <2>4, <2>5
<1>3. Cardinality(S) \in Nat
  BY FS_CardinalityType DEF Keyed
<1>4. QED
  BY <1>1, <1>2, <1>3 DEF Rank

LEMMA RankIsOnto ==
    ASSUME NEW S, Keyed(S)
    PROVE  /\ Cardinality(S) \in Nat
           /\ \A a, b \in S : Rank(S)[a] = Rank(S)[b] => a = b
           /\ \A n \in 0..(Cardinality(S) - 1) : \E a \in S : Rank(S)[a] = n
<1> DEFINE n == Cardinality(S)
           I == 0..(n - 1)
<1>1. IsFiniteSet(S) /\ n \in Nat
  BY FS_CardinalityType DEF Keyed
<1>2. Rank(S) \in [S -> I]
  BY RankGrows DEF Rank
<1>3. ASSUME NEW a \in S, NEW b \in S, a # b PROVE Rank(S)[a] # Rank(S)[b]
  <2>1. a.path # b.path /\ a.path \in Text /\ b.path \in Text
    BY <1>3 DEF Keyed
  <2>2. NameLess(a.path, b.path) \/ NameLess(b.path, a.path)
    BY <2>1, NameLessTotal DEF Text
  <2>3. Rank(S)[a] \in Int /\ Rank(S)[b] \in Int
    BY <1>1, <1>2
  <2>4. QED
    BY <2>2, <2>3, RankGrows
<1>4. Rank(S) \in Injection(S, I)
  BY <1>2, <1>3 DEF Injection, IsInjective
<1>5. IsFiniteSet(I) /\ Cardinality(I) = n
  <2>1. 0 \in Int /\ n - 1 \in Int
    BY <1>1
  <2>2. QED
    BY <1>1, <2>1, FS_Interval
<1>6. Rank(S) \in Surjection(S, I)
  BY <1>1, <1>4, <1>5, FS_Injection
<1>7. QED
  BY <1>1, <1>3, <1>6 DEF Surjection

\* InOrder keeps the elements and sorts them.
LEMMA Sorted ==
    ASSUME NEW S, Keyed(S)
    PROVE  /\ InOrder(S) \in Seq(S) /\ Len(InOrder(S)) = Cardinality(S)
           /\ \A i, j \in DOMAIN InOrder(S) :
                 i < j => NameLess(InOrder(S)[i].path, InOrder(S)[j].path)
           /\ \A a \in S : \E i \in DOMAIN InOrder(S) : InOrder(S)[i] = a
<1> DEFINE n == Cardinality(S)
           At(i) == CHOOSE a \in S : Rank(S)[a] = i - 1
<1>1. InOrder(S) = [i \in 1..n |-> At(i)]
  BY DEF InOrder, Rank, Before
<1>2. n \in Nat
  BY RankIsOnto
<1>3. ASSUME NEW i \in 1..n PROVE At(i) \in S /\ Rank(S)[At(i)] = i - 1
  <2>1. i - 1 \in 0..(n - 1)
    BY <1>2
  <2>2. \E a \in S : Rank(S)[a] = i - 1
    BY <2>1, RankIsOnto
  <2>3. QED
    BY <2>2
<1> HIDE DEF At
<1>4. InOrder(S) \in Seq(S) /\ Len(InOrder(S)) = n /\ DOMAIN InOrder(S) = 1..n
  BY <1>1, <1>2, <1>3
<1>5. ASSUME NEW i \in 1..n, NEW j \in 1..n, i < j
      PROVE  NameLess(At(i).path, At(j).path)
  <2>1. Rank(S)[At(i)] = i - 1 /\ Rank(S)[At(j)] = j - 1 /\ At(i) \in S /\ At(j) \in S
    BY <1>3
  <2>2. At(i).path # At(j).path
    BY <1>2, <1>5, <2>1 DEF Keyed
  <2>3. ~NameLess(At(j).path, At(i).path)
    <3>1. ~(j - 1 < i - 1)
      BY <1>2, <1>5
    <3>2. QED
      BY <2>1, <3>1, RankGrows
  <2>4. QED
    BY <2>1, <2>2, <2>3, NameLessTotal DEF Keyed, Text
<1>6. ASSUME NEW a \in S PROVE \E i \in 1..n : At(i) = a
  <2>1. Rank(S)[a] \in 0..(n - 1)
    BY RankGrows
  <2> DEFINE i == Rank(S)[a] + 1
  <2>2. i \in 1..n /\ Rank(S)[a] = i - 1
    BY <1>2, <2>1
  <2>3. At(i) \in S /\ Rank(S)[At(i)] = Rank(S)[a]
    BY <1>3, <2>2
  <2>4. QED
    BY <2>2, <2>3, RankIsOnto
<1>7. \A i \in 1..n : InOrder(S)[i] = At(i)
  BY <1>1
<1>8. QED
  BY <1>4, <1>5, <1>6, <1>7

-------------------------------------------------------------------------------
(* The directory.                                                           *)

LEMMA Slash == "/" \in Range(Character) /\ "." \in Range(Character)
<1>1. 2 \in DOMAIN Character /\ 3 \in DOMAIN Character
  BY DEF Character
<1>2. Character[2] = "." /\ Character[3] = "/"
  BY DEF Character
<1>3. QED
  BY <1>1, <1>2 DEF Range

LEMMA PlaceFacts ==
    /\ \A x \in Places : x \in Text /\ Relative(x)
    /\ \A x \in Place : x \in Places /\ x # Root /\ Parent(x) \in Places /\ Under(x, Parent(x))
<1>1. ASSUME NEW x \in Place PROVE x \in Text /\ Relative(x) /\ x # Root
  <2>1. x \in Text /\ IsFileName(x)
    BY GatherAssumption DEF GatherAssumption, Text
  <2>2. QED
    BY <2>1, WithoutEmptySegments DEF IsFileName, Text, Root
<1>2. Root \in Text /\ Relative(Root)
  BY DEF Root, Relative, Text
<1>3. ASSUME NEW x \in Place PROVE Parent(x) \in Places /\ Under(x, Parent(x))
  <2>1. Parent(x) \in Places
    BY GatherAssumption DEF GatherAssumption, Places
  <2>2. QED
    BY <1>1, <2>1, Slash, UnderParent DEF Text, Root
<1>4. QED
  BY <1>1, <1>2, <1>3 DEF Places

LEMMA Shorter ==
    ASSUME NEW x \in Places, NEW y \in Places, Under(x, y)
    PROVE  Len(x) \in Nat /\ Len(y) \in Nat /\ Len(y) < Len(x) /\ x \in Place
<1>1. x \in Text /\ y \in Text
  BY PlaceFacts
<1>2. Len(x) \in Nat /\ Len(y) \in Nat /\ Len(y) < Len(x)
  BY <1>1, Slash, UnderIsLonger DEF Text
<1>3. x # Root
  BY <1>2 DEF Root
<1>4. QED
  BY <1>2, <1>3 DEF Places

LEMMA Transitive ==
    ASSUME NEW x \in Places, NEW y \in Places, NEW z \in Places, Under(x, y), Under(y, z)
    PROVE  Under(x, z)
  BY PlaceFacts, Slash, UnderTransitive DEF Text

LEMMA Upward ==
    ASSUME NEW x \in Place, NEW y \in Places, Under(x, y)
    PROVE  Parent(x) = y \/ (Under(Parent(x), y) /\ Parent(x) \in Place)
<1>1. Parent(x) = y \/ Under(Parent(x), y)
  BY PlaceFacts, Slash, UnderMeansParent DEF Text
<1>2. QED
  BY <1>1, PlaceFacts, Shorter

\* What has something under it is a directory.
LEMMA Chain ==
    ASSUME NEW t \in [Places -> Node], WellRooted(t),
           NEW x \in Place, t[x] # Missing, NEW z \in Places, Under(x, z)
    PROVE  t[z] = Directory
<1> DEFINE B == {y \in Place : t[y] # Missing /\ Under(y, z)}
           T == {Len(y) : y \in B}
<1> SUFFICES ASSUME t[z] # Directory PROVE FALSE
  OBVIOUS
<1>1. x \in B /\ T \in SUBSET Nat
  BY PlaceFacts, Shorter
<1>2. PICK n \in T : \A m \in T : n <= m
  <2>1. T # {}
    BY <1>1
  <2> HIDE DEF T
  <2>2. QED
    BY <1>1, <2>1, Least
<1>3. PICK y \in B : \A w \in B : Len(y) <= Len(w)
  BY <1>2
<1>4. t[Parent(y)] = Directory
  BY DEF WellRooted
<1>5. Under(Parent(y), z) /\ Parent(y) \in Place
  BY <1>4, Upward
<1>6. Directory # Missing
  BY GatherAssumption DEF GatherAssumption
<1>7. Parent(y) \in B
  BY <1>4, <1>5, <1>6
<1>8. Len(Parent(y)) < Len(y) /\ Len(Parent(y)) \in Nat /\ Len(y) \in Nat
  BY PlaceFacts, Shorter
<1>9. QED
  BY <1>3, <1>7, <1>8

\* Every directory over x has an entry that is x or is over x.
LEMMA StepDown ==
    ASSUME NEW x \in Place, NEW z \in Places, Under(x, z)
    PROVE  \E y \in Place : Parent(y) = z /\ (y = x \/ Under(x, y))
<1> DEFINE B == {y \in Place : (y = x \/ Under(x, y)) /\ Under(y, z)}
           T == {Len(y) : y \in B}
<1> SUFFICES ASSUME \A y \in Place : (y = x \/ Under(x, y)) => Parent(y) # z PROVE FALSE
  OBVIOUS
<1>1. x \in B /\ T \in SUBSET Nat
  BY PlaceFacts, Shorter
<1>2. PICK n \in T : \A m \in T : n <= m
  <2>1. T # {}
    BY <1>1
  <2> HIDE DEF T
  <2>2. QED
    BY <1>1, <2>1, Least
<1>3. PICK y \in B : \A w \in B : Len(y) <= Len(w)
  BY <1>2
<1>4. Under(Parent(y), z) /\ Parent(y) \in Place
  BY Upward
<1>5. Under(x, Parent(y))
  <2>1. y \in Place /\ Under(y, Parent(y)) /\ (y = x \/ Under(x, y))
    BY PlaceFacts
  <2>2. QED
    BY <1>4, <2>1, PlaceFacts, Transitive
<1>6. Parent(y) \in B
  BY <1>4, <1>5
<1>7. Len(Parent(y)) < Len(y) /\ Len(Parent(y)) \in Nat /\ Len(y) \in Nat
  BY PlaceFacts, Shorter
<1>8. QED
  BY <1>3, <1>6, <1>7

-------------------------------------------------------------------------------
(* The invariant.                                                           *)

\* The directory is a tree, and its past contains its present.
TreeInv ==
    /\ tree \in [Places -> Node] /\ WellRooted(tree)
    /\ edits \in Nat
    /\ versions \in [Places -> SUBSET Node]
    /\ \A x \in Places : tree[x] \in versions[x]

Apart(x, y) == x # y /\ ~Under(x, y) /\ ~Under(y, x)
WasFile(x) == \E f \in File : f \in versions[x]
HadMode(x, mode) == \E v \in versions[x] : mode = ModeOf(v)

\* What is still to be visited is disjoint, and disjoint from what is selected.
WalkInv ==
    /\ todo \in Seq(DirEntry) /\ matches \in Seq(Match)
    /\ \A i \in DOMAIN todo : todo[i].type = "file" => WasFile(todo[i].path)
    /\ \A i, j \in DOMAIN todo : i # j => Apart(todo[i].path, todo[j].path)
    /\ \A i \in DOMAIN matches :
          /\ Selected(matches[i].path) /\ WasFile(matches[i].path)
          /\ HadMode(matches[i].path, matches[i].mode)
    /\ \A i, j \in DOMAIN matches : i # j => Apart(matches[i].path, matches[j].path)
    /\ \A i \in DOMAIN matches, j \in DOMAIN todo : Apart(matches[i].path, todo[j].path)

\* The file f at x is selected already, or the walk will come to it.
Found(x, f) ==
    \/ \E i \in DOMAIN matches : matches[i].path = x /\ matches[i].mode = f.mode
    \/ \E i \in DOMAIN todo : todo[i].path = x /\ todo[i].type = "file"
    \/ \E i \in DOMAIN todo : todo[i].type = "dir" /\ Under(x, todo[i].path)

CompleteInv ==
    phase \in {"walk", "archive", "packed"} =>
        \A x \in Place, f \in File : versions[x] = {f} /\ Selected(x) => Found(x, f)

HadData(x, data) == \E v \in versions[x] : Readable(v) /\ data = Target(v).data

EntriesInv ==
    /\ entries \in Seq(Entry) /\ Len(entries) <= Len(matches)
    /\ \A i \in DOMAIN entries :
          /\ entries[i].name = ArchiveName(matches[i].path) /\ ~Unsafe(matches[i].path)
          /\ entries[i].file.mode = matches[i].mode
          /\ HadData(matches[i].path, entries[i].file.data)

PhaseInv ==
    /\ phase = "begin" => todo = <<>> /\ matches = <<>>
    /\ phase \in {"begin", "walk"} => entries = <<>>
    /\ phase \in {"archive", "packed"} => todo = <<>> /\ Ordered(matches)
    /\ phase = "packed" => Len(entries) = Len(matches)
    /\ phase \in {"walk", "archive", "packed"} => \A p \in include \cup exclude : ~Invalid(p)
    /\ \E in \in Inputs : include = in.include /\ exclude = in.exclude

GatherInv == TreeInv /\ WalkInv /\ CompleteInv /\ EntriesInv /\ PhaseInv

-------------------------------------------------------------------------------
(* The walk.                                                                *)

Still == UNCHANGED <<tree, include, exclude, edits, versions>>

LEMMA NodeFacts ==
    /\ \A v \in Node : /\ TypeOf(v) \in {"file", "dir", "link", "special"}
                       /\ TypeOf(v) = "file" <=> v \in File
                       /\ ModeOf(v) \in Mode \cup {OddMode}
    /\ TypeOf(Directory) = "dir" /\ Directory \in Node /\ Directory # Missing
    /\ \A f \in File : /\ f \in Node /\ f # Missing /\ ModeOf(f) = f.mode
                       /\ Readable(f) /\ Target(f) = f
<1>1. /\ Directory \notin File /\ Directory \notin Link /\ Directory # Missing
      /\ Missing \notin File /\ File \cap Link = {}
  BY GatherAssumption DEF GatherAssumption
<1>2. \A f \in File : f.mode \in Mode
  BY DEF File
<1> HIDE DEF File, Link
<1>3. \A v : TypeOf(v) \in {"file", "dir", "link", "special"} /\ (TypeOf(v) = "file" <=> v \in File)
  BY <1>1 DEF TypeOf
<1>4. \A v : ModeOf(v) \in Mode \cup {OddMode}
  BY <1>2 DEF ModeOf
<1>5. TypeOf(Directory) = "dir" /\ Directory \in Node
  BY <1>1 DEF TypeOf, Node
<1>6. \A f \in File : /\ f \in Node /\ f # Missing /\ ModeOf(f) = f.mode
                      /\ Readable(f) /\ Target(f) = f
  BY <1>1 DEF Node, ModeOf, Readable, Target
<1>7. QED
  BY <1>1, <1>3, <1>4, <1>5, <1>6

LEMMA Starts == GatherInit => GatherInv
<1> SUFFICES ASSUME NEW in \in Inputs, GatherStart(in) PROVE GatherInv
  BY DEF GatherInit
<1>1. IsInput(in)
  BY GatherAssumption DEF GatherAssumption
<1>2. TreeInv
  BY <1>1 DEF TreeInv, GatherStart, IsInput, Places
<1>3. WalkInv /\ EntriesInv
  BY DEF WalkInv, EntriesInv, GatherStart
<1>4. CompleteInv
  BY DEF CompleteInv, GatherStart
<1>5. PhaseInv
  BY DEF PhaseInv, GatherStart
<1>6. QED
  BY <1>2, <1>3, <1>4, <1>5 DEF GatherInv

LEMMA FailKeeps ==
    ASSUME GatherInv, Fail, Still
    PROVE  GatherInv'
<1>1. TreeInv'
  BY DEF GatherInv, TreeInv, Still, WellRooted
<1>2. WalkInv'
  BY DEF GatherInv, WalkInv, Fail, Still, Selected, WasFile, HadMode
<1>3. EntriesInv'
  BY DEF GatherInv, EntriesInv, Fail, Still, HadData
<1>4. CompleteInv'
  BY DEF CompleteInv, Fail, Goto
<1>5. PhaseInv'
  BY DEF GatherInv, PhaseInv, Fail, Goto, Still
<1>6. QED
  BY <1>1, <1>2, <1>3, <1>4, <1>5 DEF GatherInv

LEMMA TreeStays ==
    ASSUME GatherInv, Still
    PROVE  TreeInv'
  BY DEF GatherInv, TreeInv, Still, WellRooted

LEMMA WalkBeginKeeps ==
    ASSUME GatherInv, WalkBegin, Still
    PROVE  GatherInv'
<1>1. CASE Fail
  BY <1>1, FailKeeps
<1>2. CASE ~Fail
  <2> DEFINE t == Listed(Root)
  <2>1. /\ todo' = <<t>> /\ matches' = <<>> /\ entries' = <<>> /\ phase' = "walk"
        /\ \A p \in include \cup exclude : ~Invalid(p)
    BY <1>2 DEF WalkBegin, Goto, GatherInv, PhaseInv
  <2>2. t.path = Root /\ t.type = TypeOf(tree[Root]) /\ t \in DirEntry
        /\ (t.type = "file" => WasFile(Root))
    <3>1. Root \in Places /\ tree[Root] \in Node /\ tree[Root] \in versions[Root]
      BY DEF GatherInv, TreeInv, Places
    <3>2. QED
      BY <3>1, NodeFacts DEF Listed, DirEntry, Places, WasFile
  <2> HIDE DEF t
  <2>3. \A i \in DOMAIN <<t>> : <<t>>[i] = t /\ i = 1
    OBVIOUS
  <2>4. WalkInv'
    <3>1. todo' \in Seq(DirEntry) /\ matches' \in Seq(Match)
      BY <2>1, <2>2
    <3>2. (\A i \in DOMAIN todo : todo[i].type = "file" => WasFile(todo[i].path))'
      BY <2>1, <2>2, <2>3 DEF WasFile, Still
    <3>3. \A i, j \in DOMAIN todo' : i # j => Apart(todo'[i].path, todo'[j].path)
      BY <2>1, <2>3
    <3>4. DOMAIN matches' = {}
      BY <2>1
    <3>5. QED
      BY <3>1, <3>2, <3>3, <3>4 DEF WalkInv
  <2>5. EntriesInv'
    BY <2>1 DEF EntriesInv
  <2>6. CompleteInv'
    <3> SUFFICES ASSUME NEW x \in Place, NEW f \in File, versions'[x] = {f} PROVE Found(x, f)'
      BY DEF CompleteInv
    <3>1. tree \in [Places -> Node] /\ WellRooted(tree) /\ tree[x] = f /\ x \in Places
      BY PlaceFacts DEF GatherInv, TreeInv, Still
    <3>2. Under(x, Root)
      BY <3>1, PlaceFacts DEF Under, Root
    <3>3. tree[Root] = Directory
      BY <3>1, <3>2, Chain, NodeFacts DEF Places
    <3>4. t.type = "dir" /\ 1 \in DOMAIN todo' /\ todo'[1] = t
      BY <2>1, <2>2, <3>3, NodeFacts
    <3>5. QED
      BY <2>2, <3>2, <3>4 DEF Found
  <2>7. PhaseInv'
    BY <2>1 DEF PhaseInv, GatherInv, Still
  <2>8. QED
    BY <2>4, <2>5, <2>6, <2>7, TreeStays DEF GatherInv
<1>3. QED
  BY <1>1, <1>2

\* The walk goes on with r in place of the head of q.
Spliced(r, q) == r \o Tail(q)

LEMMA Splice ==
    ASSUME NEW E, NEW r \in Seq(E), NEW q \in Seq(E), q # <<>>
    PROVE  /\ Spliced(r, q) \in Seq(E)
           /\ \A i \in DOMAIN Spliced(r, q) :
                 \/ i \in DOMAIN r /\ Spliced(r, q)[i] = r[i]
                 \/ /\ i \notin DOMAIN r /\ i - Len(r) + 1 \in DOMAIN q \ {1}
                    /\ Spliced(r, q)[i] = q[i - Len(r) + 1]
           /\ \A i \in DOMAIN r : i \in DOMAIN Spliced(r, q) /\ Spliced(r, q)[i] = r[i]
           /\ \A i \in DOMAIN q \ {1} :
                 /\ i + Len(r) - 1 \in DOMAIN Spliced(r, q)
                 /\ Spliced(r, q)[i + Len(r) - 1] = q[i]
<1>1. /\ Tail(q) \in Seq(E) /\ Len(Tail(q)) = Len(q) - 1 /\ Len(q) \in Nat \ {0} /\ Len(r) \in Nat
      /\ \A i \in 1..(Len(q) - 1) : Tail(q)[i] = q[i + 1]
  OBVIOUS
<1> DEFINE s == Spliced(r, q)
<1>2. /\ s \in Seq(E) /\ Len(s) = Len(r) + Len(q) - 1
      /\ \A i \in 1..Len(s) : s[i] = IF i <= Len(r) THEN r[i] ELSE Tail(q)[i - Len(r)]
  BY <1>1, ConcatProperties DEF Spliced
<1> HIDE DEF s
<1>3. DOMAIN s = 1..Len(s) /\ DOMAIN r = 1..Len(r) /\ DOMAIN q = 1..Len(q)
  BY <1>1, <1>2
<1>4. ASSUME NEW i \in 1..Len(s), i > Len(r)
      PROVE  i - Len(r) + 1 \in 2..Len(q) /\ s[i] = q[i - Len(r) + 1]
  <2>1. i - Len(r) \in 1..(Len(q) - 1)
    BY <1>1, <1>2, <1>4
  <2>2. s[i] = Tail(q)[i - Len(r)]
    BY <1>1, <1>2, <1>4
  <2>3. QED
    BY <1>1, <2>1, <2>2
<1>5. ASSUME NEW i \in 2..Len(q)
      PROVE  i + Len(r) - 1 \in 1..Len(s) /\ s[i + Len(r) - 1] = q[i]
  <2> DEFINE k == i + Len(r) - 1
  <2>1. k \in 1..Len(s) /\ k > Len(r) /\ k - Len(r) + 1 = i
    BY <1>1, <1>2
  <2>2. QED
    BY <1>4, <2>1
<1>6. \A i \in DOMAIN r : i \in DOMAIN s /\ s[i] = r[i]
  BY <1>1, <1>2, <1>3
<1>7. \A i \in DOMAIN s : i \in DOMAIN r \/ (i \notin DOMAIN r /\ i > Len(r))
  BY <1>1, <1>2, <1>3
<1>8. DOMAIN q \ {1} = 2..Len(q)
  BY <1>1, <1>3
<1>9. QED
  BY <1>2, <1>3, <1>4, <1>5, <1>6, <1>7, <1>8 DEF s

Children(x) == {z \in Place : Parent(z) = x /\ tree[z] # Missing}

LEMMA ChildrenListed ==
    ASSUME TreeInv, NEW x \in Places
    PROVE  /\ ReadDir(x) \in Seq(DirEntry)
           /\ \A i \in DOMAIN ReadDir(x) :
                 \E y \in Place : Parent(y) = x /\ ReadDir(x)[i] = Listed(y)
           /\ \A i, j \in DOMAIN ReadDir(x) : i # j => ReadDir(x)[i].path # ReadDir(x)[j].path
           /\ \A y \in Children(x) : \E i \in DOMAIN ReadDir(x) : ReadDir(x)[i] = Listed(y)
<1> DEFINE S == {Listed(y) : y \in Children(x)}
           r == InOrder(S)
<1>1. ReadDir(x) = r
  BY DEF ReadDir, Children
<1>2. S \subseteq DirEntry /\ \A y \in Place : Listed(y).path = y
  BY NodeFacts, PlaceFacts DEF Listed, DirEntry, TreeInv, Places, Children
<1>3. Keyed(S)
  <2>1. IsFiniteSet(Children(x))
    <3>1. Children(x) \in SUBSET Place /\ IsFiniteSet(Place)
      BY GatherAssumption DEF GatherAssumption, Children
    <3>2. QED
      BY <3>1, FS_Subset
  <2> DEFINE f == [y \in Children(x) |-> Listed(y)]
  <2>2. f \in Surjection(Children(x), S)
    BY DEF Surjection
  <2>3. IsFiniteSet(S)
    BY <2>1, <2>2, FS_Surjection
  <2>4. \A a \in S : a.path \in Text
    BY <1>2, PlaceFacts DEF Children
  <2>5. \A a, b \in S : a.path = b.path => a = b
    BY <1>2 DEF Children
  <2>6. QED
    BY <2>3, <2>4, <2>5 DEF Keyed
<1> HIDE DEF S
<1>4. /\ r \in Seq(S)
      /\ \A i, j \in DOMAIN r : i < j => NameLess(r[i].path, r[j].path)
      /\ \A a \in S : \E i \in DOMAIN r : r[i] = a
  BY <1>3, Sorted
<1> HIDE DEF r
<1>5. \A i \in DOMAIN r : r[i] \in S
  BY <1>4
<1>6. r \in Seq(DirEntry)
  BY <1>2, <1>4
<1>7. ASSUME NEW i \in DOMAIN r, NEW j \in DOMAIN r, i # j PROVE r[i].path # r[j].path
  <2>1. i \in Nat /\ j \in Nat /\ r[i].path \in Text /\ r[j].path \in Text
    BY <1>3, <1>4, <1>5 DEF Keyed
  <2>2. NameLess(r[i].path, r[j].path) \/ NameLess(r[j].path, r[i].path)
    BY <1>4, <1>7, <2>1
  <2>3. QED
    BY <2>1, <2>2, NameLessIrreflexive DEF Text
<1>8. QED
  BY <1>1, <1>4, <1>5, <1>6, <1>7 DEF S, Children

LEMMA TailKeeps ==
    ASSUME WalkInv, todo # <<>>, todo' = Tail(todo), matches' = matches, Still
    PROVE  WalkInv'
<1> DEFINE q == Tail(todo)
<1>1. q \in Seq(DirEntry) /\ \A i \in DOMAIN q : i + 1 \in DOMAIN todo /\ q[i] = todo[i + 1]
  BY DEF WalkInv
<1>2. \A i, j \in DOMAIN q : i # j => i + 1 # j + 1
  BY <1>1
<1> HIDE DEF q
<1>3. (\A i \in DOMAIN todo : todo[i].type = "file" => WasFile(todo[i].path))'
  BY <1>1 DEF WalkInv, Still, WasFile, q
<1>4. (\A i, j \in DOMAIN todo : i # j => Apart(todo[i].path, todo[j].path))'
  BY <1>1, <1>2 DEF WalkInv, q
<1>5. (\A i \in DOMAIN matches, j \in DOMAIN todo : Apart(matches[i].path, todo[j].path))'
  BY <1>1 DEF WalkInv, q
<1>6. QED
  BY <1>1, <1>3, <1>4, <1>5 DEF WalkInv, Still, WasFile, HadMode, Selected, q

\* What is under x is apart from everything that x is apart from.
LEMMA ApartBelow ==
    ASSUME NEW x \in Places, NEW y \in Place, Parent(y) = x, NEW z \in Places
    PROVE  /\ Apart(x, z) \/ Apart(z, x) => Apart(y, z) /\ Apart(z, y)
           /\ \A w \in Place : Parent(w) = x /\ w # y => Apart(y, w)
<1>1. Under(y, x) /\ y \in Places
  BY PlaceFacts
<1>2. ASSUME Apart(x, z) \/ Apart(z, x) PROVE Apart(y, z) /\ Apart(z, y)
  <2>1. Under(y, z) => x = z \/ Under(x, z)
    BY Upward
  <2>2. Under(z, y) => Under(z, x)
    BY <1>1, Transitive
  <2>3. QED
    BY <1>1, <1>2, <2>1, <2>2 DEF Apart
<1>3. ASSUME NEW v \in Place, NEW w \in Place, Parent(v) = x, Parent(w) = x, w # v
      PROVE  ~Under(v, w)
  <2>1. w \in Places /\ Under(w, x)
    BY <1>3, PlaceFacts
  <2>2. Under(v, w) => x = w \/ Under(x, w)
    BY <1>3, <2>1, Upward
  <2>3. Len(x) < Len(w) /\ Len(x) \in Nat /\ Len(w) \in Nat
    BY <2>1, Shorter
  <2>4. ~Under(x, w) /\ x # w
    BY <2>1, <2>3, Shorter
  <2>5. QED
    BY <2>2, <2>4
<1>4. QED
  BY <1>2, <1>3 DEF Apart

LEMMA DescendKeeps ==
    ASSUME GatherInv, Descend, Still
    PROVE  GatherInv'
<1> DEFINE x == Head(todo).path
           r == ReadDir(x)
<1>1. CASE Fail
  BY <1>1, FailKeeps
<1>2. CASE ~Fail
  <2>1. /\ phase = "walk" /\ todo # <<>> /\ Head(todo).type = "dir"
        /\ todo' = Spliced(r, todo) /\ matches' = matches /\ entries' = entries /\ phase' = phase
    BY <1>2 DEF Descend, Visiting, Spliced
  <2>2. TreeInv /\ WalkInv /\ CompleteInv /\ EntriesInv /\ PhaseInv
    BY DEF GatherInv
  <2>3. todo \in Seq(DirEntry) /\ matches \in Seq(Match)
    BY <2>2 DEF WalkInv
  <2>4. 1 \in DOMAIN todo /\ todo[1] = Head(todo) /\ todo[1] \in DirEntry
    BY <2>1, <2>3
  <2>5. x \in Places /\ todo[1].path = x /\ todo[1].type = "dir"
    BY <2>1, <2>4 DEF DirEntry, Places
  <2> HIDE DEF x
  <2>6. /\ r \in Seq(DirEntry)
        /\ \A i \in DOMAIN r : \E y \in Place : Parent(y) = x /\ r[i] = Listed(y)
        /\ \A i, j \in DOMAIN r : i # j => r[i].path # r[j].path
        /\ \A y \in Children(x) : \E i \in DOMAIN r : r[i] = Listed(y)
    BY <2>2, <2>5, ChildrenListed
  <2> HIDE DEF r
  <2> DEFINE s == Spliced(r, todo)
  <2>7. /\ s \in Seq(DirEntry)
        /\ \A i \in DOMAIN s :
              \/ i \in DOMAIN r /\ s[i] = r[i]
              \/ /\ i \notin DOMAIN r /\ i - Len(r) + 1 \in DOMAIN todo \ {1}
                 /\ s[i] = todo[i - Len(r) + 1]
        /\ \A i \in DOMAIN r : i \in DOMAIN s /\ s[i] = r[i]
        /\ \A i \in DOMAIN todo \ {1} : i + Len(r) - 1 \in DOMAIN s /\ s[i + Len(r) - 1] = todo[i]
    BY <2>1, <2>3, <2>6, Splice
  <2>8. \A y \in Place : Listed(y).path = y /\ Listed(y).type = TypeOf(tree[y])
    BY DEF Listed
  <2>9. \A i \in DOMAIN todo : todo[i].path \in Places
    <3>1. \A i \in DOMAIN todo : todo[i] \in DirEntry
      BY <2>3
    <3>2. QED
      BY <3>1 DEF DirEntry, Places
  <2>10. \A i \in DOMAIN matches : matches[i].path \in Places
    <3>1. \A i \in DOMAIN matches : matches[i] \in Match
      BY <2>3
    <3>2. QED
      BY <3>1 DEF Match, Places
  <2>11. \A i \in DOMAIN s, j \in DOMAIN s :
             i \in Int /\ j \in Int /\ Len(r) \in Int /\ (i # j => i - Len(r) + 1 # j - Len(r) + 1)
    BY <2>6, <2>7
  <2> HIDE DEF s
  <2>12. \A i, j \in DOMAIN s : i # j => Apart(s[i].path, s[j].path)
    <3> SUFFICES ASSUME NEW i \in DOMAIN s, NEW j \in DOMAIN s, i # j
                 PROVE  Apart(s[i].path, s[j].path)
      OBVIOUS
    <3> DEFINE k == i - Len(r) + 1
               l == j - Len(r) + 1
    <3>1. \/ i \in DOMAIN r /\ s[i] = r[i]
          \/ k \in DOMAIN todo \ {1} /\ s[i] = todo[k]
      BY <2>7
    <3>2. \/ j \in DOMAIN r /\ s[j] = r[j]
          \/ l \in DOMAIN todo \ {1} /\ s[j] = todo[l]
      BY <2>7
    <3>3. k # l
      BY <2>11
    <3> HIDE DEF k, l
    <3>4. \A m \in DOMAIN todo \ {1} :
              todo[m].path \in Places /\ Apart(x, todo[m].path)
      BY <2>2, <2>4, <2>5, <2>9 DEF WalkInv
    <3>5. CASE i \in DOMAIN r /\ s[i] = r[i] /\ j \in DOMAIN r /\ s[j] = r[j]
      BY <2>5, <2>6, <2>8, <3>5, ApartBelow
    <3>6. CASE i \in DOMAIN r /\ s[i] = r[i] /\ l \in DOMAIN todo \ {1} /\ s[j] = todo[l]
      BY <2>5, <2>6, <2>8, <3>4, <3>6, ApartBelow
    <3>7. CASE k \in DOMAIN todo \ {1} /\ s[i] = todo[k] /\ j \in DOMAIN r /\ s[j] = r[j]
      BY <2>5, <2>6, <2>8, <3>4, <3>7, ApartBelow
    <3>8. CASE k \in DOMAIN todo \ {1} /\ s[i] = todo[k] /\ l \in DOMAIN todo \ {1} /\ s[j] = todo[l]
      BY <2>2, <3>3, <3>8 DEF WalkInv
    <3>9. QED
      BY <3>1, <3>2, <3>5, <3>6, <3>7, <3>8
  <2>13. \A i \in DOMAIN matches, j \in DOMAIN s : Apart(matches[i].path, s[j].path)
    <3> SUFFICES ASSUME NEW i \in DOMAIN matches, NEW j \in DOMAIN s
                 PROVE  Apart(matches[i].path, s[j].path)
      OBVIOUS
    <3>1. Apart(matches[i].path, x)
      BY <2>2, <2>4, <2>5 DEF WalkInv
    <3>2. CASE j \in DOMAIN r /\ s[j] = r[j]
      BY <2>5, <2>6, <2>8, <2>10, <3>1, <3>2, ApartBelow
    <3>3. CASE j - Len(r) + 1 \in DOMAIN todo \ {1} /\ s[j] = todo[j - Len(r) + 1]
      BY <2>2, <3>3 DEF WalkInv
    <3>4. QED
      BY <2>7, <3>2, <3>3
  <2>14. \A i \in DOMAIN s : s[i].type = "file" => WasFile(s[i].path)
    <3> SUFFICES ASSUME NEW i \in DOMAIN s, s[i].type = "file" PROVE WasFile(s[i].path)
      OBVIOUS
    <3>1. CASE i \in DOMAIN r /\ s[i] = r[i]
      <4>1. PICK y \in Place : r[i] = Listed(y)
        BY <2>6, <3>1
      <4>2. y \in Places /\ tree[y] \in Node /\ tree[y] \in versions[y]
        BY <2>2, PlaceFacts DEF TreeInv
      <4>3. QED
        BY <2>8, <3>1, <4>1, <4>2, NodeFacts DEF WasFile
    <3>2. CASE i - Len(r) + 1 \in DOMAIN todo \ {1} /\ s[i] = todo[i - Len(r) + 1]
      BY <2>2, <3>2 DEF WalkInv
    <3>3. QED
      BY <2>7, <3>1, <3>2
  <2>15. WalkInv'
    BY <2>1, <2>2, <2>7, <2>12, <2>13, <2>14 DEF WalkInv, Still, WasFile, HadMode, Selected, s
  <2>16. CompleteInv'
    <3> SUFFICES ASSUME NEW y \in Place, NEW f \in File, versions[y] = {f}, Selected(y)
                 PROVE  Found(y, f)'
      BY DEF CompleteInv, Still, Selected
    <3>1. Found(y, f)
      BY <2>1, <2>2 DEF CompleteInv
    <3>2. tree[y] = f /\ tree \in [Places -> Node] /\ WellRooted(tree) /\ y \in Places
      BY <2>2, PlaceFacts DEF TreeInv
    <3>3. CASE \E i \in DOMAIN matches : matches[i].path = y /\ matches[i].mode = f.mode
      BY <2>1, <3>3 DEF Found
    <3>4. CASE \E i \in DOMAIN todo : todo[i].path = y /\ todo[i].type = "file"
      <4>1. PICK i \in DOMAIN todo : todo[i].path = y /\ todo[i].type = "file"
        BY <3>4
      <4>2. i # 1
        BY <2>5, <4>1
      <4>3. i + Len(r) - 1 \in DOMAIN s /\ s[i + Len(r) - 1] = todo[i]
        BY <2>7, <4>2
      <4>4. QED
        BY <2>1, <4>1, <4>3 DEF Found, s
    <3>5. CASE \E i \in DOMAIN todo : todo[i].type = "dir" /\ Under(y, todo[i].path)
      <4>1. PICK i \in DOMAIN todo : todo[i].type = "dir" /\ Under(y, todo[i].path)
        BY <3>5
      <4>2. CASE i # 1
        <5>1. i + Len(r) - 1 \in DOMAIN s /\ s[i + Len(r) - 1] = todo[i]
          BY <2>7, <4>2
        <5>2. QED
          BY <2>1, <4>1, <5>1 DEF Found, s
      <4>3. CASE i = 1
        <5>1. PICK z \in Place : Parent(z) = x /\ (z = y \/ Under(y, z))
          BY <2>5, <4>1, <4>3, StepDown
        <5>2. z = y => TypeOf(tree[z]) = "file" /\ tree[z] # Missing
          BY <3>2, NodeFacts
        <5>3. Under(y, z) => TypeOf(tree[z]) = "dir" /\ tree[z] # Missing
          BY <3>2, <5>1, PlaceFacts, NodeFacts, Chain
        <5>4. PICK j \in DOMAIN r : r[j] = Listed(z)
          BY <2>6, <5>1, <5>2, <5>3 DEF Children
        <5>5. j \in DOMAIN s /\ s[j].path = z /\ s[j].type = TypeOf(tree[z])
          BY <2>7, <2>8, <5>4
        <5>6. QED
          BY <2>1, <5>1, <5>2, <5>3, <5>5 DEF Found, s
      <4>4. QED
        BY <4>2, <4>3
    <3>6. QED
      BY <3>1, <3>3, <3>4, <3>5 DEF Found
  <2>17. EntriesInv'
    BY <2>1, <2>2 DEF EntriesInv, Still, HadData
  <2>18. PhaseInv'
    BY <2>1, <2>2 DEF PhaseInv, Still
  <2>19. QED
    BY <2>15, <2>16, <2>17, <2>18, TreeStays DEF GatherInv
<1>3. QED
  BY <1>1, <1>2

\* A file f that is to be found is found still, unless it is at the head of todo.
LEMMA TailFound ==
    ASSUME WalkInv, todo # <<>>, todo' = Tail(todo),
           \A i \in DOMAIN matches : i \in DOMAIN matches' /\ matches'[i] = matches[i],
           todo[1].type # "dir", NEW x \in Place, NEW f \in File, Found(x, f),
           ~(todo[1].type = "file" /\ todo[1].path = x)
    PROVE  Found(x, f)'
<1>1. \A i \in DOMAIN todo : i # 1 => i - 1 \in DOMAIN Tail(todo) /\ Tail(todo)[i - 1] = todo[i]
  BY DEF WalkInv
<1>2. CASE \E i \in DOMAIN matches : matches[i].path = x /\ matches[i].mode = f.mode
  BY <1>2 DEF Found
<1>3. CASE \E i \in DOMAIN todo : todo[i].path = x /\ todo[i].type = "file"
  <2>1. PICK i \in DOMAIN todo : todo[i].path = x /\ todo[i].type = "file"
    BY <1>3
  <2>2. i - 1 \in DOMAIN todo' /\ todo'[i - 1] = todo[i]
    BY <1>1, <2>1
  <2>3. QED
    BY <2>1, <2>2 DEF Found
<1>4. CASE \E i \in DOMAIN todo : todo[i].type = "dir" /\ Under(x, todo[i].path)
  <2>1. PICK i \in DOMAIN todo : todo[i].type = "dir" /\ Under(x, todo[i].path)
    BY <1>4
  <2>2. i - 1 \in DOMAIN todo' /\ todo'[i - 1] = todo[i]
    BY <1>1, <2>1
  <2>3. QED
    BY <2>1, <2>2 DEF Found
<1>5. QED
  BY <1>2, <1>3, <1>4 DEF Found

LEMMA PassOverKeeps ==
    ASSUME GatherInv, PassOver, Still
    PROVE  GatherInv'
<1>1. /\ phase = "walk" /\ todo # <<>> /\ todo' = Tail(todo) /\ matches' = matches
      /\ entries' = entries /\ phase' = phase
      /\ Head(todo).type # "dir"
      /\ Head(todo).type = "file" => (Head(todo).path = Root \/ ~Selected(Head(todo).path))
  BY DEF PassOver, Visiting
<1>2. TreeInv /\ WalkInv /\ CompleteInv /\ EntriesInv /\ PhaseInv
  BY DEF GatherInv
<1>3. Head(todo) = todo[1]
  BY <1>1, <1>2 DEF WalkInv
<1>4. WalkInv'
  BY <1>1, <1>2, TailKeeps
<1>5. CompleteInv'
  <2> SUFFICES ASSUME NEW x \in Place, NEW f \in File, versions[x] = {f}, Selected(x)
               PROVE  Found(x, f)'
    BY DEF CompleteInv, Still, Selected
  <2>1. Found(x, f)
    BY <1>1, <1>2 DEF CompleteInv
  <2>2. ~(todo[1].type = "file" /\ todo[1].path = x)
    BY <1>1, <1>3, PlaceFacts
  <2>3. QED
    BY <1>1, <1>2, <1>3, <2>1, <2>2, TailFound
<1>6. EntriesInv'
  BY <1>1, <1>2 DEF EntriesInv, Still, HadData
<1>7. PhaseInv'
  BY <1>1, <1>2 DEF PhaseInv, Still
<1>8. QED
  BY <1>4, <1>5, <1>6, <1>7, TreeStays DEF GatherInv

LEMMA SelectKeeps ==
    ASSUME GatherInv, Select, Still
    PROVE  GatherInv'
<1> DEFINE x == Head(todo).path
           m == [path |-> x, mode |-> ModeOf(tree[x])]
           n == Len(matches) + 1
<1>1. CASE Fail
  BY <1>1, FailKeeps
<1>2. CASE ~Fail
  <2>1. /\ phase = "walk" /\ todo # <<>> /\ todo' = Tail(todo) /\ matches' = Append(matches, m)
        /\ entries' = entries /\ phase' = phase
        /\ Head(todo).type = "file" /\ x # Root /\ Selected(x)
    BY <1>2 DEF Select, Visiting
  <2>2. TreeInv /\ WalkInv /\ CompleteInv /\ EntriesInv /\ PhaseInv
    BY DEF GatherInv
  <2>3. /\ todo \in Seq(DirEntry) /\ matches \in Seq(Match) /\ n \in Nat \ {0}
        /\ Head(todo) = todo[1] /\ 1 \in DOMAIN todo /\ todo[1] \in DirEntry
    BY <2>1, <2>2 DEF WalkInv
  <2>4. x \in Place /\ x \in Places /\ todo[1].path = x /\ todo[1].type = "file"
    BY <2>1, <2>3 DEF DirEntry, Places
  <2> HIDE DEF x
  <2>5. tree[x] \in Node /\ tree[x] \in versions[x]
    BY <2>2, <2>4 DEF TreeInv
  <2>6. m \in Match /\ m.path = x /\ m.mode = ModeOf(tree[x])
    BY <2>4, <2>5, NodeFacts DEF Match
  <2> HIDE DEF m
  <2>7. /\ matches' \in Seq(Match)
        /\ \A i \in DOMAIN matches : i \in DOMAIN matches' /\ matches'[i] = matches[i]
        /\ n \in DOMAIN matches' /\ matches'[n] = m
        /\ \A i \in DOMAIN matches' : i = n \/ i \in DOMAIN matches
    BY <2>1, <2>3, <2>6
  <2> HIDE DEF n
  <2>8. /\ todo' \in Seq(DirEntry)
        /\ \A i \in DOMAIN todo' : \E k \in DOMAIN todo : k = i + 1 /\ k # 1 /\ todo'[i] = todo[k]
        /\ \A i, j \in DOMAIN todo' : i # j => i + 1 # j + 1
    BY <2>1, <2>3
  <2>9. WalkInv'
    <3>1. (\A i \in DOMAIN todo : todo[i].type = "file" => WasFile(todo[i].path))'
      <4>1. ASSUME NEW i \in DOMAIN todo', todo'[i].type = "file" PROVE WasFile(todo'[i].path)
        <5>1. PICK k \in DOMAIN todo : todo'[i] = todo[k]
          BY <2>8
        <5>2. QED
          BY <2>2, <4>1, <5>1 DEF WalkInv
      <4>2. QED
        BY <4>1 DEF WasFile, Still
    <3>2. (\A i, j \in DOMAIN todo : i # j => Apart(todo[i].path, todo[j].path))'
      BY <2>2, <2>8 DEF WalkInv
    <3>3. (\A i \in DOMAIN matches :
             /\ Selected(matches[i].path) /\ WasFile(matches[i].path)
             /\ HadMode(matches[i].path, matches[i].mode))'
      <4>1. Selected(x) /\ WasFile(x) /\ HadMode(x, m.mode)
        BY <2>1, <2>2, <2>3, <2>4, <2>5, <2>6 DEF WalkInv, HadMode
      <4>2. \A i \in DOMAIN matches :
             /\ Selected(matches[i].path) /\ WasFile(matches[i].path)
             /\ HadMode(matches[i].path, matches[i].mode)
        BY <2>2 DEF WalkInv
      <4>3. \A i \in DOMAIN matches' :
             /\ Selected(matches'[i].path) /\ WasFile(matches'[i].path)
             /\ HadMode(matches'[i].path, matches'[i].mode)
        BY <2>6, <2>7, <4>1, <4>2
      <4>4. QED
        BY <4>3 DEF Selected, WasFile, HadMode, Still
    <3>4. \A i \in DOMAIN matches : Apart(matches[i].path, x) /\ Apart(x, matches[i].path)
      BY <2>2, <2>3, <2>4 DEF WalkInv, Apart
    <3>5. (\A i, j \in DOMAIN matches : i # j => Apart(matches[i].path, matches[j].path))'
      BY <2>2, <2>6, <2>7, <3>4 DEF WalkInv
    <3>6. (\A i \in DOMAIN matches, j \in DOMAIN todo : Apart(matches[i].path, todo[j].path))'
      <4>1. \A j \in DOMAIN todo' : Apart(x, todo'[j].path)
        BY <2>2, <2>3, <2>4, <2>8 DEF WalkInv
      <4>2. \A i \in DOMAIN matches, j \in DOMAIN todo' : Apart(matches[i].path, todo'[j].path)
        BY <2>2, <2>8 DEF WalkInv
      <4>3. QED
        BY <2>6, <2>7, <4>1, <4>2
    <3>7. QED
      BY <2>7, <2>8, <3>1, <3>2, <3>3, <3>5, <3>6 DEF WalkInv
  <2>10. CompleteInv'
    <3> SUFFICES ASSUME NEW y \in Place, NEW f \in File, versions[y] = {f}, Selected(y)
                 PROVE  Found(y, f)'
      BY DEF CompleteInv, Still, Selected
    <3>1. Found(y, f)
      BY <2>1, <2>2 DEF CompleteInv
    <3>2. CASE y = x
      <4>1. tree[x] = f
        BY <2>5, <3>2
      <4>2. m.path = y /\ m.mode = f.mode
        BY <2>6, <3>2, <4>1, NodeFacts
      <4>3. QED
        BY <2>7, <4>2 DEF Found
    <3>3. CASE y # x
      BY <2>1, <2>2, <2>4, <2>7, <3>1, <3>3, TailFound
    <3>4. QED
      BY <3>2, <3>3
  <2>11. EntriesInv'
    BY <2>1, <2>2, <2>7 DEF EntriesInv, PhaseInv
  <2>12. PhaseInv'
    BY <2>1, <2>2 DEF PhaseInv, Still
  <2>13. QED
    BY <2>9, <2>10, <2>11, <2>12, TreeStays DEF GatherInv
<1>3. QED
  BY <1>1, <1>2

\* t is q with e at p.
IsWith(t, q, p, e) ==
    /\ Len(t) = Len(q) + 1
    /\ \A i \in 1..(Len(q) + 1) : t[i] = IF i < p THEN q[i] ELSE IF i = p THEN e ELSE q[i - 1]

LEMMA InsertAtMeans ==
    ASSUME NEW E, NEW q \in Seq(E), NEW e \in E, NEW p \in 1..(Len(q) + 1)
    PROVE  InsertAt(q, p, e) \in Seq(E) /\ IsWith(InsertAt(q, p, e), q, p, e)
<1> DEFINE l == SubSeq(q, 1, p - 1)
           r == SubSeq(q, p, Len(q))
           n == Len(q)
<1>1. n \in Nat /\ p \in Nat
  OBVIOUS
<1>2. /\ l \in Seq(E) /\ Len(l) = p - 1
      /\ \A i \in 1..(p - 1) : l[i] = q[i]
  <2>1. \A i \in 1..(p - 1) : q[i] \in E
    OBVIOUS
  <2>2. 1 \in Int /\ p - 1 \in Int
    OBVIOUS
  <2>3. QED
    BY <2>1, <2>2, SubSeqProperties
<1>3. /\ r \in Seq(E) /\ Len(r) = n - p + 1
      /\ \A i \in 1..(n - p + 1) : r[i] = q[p + i - 1]
  <2>1. \A i \in p..n : q[i] \in E
    OBVIOUS
  <2>2. p \in Int /\ n \in Int
    OBVIOUS
  <2>3. QED
    BY <2>1, <2>2, SubSeqProperties
<1> HIDE DEF l, r
<1>4. InsertAt(q, p, e) = (l \o <<e>>) \o r
  BY DEF InsertAt, l, r
<1> DEFINE h == l \o <<e>>
<1>5. /\ h \in Seq(E) /\ Len(h) = p
      /\ \A i \in 1..p : h[i] = IF i < p THEN q[i] ELSE e
  <2>1. <<e>> \in Seq(E) /\ Len(<<e>>) = 1 /\ <<e>>[1] = e
    OBVIOUS
  <2>2. QED
    BY <1>1, <1>2, <2>1, ConcatProperties
<1> HIDE DEF h
<1> DEFINE t == h \o r
<1>6. /\ t \in Seq(E) /\ Len(t) = n + 1
      /\ \A i \in 1..(n + 1) : t[i] = IF i <= p THEN h[i] ELSE r[i - p]
  <2>1. /\ t \in Seq(E) /\ Len(t) = Len(h) + Len(r)
        /\ \A i \in 1..(Len(h) + Len(r)) :
              t[i] = IF i <= Len(h) THEN h[i] ELSE r[i - Len(h)]
    BY <1>3, <1>5, ConcatProperties
  <2>2. Len(h) + Len(r) = n + 1 /\ Len(h) = p
    <3>1. Len(h) = p /\ Len(r) = n - p + 1
      BY <1>3, <1>5
    <3>2. p + (n - p + 1) = n + 1
      BY <1>1
    <3>3. QED
      BY <3>1, <3>2
  <2> HIDE DEF t, n
  <2>3. QED
    BY <2>1, <2>2
<1> HIDE DEF t
<1>7. ASSUME NEW i \in 1..(n + 1)
      PROVE  t[i] = IF i < p THEN q[i] ELSE IF i = p THEN e ELSE q[i - 1]
  <2>1. CASE i <= p
    <3>1. i \in 1..p /\ t[i] = h[i]
      BY <1>1, <1>6, <2>1
    <3>2. QED
      BY <1>1, <1>5, <2>1, <3>1
  <2>2. CASE i > p
    <3>1. i - p \in 1..(n - p + 1) /\ p + (i - p) - 1 = i - 1
      BY <1>1, <2>2
    <3>2. t[i] = r[i - p]
      BY <1>1, <1>6, <2>2
    <3>3. r[i - p] = q[p + (i - p) - 1]
      BY <1>3, <3>1
    <3>4. t[i] = q[i - 1] /\ ~(i < p) /\ i # p
      BY <1>1, <2>2, <3>1, <3>2, <3>3
    <3>5. QED
      BY <3>4
  <2>3. i <= p \/ i > p
    BY <1>1
  <2>4. QED
    BY <2>1, <2>2, <2>3
<1>8. InsertAt(q, p, e) = t
  BY <1>4 DEF h, t
<1>9. QED
  BY <1>6, <1>7, <1>8 DEF IsWith

\* The inner loop puts m somewhere, and in order if the rest is.
LEMMA InsertedMeans ==
    ASSUME NEW q \in Seq(Match), NEW m \in Match
    PROVE  \E p \in 1..(Len(q) + 1) :
              /\ Inserted(q, m) = InsertAt(q, p, m)
              /\ p > 1 => ~NameLess(m.path, q[p - 1].path)
              /\ \A j \in p..Len(q) : NameLess(m.path, q[j].path)
<1> DEFINE staying == {j \in DOMAIN q : ~NameLess(m.path, q[j].path)}
           p == IF staying = {} THEN 1 ELSE Max(staying) + 1
<1>1. Inserted(q, m) = InsertAt(q, p, m)
  BY DEF Inserted
<1>2. Len(q) \in Nat /\ DOMAIN q = 1..Len(q) /\ staying \in SUBSET (1..Len(q))
  OBVIOUS
<1>3. \A j \in 1..Len(q) : j \in staying <=> ~NameLess(m.path, q[j].path)
  BY <1>2
<1> HIDE DEF staying
<1>4. CASE staying = {}
  BY <1>1, <1>2, <1>3, <1>4
<1>5. CASE staying # {}
  <2>1. Max(staying) \in staying /\ \A y \in staying : Max(staying) >= y
    BY <1>2, <1>5, MaxIsIn
  <2>2. p = Max(staying) + 1 /\ Max(staying) \in 1..Len(q)
    BY <1>2, <1>5, <2>1
  <2>3. p \in 1..(Len(q) + 1) /\ ~NameLess(m.path, q[p - 1].path)
    <3>1. p - 1 = Max(staying)
      BY <1>2, <2>2
    <3>2. QED
      BY <1>2, <1>3, <2>1, <2>2, <3>1
  <2>4. ASSUME NEW j \in p..Len(q) PROVE NameLess(m.path, q[j].path)
    <3>1. j \in 1..Len(q) /\ ~(Max(staying) >= j)
      BY <1>2, <2>2, <2>3
    <3>2. QED
      BY <1>3, <2>1, <3>1
  <2>5. QED
    BY <1>1, <2>3, <2>4
<1>6. QED
  BY <1>4, <1>5

LEMMA InsertedType ==
    ASSUME NEW q \in Seq(Match), NEW m \in Match
    PROVE  Inserted(q, m) \in Seq(Match)
  BY InsertedMeans, InsertAtMeans

LEMMA InsertedInOrder ==
    ASSUME NEW q \in Seq(Match), NEW m \in Match,
           Ordered(q), \A i \in DOMAIN q : q[i].path # m.path
    PROVE  Ordered(Inserted(q, m))
<1> DEFINE n == Len(q)
           r == Inserted(q, m)
<1>1. PICK p \in 1..(n + 1) :
         /\ r = InsertAt(q, p, m)
         /\ p > 1 => ~NameLess(m.path, q[p - 1].path)
         /\ \A j \in p..n : NameLess(m.path, q[j].path)
  BY InsertedMeans
<1>2. n \in Nat /\ DOMAIN q = 1..n /\ p \in Nat
  OBVIOUS
<1> HIDE DEF r
<1>3. /\ r \in Seq(Match) /\ Len(r) = n + 1
      /\ \A i \in 1..(n + 1) : r[i] = IF i < p THEN q[i] ELSE IF i = p THEN m ELSE q[i - 1]
  <2>1. r \in Seq(Match) /\ IsWith(r, q, p, m)
    BY <1>1, InsertAtMeans
  <2>2. QED
    BY <2>1 DEF IsWith
<1>4. m.path \in Text /\ \A i \in 1..n : q[i].path \in Text
  <2>1. \A i \in 1..n : q[i] \in Match
    BY <1>2
  <2>2. QED
    BY <2>1, PlaceFacts DEF Match, Places
<1>5. ASSUME NEW i \in 1..n, i < p PROVE NameLess(q[i].path, m.path)
  <2>1. p > 1 /\ p - 1 \in 1..n
    BY <1>2, <1>5
  <2>2. NameLess(q[p - 1].path, m.path)
    BY <1>1, <1>2, <1>4, <2>1, NameLessTotal DEF Text
  <2>3. CASE i = p - 1
    BY <2>2, <2>3
  <2>4. CASE i # p - 1
    <3>1. i < p - 1
      BY <1>2, <1>5, <2>4
    <3>2. NameLess(q[i].path, q[p - 1].path)
      BY <1>2, <2>1, <3>1 DEF Ordered
    <3>3. QED
      BY <1>4, <2>1, <2>2, <3>2, NameLessTransitive DEF Text
  <2>5. QED
    BY <2>3, <2>4
<1>6. ASSUME NEW i \in 1..(n + 1), NEW j \in 1..(n + 1), i < j
      PROVE  NameLess(r[i].path, r[j].path)
  <2>1. CASE j < p
    <3>1. i < p /\ i \in 1..n /\ j \in 1..n
      BY <1>2, <1>6, <2>1
    <3>2. QED
      BY <1>2, <1>3, <1>6, <2>1, <3>1 DEF Ordered
  <2>2. CASE j = p
    <3>1. i < p /\ i \in 1..n
      BY <1>2, <1>6, <2>2
    <3>2. QED
      BY <1>3, <1>5, <2>2, <3>1
  <2>3. CASE j > p
    <3>1. j - 1 \in p..n /\ j - 1 \in 1..n /\ r[j] = q[j - 1]
      BY <1>2, <1>3, <2>3
    <3>2. CASE i = p
      BY <1>1, <1>3, <3>1, <3>2
    <3>3. CASE i < p
      <4>1. i \in 1..n /\ i < j - 1 /\ r[i] = q[i]
        BY <1>2, <1>3, <2>3, <3>1, <3>3
      <4>2. QED
        BY <1>2, <3>1, <4>1 DEF Ordered
    <3>4. CASE i > p
      <4>1. i - 1 \in 1..n /\ i - 1 < j - 1 /\ r[i] = q[i - 1]
        BY <1>2, <1>3, <1>6, <3>4
      <4>2. QED
        BY <1>2, <3>1, <4>1 DEF Ordered
    <3>5. QED
      BY <1>2, <3>2, <3>3, <3>4
  <2>4. QED
    BY <1>2, <2>1, <2>2, <2>3
<1>7. QED
  BY <1>3, <1>6 DEF Ordered, r

\* The outer loop inserts one match after the other.
LEMMA SortRun ==
    ASSUME NEW ms \in Seq(Match)
    PROVE  \E F : /\ F[0] = <<>> /\ SortedMatches(ms) = F[Len(ms)]
                  /\ \A k \in 1..Len(ms) : F[k] = Inserted(F[k - 1], ms[k])
<1> DEFINE V == Seq(Match)
           Op == [p \in V \X Match |-> Inserted(p[1], p[2])]
           n == Len(ms)
<1> DEFINE Rec(h) ==
      h = [s \in SUBSET DOMAIN ms |->
             IF s = {} THEN <<>> ELSE Inserted(h[s \ {Max(s)}], ms[Max(s)])]
<1>1. SortedMatches(ms) = (CHOOSE h : Rec(h))[DOMAIN ms]
  BY DEF SortedMatches, FoldLeft, MapThenFoldSet
<1>2. <<>> \in V /\ DOMAIN ms = 1..n /\ n \in Nat
  OBVIOUS
<1>3. Op \in [V \X Match -> V]
  BY InsertedType
<1>4. \A v \in V, c \in Match : Op[<<v, c>>] = Inserted(v, c)
  OBVIOUS
<1> HIDE DEF V, Op
<1>5. \E h : Rec(h)
  <2>1. PICK g \in [SUBSET (1..n) -> V] : IsFold(g, Op, <<>>, ms, n)
    <3>1. n \in 0..Len(ms)
      BY <1>2
    <3>2. QED
      BY <1>2, <1>3, <3>1, FoldExists
  <2>2. ASSUME NEW s \in SUBSET (1..n), s # {}
        PROVE  g[s \ {Max(s)}] \in V /\ ms[Max(s)] \in Match
    <3>1. Max(s) \in 1..n
      BY <1>2, <2>2, MaxIsIn
    <3>2. s \ {Max(s)} \in SUBSET (1..n)
      OBVIOUS
    <3>3. QED
      BY <3>1, <3>2
  <2>3. \A s \in SUBSET (1..n) :
             g[s] = IF s = {} THEN <<>> ELSE Inserted(g[s \ {Max(s)}], ms[Max(s)])
    BY <1>4, <2>1, <2>2 DEF IsFold
  <2>4. Rec(g)
    BY <1>2, <2>3
  <2>5. QED
    BY <2>4
<1>6. PICK h : Rec(h) /\ SortedMatches(ms) = h[DOMAIN ms]
  BY <1>1, <1>5
<1> DEFINE F == [k \in 0..n |-> h[1..k]]
<1>7. F[0] = <<>>
  BY <1>2, <1>6
<1>8. ASSUME NEW k \in 1..n PROVE F[k] = Inserted(F[k - 1], ms[k])
  <2>1. 1..k \in SUBSET (1..n) /\ 1..k # {} /\ Max(1..k) = k /\ (1..k) \ {k} = 1..(k - 1)
    BY <1>2, Intervals
  <2>2. h[1..k] = Inserted(h[1..(k - 1)], ms[k])
    BY <1>2, <1>6, <2>1
  <2>3. QED
    BY <2>2
<1>9. SortedMatches(ms) = F[n]
  BY <1>2, <1>6
<1>10. QED
  BY <1>7, <1>8, <1>9

LEMMA MatchesSorted ==
    ASSUME WalkInv, NEW r, r = SortedMatches(matches)
    PROVE  /\ r \in Seq(Match)
           /\ \A i \in DOMAIN r : \E k \in DOMAIN matches : r[i] = matches[k]
           /\ \A k \in DOMAIN matches : \E i \in DOMAIN r : r[i] = matches[k]
           /\ Ordered(r)
           /\ \A i, j \in DOMAIN r : i # j => r[i].path # r[j].path
<1> DEFINE n == Len(matches)
<1>1. matches \in Seq(Match) /\ n \in Nat /\ DOMAIN matches = 1..n
      /\ \A k \in 1..n : matches[k] \in Match
  BY DEF WalkInv
<1>2. \A i, j \in 1..n : i # j => matches[i].path # matches[j].path
  BY <1>1 DEF WalkInv, Apart
<1>3. PICK F : /\ F[0] = <<>> /\ r = F[n]
               /\ \A k \in 1..n : F[k] = Inserted(F[k - 1], matches[k])
  BY <1>1, SortRun
<1> DEFINE Good(k) == /\ F[k] \in Seq(Match) /\ Ordered(F[k])
                      /\ \A i \in DOMAIN F[k] : \E l \in 1..k : F[k][i] = matches[l]
                      /\ \A l \in 1..k : \E i \in DOMAIN F[k] : F[k][i] = matches[l]
           T == {k \in 0..n : Good(k)}
<1>4. 0 \in T
  <2>1. <<>> \in Seq(Match) /\ DOMAIN <<>> = {} /\ 1..0 = {} /\ 0 \in 0..n
    BY <1>1
  <2>2. QED
    BY <1>3, <2>1 DEF Ordered
<1>5. ASSUME NEW k \in 1..n, k - 1 \in T PROVE k \in T
  <2> DEFINE q == F[k - 1]
             m == matches[k]
             w == Len(q)
  <2>1. Good(k - 1) /\ k - 1 \in Nat /\ m \in Match /\ F[k] = Inserted(q, m)
    BY <1>1, <1>3, <1>5
  <2>2. q \in Seq(Match) /\ w \in Nat /\ DOMAIN q = 1..w
    BY <2>1
  <2>3. \A i \in DOMAIN q : q[i].path # m.path
    <3> SUFFICES ASSUME NEW i \in DOMAIN q PROVE q[i].path # m.path
      OBVIOUS
    <3>1. PICK l \in 1..(k - 1) : q[i] = matches[l]
      BY <2>1
    <3>2. l \in 1..n /\ k \in 1..n /\ l # k
      BY <1>1
    <3>3. QED
      BY <1>2, <3>1, <3>2
  <2>4. F[k] \in Seq(Match) /\ Ordered(F[k])
    BY <2>1, <2>2, <2>3, InsertedType, InsertedInOrder
  <2>5. PICK p \in 1..(w + 1) : F[k] = InsertAt(q, p, m)
    BY <2>1, <2>2, InsertedMeans
  <2>6. /\ Len(F[k]) = w + 1 /\ DOMAIN F[k] = 1..(w + 1)
        /\ \A i \in 1..(w + 1) :
              F[k][i] = IF i < p THEN q[i] ELSE IF i = p THEN m ELSE q[i - 1]
    <3>1. IsWith(F[k], q, p, m)
      BY <2>1, <2>2, <2>5, InsertAtMeans
    <3>2. Len(F[k]) = w + 1
      BY <3>1 DEF IsWith
    <3>3. QED
      BY <2>2, <2>4, <3>1, <3>2 DEF IsWith
  <2>7. ASSUME NEW i \in DOMAIN F[k] PROVE \E l \in 1..k : F[k][i] = matches[l]
    <3>1. CASE i = p
      BY <1>1, <2>6, <3>1
    <3>2. CASE i # p
      <4>1. PICK j \in 1..w : F[k][i] = q[j]
        <5>1. CASE i < p
          BY <2>2, <2>6, <3>2, <5>1
        <5>2. CASE i > p
          <6>1. i - 1 \in 1..w /\ F[k][i] = q[i - 1]
            BY <2>2, <2>6, <5>2
          <6>2. QED
            BY <6>1
        <5>3. QED
          BY <2>2, <2>6, <3>2, <5>1, <5>2
      <4>2. PICK l \in 1..(k - 1) : q[j] = matches[l]
        BY <2>1, <2>2
      <4>3. QED
        BY <4>1, <4>2
    <3>3. QED
      BY <3>1, <3>2
  <2>8. ASSUME NEW l \in 1..k PROVE \E i \in DOMAIN F[k] : F[k][i] = matches[l]
    <3>1. CASE l = k
      <4>1. p \in DOMAIN F[k] /\ F[k][p] = m
        BY <2>2, <2>6
      <4>2. QED
        BY <3>1, <4>1
    <3>2. CASE l # k
      <4>1. l \in 1..(k - 1)
        BY <3>2
      <4>2. PICK j \in 1..w : q[j] = matches[l]
        BY <2>1, <2>2, <4>1
      <4>3. CASE j < p
        <5>1. j \in 1..(w + 1) /\ F[k][j] = q[j]
          BY <2>2, <2>6, <4>3
        <5>2. QED
          BY <2>6, <4>2, <5>1
      <4>4. CASE ~(j < p)
        <5>1. j + 1 \in 1..(w + 1) /\ F[k][j + 1] = q[j]
          <6>1. j + 1 \in 1..(w + 1) /\ ~(j + 1 < p) /\ j + 1 # p /\ (j + 1) - 1 = j
            BY <2>2, <4>4
          <6>2. QED
            BY <2>6, <6>1
        <5>2. QED
          BY <2>6, <4>2, <5>1
      <4>5. QED
        BY <4>3, <4>4
    <3>3. QED
      BY <3>1, <3>2
  <2>9. QED
    BY <1>1, <2>4, <2>7, <2>8
<1> HIDE DEF T
<1>6. n \in T
  <2>1. n \in Nat
    BY <1>1
  <2> HIDE DEF n
  <2>2. \A k \in 0..n : k \in T
    BY <1>4, <1>5, <2>1, Upwards
  <2>3. QED
    BY <2>1, <2>2
<1>7. Good(n)
  BY <1>6 DEF T
<1> HIDE DEF Good
<1>8. /\ r \in Seq(Match) /\ Ordered(r)
      /\ \A i \in DOMAIN r : \E l \in 1..n : r[i] = matches[l]
      /\ \A l \in 1..n : \E i \in DOMAIN r : r[i] = matches[l]
  BY <1>3, <1>7 DEF Good
<1>9. ASSUME NEW i \in DOMAIN r, NEW j \in DOMAIN r, i # j PROVE r[i].path # r[j].path
  <2>1. r[i] \in Match /\ r[j] \in Match /\ i \in Nat /\ j \in Nat
    BY <1>8
  <2>2. r[i].path \in Text /\ r[j].path \in Text
    BY <2>1, PlaceFacts DEF Match, Places
  <2>3. NameLess(r[i].path, r[j].path) \/ NameLess(r[j].path, r[i].path)
    <3>1. \A k, l \in DOMAIN r : k < l => NameLess(r[k].path, r[l].path)
      BY <1>8 DEF Ordered
    <3>2. i < j \/ j < i
      BY <1>9, <2>1
    <3>3. QED
      BY <3>1, <3>2
  <2>4. QED
    BY <2>2, <2>3, NameLessIrreflexive DEF Text
<1>10. QED
  BY <1>1, <1>8, <1>9

LEMMA WalkEndKeeps ==
    ASSUME GatherInv, WalkEnd, Still
    PROVE  GatherInv'
<1>1. CASE Fail
  BY <1>1, FailKeeps
<1>2. CASE ~Fail
  <2> DEFINE r == SortedMatches(matches)
  <2>1. /\ phase = "walk" /\ todo = <<>> /\ todo' = <<>> /\ matches' = r
        /\ entries' = entries /\ phase' = "archive"
    BY <1>2 DEF WalkEnd, Goto
  <2>2. TreeInv /\ WalkInv /\ CompleteInv /\ EntriesInv /\ PhaseInv
    BY DEF GatherInv
  <2> HIDE DEF r
  <2>3. /\ r \in Seq(Match)
        /\ \A i \in DOMAIN r : \E k \in DOMAIN matches : r[i] = matches[k]
        /\ \A k \in DOMAIN matches : \E i \in DOMAIN r : r[i] = matches[k]
        /\ Ordered(r)
        /\ \A i, j \in DOMAIN r : i # j => r[i].path # r[j].path
    BY <2>2, MatchesSorted DEF r
  <2>4. DOMAIN todo' = {} /\ DOMAIN todo = {} /\ todo' \in Seq(DirEntry) /\ entries = <<>>
    BY <2>1, <2>2 DEF PhaseInv
  <2>5. (\A i \in DOMAIN matches :
           /\ Selected(matches[i].path) /\ WasFile(matches[i].path)
           /\ HadMode(matches[i].path, matches[i].mode))'
    <3>1. \A i \in DOMAIN r :
            /\ Selected(r[i].path) /\ WasFile(r[i].path) /\ HadMode(r[i].path, r[i].mode)
      BY <2>2, <2>3 DEF WalkInv
    <3>2. QED
      BY <2>1, <3>1 DEF Selected, WasFile, HadMode, Still
  <2>6. WalkInv'
    <3>1. ASSUME NEW i \in DOMAIN r, NEW j \in DOMAIN r, i # j
          PROVE  Apart(r[i].path, r[j].path)
      <4>1. PICK k \in DOMAIN matches : r[i] = matches[k]
        BY <2>3
      <4>2. PICK l \in DOMAIN matches : r[j] = matches[l]
        BY <2>3
      <4>3. k # l
        BY <2>3, <3>1, <4>1, <4>2
      <4>4. QED
        BY <2>2, <4>1, <4>2, <4>3 DEF WalkInv
    <3>2. QED
      BY <2>1, <2>3, <2>4, <2>5, <3>1 DEF WalkInv
  <2>7. CompleteInv'
    <3> SUFFICES ASSUME NEW y \in Place, NEW f \in File, versions[y] = {f}, Selected(y)
                 PROVE  Found(y, f)'
      BY DEF CompleteInv, Still, Selected
    <3>1. Found(y, f)
      BY <2>1, <2>2 DEF CompleteInv
    <3>2. PICK k \in DOMAIN matches : matches[k].path = y /\ matches[k].mode = f.mode
      BY <2>4, <3>1 DEF Found
    <3>3. QED
      BY <2>1, <2>3, <3>2 DEF Found
  <2>8. EntriesInv'
    BY <2>1, <2>3, <2>4 DEF EntriesInv
  <2>9. PhaseInv'
    BY <2>1, <2>2, <2>3 DEF PhaseInv, Still, Ordered
  <2>10. QED
    BY <2>6, <2>7, <2>8, <2>9, TreeStays DEF GatherInv
<1>3. QED
  BY <1>1, <1>2 DEF WalkEnd

-------------------------------------------------------------------------------
(* The archive.                                                             *)

LEMMA AddFileKeeps ==
    ASSUME GatherInv, AddFile, Still
    PROVE  GatherInv'
<1> DEFINE m == NextMatch
           node == tree[m.path]
           e == [name |-> ArchiveName(m.path), file |-> [data |-> Target(node).data, mode |-> m.mode]]
           n == Len(entries) + 1
<1>1. CASE Fail
  BY <1>1, FailKeeps
<1>2. CASE ~Fail
  <2>1. /\ phase = "archive" /\ Len(entries) < Len(matches) /\ Readable(node) /\ ~Unsafe(m.path)
        /\ entries' = Append(entries, e) /\ todo' = todo /\ matches' = matches /\ phase' = phase
    BY <1>2 DEF AddFile
  <2>2. TreeInv /\ WalkInv /\ CompleteInv /\ EntriesInv /\ PhaseInv
    BY DEF GatherInv
  <2>3. entries \in Seq(Entry) /\ matches \in Seq(Match) /\ n \in DOMAIN matches /\ n \in Nat
    BY <2>1, <2>2 DEF EntriesInv, WalkInv
  <2>4. m = matches[n] /\ m \in Match
    BY <2>3 DEF NextMatch
  <2>5. m.path \in Place /\ m.path \in Places /\ m.mode \in Mode \cup {OddMode}
    BY <2>4 DEF Match, Places
  <2> HIDE DEF m, n
  <2>6. node \in versions[m.path]
    BY <2>2, <2>5 DEF TreeInv
  <2> HIDE DEF node
  <2>7. e \in Entry /\ e.file.mode = m.mode /\ e.file.data = Target(node).data
        /\ e.name = ArchiveName(m.path)
    <3>1. ArchiveName(m.path) \in Seq(Range(Character))
      BY <2>5, PlaceFacts, Slash, ArchiveNameType DEF Text
    <3>2. Target(node).data \in Data
      BY <2>1 DEF Readable, File
    <3>3. QED
      BY <2>5, <3>1, <3>2 DEF Entry
  <2>8. HadData(m.path, e.file.data)
    BY <2>1, <2>6, <2>7 DEF HadData
  <2> HIDE DEF e
  <2>9. /\ entries' \in Seq(Entry) /\ Len(entries') = n
        /\ \A i \in DOMAIN entries : entries'[i] = entries[i]
        /\ entries'[n] = e /\ \A i \in DOMAIN entries' : i = n \/ i \in DOMAIN entries
    BY <2>1, <2>3, <2>7 DEF n
  <2>10. EntriesInv'
    <3>1. \A i \in DOMAIN entries' :
            /\ entries'[i].name = ArchiveName(matches[i].path) /\ ~Unsafe(matches[i].path)
            /\ entries'[i].file.mode = matches[i].mode
            /\ HadData(matches[i].path, entries'[i].file.data)
      BY <2>1, <2>2, <2>4, <2>7, <2>8, <2>9 DEF EntriesInv
    <3>2. n <= Len(matches)
      BY <2>3
    <3>3. QED
      BY <2>1, <2>9, <3>1, <3>2 DEF EntriesInv, HadData, Still
  <2>11. WalkInv'
    BY <2>1, <2>2 DEF WalkInv, Selected, WasFile, HadMode, Still
  <2>12. CompleteInv'
    BY <2>1, <2>2 DEF CompleteInv, Selected, Found, Still
  <2>13. PhaseInv'
    BY <2>1, <2>2 DEF PhaseInv, Ordered, Still
  <2>14. QED
    BY <2>10, <2>11, <2>12, <2>13, TreeStays DEF GatherInv
<1>3. QED
  BY <1>1, <1>2

LEMMA ArchiveEndKeeps ==
    ASSUME GatherInv, ArchiveEnd, Still
    PROVE  GatherInv'
<1>1. /\ phase = "archive" /\ Len(entries) = Len(matches) /\ phase' = "packed"
      /\ todo' = todo /\ matches' = matches /\ entries' = entries
  BY DEF ArchiveEnd, Goto
<1>2. TreeInv /\ WalkInv /\ CompleteInv /\ EntriesInv /\ PhaseInv
  BY DEF GatherInv
<1>3. WalkInv'
  BY <1>1, <1>2 DEF WalkInv, Selected, WasFile, HadMode, Still
<1>4. CompleteInv'
  BY <1>1, <1>2 DEF CompleteInv, Selected, Found, Still
<1>5. EntriesInv'
  BY <1>1, <1>2 DEF EntriesInv, HadData, Still
<1>6. PhaseInv'
  BY <1>1, <1>2 DEF PhaseInv, Ordered, Still
<1>7. QED
  BY <1>3, <1>4, <1>5, <1>6, TreeStays DEF GatherInv

-------------------------------------------------------------------------------
(* Other programs.                                                          *)

LEMMA EditedTree ==
    ASSUME TreeInv, NEW x \in Editable, NEW node \in Edited, tree[Parent(x)] = Directory,
           NEW t, t = [y \in Places |-> CASE y = x -> node
                                          [] Under(y, x) -> Missing
                                          [] OTHER -> tree[y]]
    PROVE  t \in [Places -> Node] /\ WellRooted(t)
<1>1. x \in Place /\ x \in Places /\ node \in Node /\ Missing \in Node
  BY GatherAssumption DEF GatherAssumption, Places, Node
<1>2. \A y \in Places : ~(y = x /\ Under(y, x))
  BY DEF Under
<1>3. \A y \in Places : t[y] = IF y = x THEN node ELSE IF Under(y, x) THEN Missing ELSE tree[y]
  BY <1>2
<1>4. t \in [Places -> Node]
  BY <1>1, <1>2 DEF TreeInv
<1>5. ASSUME NEW y \in Place, t[y] # Missing PROVE t[Parent(y)] = Directory
  <2>1. y \in Places /\ Parent(y) \in Places /\ Under(y, Parent(y))
    BY PlaceFacts
  <2>2. CASE y = x
    <3>1. Parent(x) # x /\ ~Under(Parent(x), x)
      BY <2>1, <2>2, Shorter
    <3>2. QED
      BY <1>3, <2>1, <2>2, <3>1
  <2>3. CASE y # x
    <3>1. ~Under(y, x) /\ t[y] = tree[y]
      BY <1>3, <1>5, <2>1, <2>3
    <3>2. Parent(y) # x
      BY <2>1, <3>1
    <3>3. ~Under(Parent(y), x)
      BY <1>1, <2>1, <3>1, Transitive
    <3>4. tree[Parent(y)] = Directory
      BY <1>5, <3>1 DEF TreeInv, WellRooted
    <3>5. QED
      BY <1>3, <2>1, <3>2, <3>3, <3>4
  <2>4. QED
    BY <2>2, <2>3
<1>6. QED
  BY <1>4, <1>5 DEF WellRooted

LEMMA EditKeeps ==
    ASSUME GatherInv, Edit
    PROVE  GatherInv'
<1>1. /\ edits > 0 /\ edits' = edits - 1
      /\ versions' = [y \in Places |-> versions[y] \cup {tree'[y]}]
      /\ UNCHANGED <<include, exclude, todo, matches, entries, phase>>
  BY DEF Edit, Places
<1>2. TreeInv /\ WalkInv /\ CompleteInv /\ EntriesInv /\ PhaseInv
  BY DEF GatherInv
<1>3. tree' \in [Places -> Node] /\ WellRooted(tree)'
  <2>1. PICK x \in Editable, node \in Edited :
            /\ tree[Parent(x)] = Directory
            /\ tree' = [y \in Places |-> CASE y = x -> node
                                           [] Under(y, x) -> Missing
                                           [] OTHER -> tree[y]]
    BY DEF Edit, Places
  <2> DEFINE t == tree'
  <2>2. t \in [Places -> Node] /\ WellRooted(t)
    <3>1. t = [y \in Places |-> CASE y = x -> node
                                  [] Under(y, x) -> Missing
                                  [] OTHER -> tree[y]]
      BY <2>1
    <3> HIDE DEF t
    <3>2. QED
      BY <1>2, <2>1, <3>1, EditedTree
  <2>3. QED
    BY <2>2 DEF WellRooted
<1>4. \A y \in Places : versions[y] \subseteq versions'[y] /\ tree'[y] \in versions'[y]
  BY <1>1
<1>5. TreeInv'
  <2>1. versions' \in [Places -> SUBSET Node]
    BY <1>1, <1>2, <1>3 DEF TreeInv
  <2>2. edits' \in Nat
    BY <1>1, <1>2 DEF TreeInv
  <2>3. QED
    BY <1>3, <1>4, <2>1, <2>2 DEF TreeInv
<1>6. /\ \A i \in DOMAIN todo : todo[i].path \in Places
      /\ \A i \in DOMAIN matches : matches[i].path \in Places
  <2>1. (\A i \in DOMAIN todo : todo[i] \in DirEntry) /\ (\A i \in DOMAIN matches : matches[i] \in Match)
    BY <1>2 DEF WalkInv
  <2>2. QED
    BY <2>1 DEF DirEntry, Match, Places
<1>7. \A y \in Places : WasFile(y) => WasFile(y)'
  BY <1>4 DEF WasFile
<1>8. WalkInv'
  <2>1. \A i \in DOMAIN todo : todo[i].type = "file" => (\E f \in File : f \in versions'[todo[i].path])
    BY <1>2, <1>6, <1>7 DEF WalkInv, WasFile
  <2>2. \A i \in DOMAIN matches :
           /\ Selected(matches[i].path) /\ (\E f \in File : f \in versions'[matches[i].path])
           /\ (\E v \in versions'[matches[i].path] : matches[i].mode = ModeOf(v))
    BY <1>2, <1>4, <1>6 DEF WalkInv, WasFile, HadMode
  <2>3. QED
    BY <1>1, <1>2, <2>1, <2>2 DEF WalkInv, Selected, WasFile, HadMode
<1>9. CompleteInv'
  <2> SUFFICES ASSUME phase \in {"walk", "archive", "packed"},
                      NEW y \in Place, NEW f \in File, versions'[y] = {f}, Selected(y)
               PROVE  Found(y, f)'
    BY <1>1 DEF CompleteInv, Selected
  <2>1. y \in Places /\ tree[y] \in versions[y]
    BY <1>2, PlaceFacts DEF TreeInv
  <2>2. versions[y] = {f}
    BY <1>4, <2>1
  <2>3. Found(y, f)
    BY <1>2, <2>2 DEF CompleteInv
  <2>4. QED
    BY <1>1, <2>3 DEF Found
<1>10. EntriesInv'
  <2>1. \A i \in DOMAIN entries : i \in DOMAIN matches
    BY <1>2 DEF EntriesInv, WalkInv
  <2>2. \A i \in DOMAIN entries :
          \E v \in versions'[matches[i].path] : Readable(v) /\ entries[i].file.data = Target(v).data
    BY <1>2, <1>4, <1>6, <2>1 DEF EntriesInv, HadData
  <2>3. QED
    BY <1>1, <1>2, <2>2 DEF EntriesInv, HadData
<1>11. PhaseInv'
  BY <1>1, <1>2 DEF PhaseInv, Ordered
<1>12. QED
  BY <1>5, <1>8, <1>9, <1>10, <1>11 DEF GatherInv

LEMMA StutterKeeps ==
    ASSUME GatherInv, UNCHANGED gatherVars
    PROVE  GatherInv'
<1>1. Still /\ UNCHANGED <<todo, matches, entries, phase>>
  BY DEF gatherVars, Still
<1>2. TreeInv /\ WalkInv /\ CompleteInv /\ EntriesInv /\ PhaseInv
  BY DEF GatherInv
<1>3. WalkInv'
  BY <1>1, <1>2 DEF WalkInv, Selected, WasFile, HadMode, Still
<1>4. CompleteInv'
  BY <1>1, <1>2 DEF CompleteInv, Selected, Found, Still
<1>5. EntriesInv'
  BY <1>1, <1>2 DEF EntriesInv, HadData, Still
<1>6. PhaseInv'
  BY <1>1, <1>2 DEF PhaseInv, Ordered, Still
<1>7. QED
  BY <1>1, <1>3, <1>4, <1>5, <1>6, TreeStays DEF GatherInv

LEMMA GatherSteps == GatherInv /\ [GatherNext]_gatherVars => GatherInv'
<1> SUFFICES ASSUME GatherInv, [GatherNext]_gatherVars PROVE GatherInv'
  OBVIOUS
<1>1. CASE Gathering
  <2>1. Still /\ (WalkBegin \/ Descend \/ PassOver \/ Select \/ WalkEnd \/ AddFile \/ ArchiveEnd)
    BY <1>1 DEF Gathering, Still
  <2>2. QED
    BY <2>1, WalkBeginKeeps, DescendKeeps, PassOverKeeps, SelectKeeps, WalkEndKeeps,
       AddFileKeeps, ArchiveEndKeeps
<1>2. QED
  BY <1>1, EditKeeps, StutterKeeps DEF GatherNext

\* The walk loses nothing and takes nothing twice, whatever other programs do.
THEOREM GatherInvariant == GatherSpec => []GatherInv
  BY Starts, GatherSteps, PTL DEF GatherSpec

\* Every variable keeps its type.
THEOREM GatherTypeOKHolds == GatherSpec => []GatherTypeOK
<1>1. GatherInv => GatherTypeOK
  BY DEF GatherInv, TreeInv, WalkInv, EntriesInv, GatherTypeOK, Places
<1>2. QED
  BY <1>1, GatherInvariant, PTL

\* Names without a backslash are in the archive in byte order, none of them
\* twice, for every directory, every pattern and every change.
THEOREM ArchivedInOrderHolds == GatherSpec => []ArchivedInOrder
<1>1. ASSUME GatherInv PROVE ArchivedInOrder
  <2> SUFFICES ASSUME phase = "packed", NEW i \in DOMAIN entries, NEW j \in DOMAIN entries,
                      i < j, ~Backslashed(matches[i].path), ~Backslashed(matches[j].path)
               PROVE  NameLess(entries[i].name, entries[j].name)
    BY DEF ArchivedInOrder
  <2>1. WalkInv /\ EntriesInv /\ Ordered(matches)
    BY <1>1 DEF GatherInv, PhaseInv
  <2>2. \A k \in DOMAIN entries : k \in DOMAIN matches /\ matches[k] \in Match
    BY <2>1 DEF WalkInv, EntriesInv
  <2>3. ASSUME NEW k \in DOMAIN entries, ~Backslashed(matches[k].path)
        PROVE  entries[k].name = matches[k].path
    <3> DEFINE x == matches[k].path
    <3>1. x \in Place
      BY <2>2 DEF Match
    <3>2. x \in Text /\ IsFileName(x)
      BY <3>1, GatherAssumption DEF GatherAssumption, Text
    <3>3. ArchiveName(x) = x
      BY <2>3, <3>2, Slash, PlainArchiveName DEF Text, Backslashed
    <3>4. QED
      BY <2>1, <3>3 DEF EntriesInv
  <2>4. NameLess(matches[i].path, matches[j].path)
    BY <2>1, <2>2 DEF Ordered
  <2>5. QED
    BY <2>3, <2>4
<1>2. QED
  BY <1>1, GatherInvariant, PTL

LEMMA MeantIsSelected ==
    ASSUME PhaseInv, phase = "packed", NEW x \in Place
    PROVE  Meant(x) <=> Selected(x)
<1>1. \A p \in include \cup exclude : Means(p, x) <=> MatchAny({p}, x)
  <2>1. x \in Seq(Signs) /\ x # <<>>
    <3>1. x \in Seq(Signs) /\ IsFileName(x)
      BY GatherAssumption DEF GatherAssumption, Signs
    <3>2. Segments(x) # << <<>> >>
      BY <3>1 DEF IsFileName
    <3>3. QED
      BY <3>1, <3>2, SegmentsOfNone
  <2>2. \A p \in include \cup exclude : p \in Seq(Signs)
    BY GatherAssumption DEF GatherAssumption, PhaseInv, IsInput, Signs
  <2>3. QED
    BY <2>1, <2>2, PatternMeans
<1>2. \A p : MatchAny({p}, x) <=> \E v \in Expanded(p) : Matches(v, x)
  BY DEF MatchAny
<1>3. QED
  BY <1>1, <1>2 DEF Meant, Selected, MatchAny

\* A file that nobody touched is in the archive of every pack that succeeds, if
\* the patterns mean it.
THEOREM UntouchedArePackedHolds == GatherSpec => []UntouchedArePacked
<1>1. ASSUME GatherInv PROVE UntouchedArePacked
  <2> SUFFICES ASSUME phase = "packed", NEW x \in Place, NEW f \in File,
                      versions[x] = {f}, Meant(x)
               PROVE  \E i \in DOMAIN matches : matches[i].path = x /\ entries[i].file = f
    BY DEF UntouchedArePacked
  <2>1. WalkInv /\ CompleteInv /\ EntriesInv /\ PhaseInv
    BY <1>1 DEF GatherInv
  <2>2. Selected(x)
    BY <2>1, MeantIsSelected
  <2>3. Found(x, f)
    BY <2>1, <2>2 DEF CompleteInv
  <2>4. PICK i \in DOMAIN matches : matches[i].path = x /\ matches[i].mode = f.mode
    BY <2>1, <2>3 DEF Found, PhaseInv
  <2>5. i \in DOMAIN entries /\ entries[i] \in Entry
    BY <2>1 DEF PhaseInv, EntriesInv, WalkInv
  <2>6. entries[i].file.mode = f.mode /\ HadData(x, entries[i].file.data)
    BY <2>1, <2>4, <2>5 DEF EntriesInv
  <2>7. entries[i].file.data = f.data
    BY <2>6, NodeFacts DEF HadData
  <2>8. entries[i].file = f
    BY <2>5, <2>6, <2>7 DEF Entry, File
  <2>9. QED
    BY <2>4, <2>8
<1>2. QED
  BY <1>1, GatherInvariant, PTL

\* Nothing else is in it.
THEOREM OnlySelectedArePackedHolds == GatherSpec => []OnlySelectedArePacked
<1>1. ASSUME GatherInv PROVE OnlySelectedArePacked
  <2> SUFFICES ASSUME phase = "packed", NEW i \in DOMAIN matches
               PROVE  /\ Meant(matches[i].path)
                      /\ \E f \in File : f \in versions[matches[i].path]
                      /\ \E v \in versions[matches[i].path] : entries[i].file.mode = ModeOf(v)
                      /\ \E v \in versions[matches[i].path] :
                            Readable(v) /\ entries[i].file.data = Target(v).data
    BY DEF OnlySelectedArePacked
  <2>1. WalkInv /\ EntriesInv /\ PhaseInv
    BY <1>1 DEF GatherInv
  <2>2. i \in DOMAIN entries /\ matches[i] \in Match
    BY <2>1 DEF PhaseInv, EntriesInv, WalkInv
  <2>3. matches[i].path \in Place
    BY <2>2 DEF Match
  <2>4. Meant(matches[i].path)
    BY <2>1, <2>3, MeantIsSelected DEF WalkInv
  <2>5. QED
    BY <2>1, <2>2, <2>4 DEF WalkInv, EntriesInv, WasFile, HadMode, HadData
<1>2. QED
  BY <1>1, GatherInvariant, PTL

===============================================================================
