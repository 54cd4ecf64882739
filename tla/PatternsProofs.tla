----------------------------- MODULE PatternsProofs ----------------------------
(***************************************************************************)
(* The globs that compileAll makes of a pattern match what the documents   *)
(* say the pattern matches, for every pattern and every name               *)
(* (PatternMeans).                                                         *)
(*                                                                         *)
(* The units, the segments, the variants and the classes are functions     *)
(* over the positions of the pattern that are defined from its end         *)
(* (UnitsSteps, DirsSteps, CutSteps, ClassesSteps).  Covered(p, x, i) is   *)
(* shown from the end, too: what the units of p reach from i on is what    *)
(* the variants of that rest reach together.  RestUnit, RestStuck and      *)
(* RestDirs say what cutting does to the unit at i.                        *)
(***************************************************************************)
EXTENDS Patterns, NamesProofs

-------------------------------------------------------------------------------
(* Recursion from the end of a pattern to its beginning.                     *)

\* Induction from the end: a position is in T if all later ones are.
LEMMA Downwards ==
    ASSUME NEW n \in Nat, NEW T, \A i \in 1..n : (\A j \in (i + 1)..n : j \in T) => i \in T
    PROVE  \A i \in 1..n : i \in T
<1> DEFINE U == {k \in 0..n : \A j \in (n - k + 1)..n : j \in T}
<1>1. 0 \in U
  OBVIOUS
<1>2. ASSUME NEW k \in 1..n, k - 1 \in U PROVE k \in U
  <2>1. \A j \in (n - k + 2)..n : j \in T
    <3>1. n - (k - 1) + 1 = n - k + 2
      OBVIOUS
    <3>2. QED
      BY <1>2, <3>1
  <2>2. n - k + 1 \in 1..n /\ n - k + 1 + 1 = n - k + 2
    OBVIOUS
  <2>3. n - k + 1 \in T
    BY <2>1, <2>2
  <2>4. \A j \in (n - k + 1)..n : j = n - k + 1 \/ j \in (n - k + 2)..n
    OBVIOUS
  <2>5. QED
    BY <2>1, <2>3, <2>4
<1>3. n \in U
  <2> HIDE DEF U
  <2>1. \A k \in 0..n : k \in U
    BY <1>1, <1>2, Upwards
  <2>2. QED
    BY <2>1
<1>4. QED
  BY <1>3

\* A function whose value at i depends only on the values at later positions
\* exists: op gives the value at i from any function that has them.
LooksRight(op, n, S) ==
    /\ op \in [[1..n -> S] \X (1..n) -> S]
    /\ \A g, h \in [1..n -> S], i \in 1..n :
        (\A j \in (i + 1)..n : g[j] = h[j]) => op[<<g, i>>] = op[<<h, i>>]

Solves(h, op, n, S) == h \in [1..n -> S] /\ \A i \in 1..n : h[i] = op[<<h, i>>]

LEMMA RecursionExists ==
    ASSUME NEW n \in Nat, NEW S, S # {}, NEW op, LooksRight(op, n, S)
    PROVE  \E h : Solves(h, op, n, S)
<1> USE DEF LooksRight
<1> DEFINE H == [1..n -> S]
           Right(h, k) == \A i \in (n - k + 1)..n : h[i] = op[<<h, i>>]
           U == {k \in 0..n : \E h \in H : Right(h, k)}
<1>1. 0 \in U
  <2>0. PICK s0 : s0 \in S
    OBVIOUS
  <2> DEFINE h == [i \in 1..n |-> s0]
  <2>1. h \in H /\ (n - 0 + 1)..n = {}
    BY <2>0
  <2> HIDE DEF h, H
  <2>2. QED
    BY <2>1
<1>2. ASSUME NEW k \in 1..n, k - 1 \in U PROVE k \in U
  <2> DEFINE m == n - k + 1
  <2>1. PICK g \in H : Right(g, k - 1)
    BY <1>2
  <2>2. m \in 1..n /\ n - (k - 1) + 1 = m + 1
    OBVIOUS
  <2> DEFINE h == [i \in 1..n |-> IF i = m THEN op[<<g, m>>] ELSE g[i]]
  <2> HIDE DEF m
  <2>3. h \in H
    BY <2>2
  <2>4. \A j \in (m + 1)..n : h[j] = g[j] /\ j \in 1..n
    BY <2>2
  <2>5. h[m] = op[<<g, m>>]
    BY <2>2
  <2> HIDE DEF h
  <2>6. ASSUME NEW i \in m..n PROVE h[i] = op[<<h, i>>]
    <3>1. i \in 1..n /\ \A j \in (i + 1)..n : j \in (m + 1)..n
      BY <2>2
    <3>2. op[<<h, i>>] = op[<<g, i>>]
      BY <2>3, <2>4, <3>1
    <3>3. CASE i = m
      BY <2>5, <3>2, <3>3
    <3>4. CASE i # m
      <4>1. i \in (m + 1)..n
        BY <2>2, <3>4
      <4>2. g[i] = op[<<g, i>>]
        BY <2>1, <2>2, <4>1
      <4>3. QED
        BY <2>4, <3>2, <4>1, <4>2
    <3>5. QED
      BY <3>3, <3>4
  <2>7. Right(h, k)
    BY <2>6 DEF m
  <2> HIDE DEF Right, H
  <2>8. QED
    BY <2>3, <2>7
<1>3. \A k \in 0..n : k \in U
  <2> HIDE DEF U
  <2>1. QED
    BY <1>1, <1>2, Upwards
<1>4. PICK h \in H : Right(h, n)
  <2>1. n \in 0..n
    OBVIOUS
  <2>2. QED
    BY <1>3, <2>1
<1>5. n - n + 1 = 1
  OBVIOUS
<1>6. QED
  BY <1>4, <1>5 DEF Solves

-------------------------------------------------------------------------------
(* How far the units get in a name.                                         *)

Unit == [kind : {"one", "star", "super", "directories", "bad"}, of : SUBSET Range(Character)]

Reach(units, x, from) ==
    FoldLeft(LAMBDA positions, unit : After(unit, x, positions), from, units)

Positions(x) == 1..(Len(x) + 1)

AfterOp(x) == [p \in (SUBSET Positions(x)) \X Unit |-> After(p[2], x, p[1])]

LEMMA AfterType ==
    ASSUME NEW x, NEW unit, NEW from
    PROVE  After(unit, x, from) \in SUBSET Positions(x)
  BY DEF After, Positions

LEMMA ReachRun ==
    ASSUME NEW x, NEW from \in SUBSET Positions(x), NEW units \in Seq(Unit)
    PROVE  \E F : IsRun(F, AfterOp(x), from, units) /\ Reach(units, x, from) = F[Len(units)]
<1> DEFINE V == SUBSET Positions(x)
<1> DEFINE Rec(h) ==
      h = [s \in SUBSET DOMAIN units |->
             IF s = {} THEN from ELSE After(units[Max(s)], x, h[s \ {Max(s)}])]
<1>1. Reach(units, x, from) = (CHOOSE h : Rec(h))[DOMAIN units]
  BY DEF Reach, FoldLeft, MapThenFoldSet
<1>2. from \in V /\ DOMAIN units = 1..Len(units) /\ Len(units) \in Nat /\ units \in Seq(Unit)
  OBVIOUS
<1>3. \A v \in V, c \in Unit : AfterOp(x)[<<v, c>>] = After(c, x, v)
  BY DEF AfterOp
<1>4. AfterOp(x) \in [V \X Unit -> V]
  BY AfterType DEF AfterOp
<1> HIDE DEF V
<1>5. \E h : Rec(h)
  <2>1. PICK g \in [SUBSET (1..Len(units)) -> V] :
              IsFold(g, AfterOp(x), from, units, Len(units))
    <3>1. Len(units) \in 0..Len(units)
      BY <1>2
    <3>2. QED
      BY <1>2, <1>4, <3>1, FoldExists
  <2>2. ASSUME NEW s \in SUBSET (1..Len(units)), s # {}
        PROVE  g[s \ {Max(s)}] \in V /\ units[Max(s)] \in Unit
    <3>1. Max(s) \in 1..Len(units)
      BY <1>2, <2>2, MaxIsIn
    <3>2. s \ {Max(s)} \in SUBSET (1..Len(units))
      OBVIOUS
    <3>3. QED
      BY <1>2, <3>1, <3>2
  <2>3. \A s \in SUBSET (1..Len(units)) :
             g[s] = IF s = {} THEN from ELSE After(units[Max(s)], x, g[s \ {Max(s)}])
    BY <1>3, <2>1, <2>2 DEF IsFold
  <2>4. Rec(g)
    BY <1>2, <2>3
  <2>5. QED
    BY <2>4
<1>6. PICK h : Rec(h) /\ Reach(units, x, from) = h[DOMAIN units]
  BY <1>1, <1>5
<1> DEFINE F == [k \in 0..Len(units) |-> h[1..k]]
<1>7. F[0] = from
  BY <1>2, <1>6
<1>8. ASSUME NEW k \in 1..Len(units) PROVE F[k] = After(units[k], x, F[k - 1])
  <2>1. h[1..k] = After(units[k], x, h[1..(k - 1)])
    <3>1. 1..k \in SUBSET (1..Len(units)) /\ 1..k # {} /\ Max(1..k) = k
          /\ (1..k) \ {k} = 1..(k - 1)
      BY <1>2, Intervals
    <3>2. QED
      BY <1>2, <1>6, <3>1
  <2>2. QED
    BY <2>1
<1>9. IsRun(F, AfterOp(x), from, units)
  <2>1. ASSUME NEW k \in 1..Len(units), F[k - 1] \in V
        PROVE  F[k] = AfterOp(x)[<<F[k - 1], units[k]>>]
    <3>1. units[k] \in Unit
      BY <1>2
    <3>2. QED
      BY <1>3, <1>8, <2>1, <3>1
  <2> HIDE DEF F
  <2>2. QED
    BY <1>2, <1>4, <1>7, <2>1, RunByTypes
<1>10. Reach(units, x, from) = F[Len(units)]
  BY <1>2, <1>6
<1>11. QED
  BY <1>9, <1>10

LEMMA ReachOfNone ==
    ASSUME NEW x, NEW from \in SUBSET Positions(x)
    PROVE  Reach(<<>>, x, from) = from
<1>1. <<>> \in Seq(Unit) /\ Len(<<>>) = 0
  OBVIOUS
<1>2. PICK F : IsRun(F, AfterOp(x), from, <<>>) /\ Reach(<<>>, x, from) = F[0]
  BY <1>1, ReachRun
<1>3. QED
  BY <1>2 DEF IsRun

LEMMA ReachType ==
    ASSUME NEW x, NEW from \in SUBSET Positions(x), NEW units \in Seq(Unit)
    PROVE  Reach(units, x, from) \in SUBSET Positions(x)
<1> DEFINE V == SUBSET Positions(x)
<1>1. PICK F : IsRun(F, AfterOp(x), from, units) /\ Reach(units, x, from) = F[Len(units)]
  BY ReachRun
<1>2. AfterOp(x) \in [V \X Unit -> V]
  BY AfterType DEF AfterOp
<1>3. Len(units) \in 0..Len(units) /\ from \in V
  OBVIOUS
<1> HIDE DEF V
<1>4. F[Len(units)] \in V
  BY <1>1, <1>2, <1>3, RunType
<1>5. QED
  BY <1>1, <1>4 DEF V

LEMMA ReachAppend ==
    ASSUME NEW x, NEW from \in SUBSET Positions(x), NEW units \in Seq(Unit), NEW u \in Unit
    PROVE  Reach(Append(units, u), x, from) = After(u, x, Reach(units, x, from))
<1>1. Append(units, u) \in Seq(Unit)
  OBVIOUS
<1>2. PICK F : IsRun(F, AfterOp(x), from, units) /\ Reach(units, x, from) = F[Len(units)]
  BY ReachRun
<1>3. PICK G : IsRun(G, AfterOp(x), from, Append(units, u))
               /\ Reach(Append(units, u), x, from) = G[Len(Append(units, u))]
  BY <1>1, ReachRun
<1>4. G[Len(Append(units, u))] = AfterOp(x)[<<F[Len(units)], u>>]
  BY <1>2, <1>3, RunAppend
<1>5. F[Len(units)] \in SUBSET Positions(x)
  BY <1>2, ReachType
<1>6. AfterOp(x)[<<F[Len(units)], u>>] = After(u, x, F[Len(units)])
  BY <1>5 DEF AfterOp
<1>7. QED
  BY <1>2, <1>3, <1>4, <1>6

\* The units one after the other.
LEMMA ReachCons ==
    ASSUME NEW x, NEW u \in Unit, NEW from \in SUBSET Positions(x), NEW units \in Seq(Unit)
    PROVE  Reach(<<u>> \o units, x, from) = Reach(units, x, After(u, x, from))
<1> DEFINE next == After(u, x, from)
           T == {v \in Seq(Unit) : Reach(<<u>> \o v, x, from) = Reach(v, x, next)}
<1>1. next \in SUBSET Positions(x)
  BY AfterType
<1>2. <<>> \in T
  <2>1. <<u>> \o <<>> = Append(<<>>, u) /\ <<>> \in Seq(Unit)
    OBVIOUS
  <2>2. Reach(Append(<<>>, u), x, from) = After(u, x, Reach(<<>>, x, from))
    BY <2>1, ReachAppend
  <2>3. Reach(<<>>, x, from) = from /\ Reach(<<>>, x, next) = next
    BY <1>1, ReachOfNone
  <2> HIDE DEF next
  <2>4. QED
    BY <2>1, <2>2, <2>3 DEF next
<1>3. ASSUME NEW v \in Seq(Unit), NEW c \in Unit, v \in T PROVE Append(v, c) \in T
  <2>1. <<u>> \o Append(v, c) = Append(<<u>> \o v, c) /\ <<u>> \o v \in Seq(Unit)
        /\ Append(v, c) \in Seq(Unit)
    OBVIOUS
  <2>2. Reach(Append(<<u>> \o v, c), x, from) = After(c, x, Reach(<<u>> \o v, x, from))
    BY <2>1, ReachAppend
  <2>3. Reach(Append(v, c), x, next) = After(c, x, Reach(v, x, next))
    BY <1>1, ReachAppend
  <2>4. QED
    BY <1>3, <2>1, <2>2, <2>3
<1>4. units \in T
  <2> HIDE DEF T
  <2>1. QED
    BY <1>2, <1>3, SequencesGrow
<1>5. QED
  BY <1>4

LEMMA AfterUnion ==
    ASSUME NEW x, NEW u, NEW a, NEW b
    PROVE  After(u, x, a \cup b) = After(u, x, a) \cup After(u, x, b)
  BY DEF After

\* What is reached from two sets of positions is what is reached from either.
LEMMA ReachUnion ==
    ASSUME NEW x, NEW a \in SUBSET Positions(x), NEW b \in SUBSET Positions(x),
           NEW units \in Seq(Unit)
    PROVE  Reach(units, x, a \cup b) = Reach(units, x, a) \cup Reach(units, x, b)
<1> DEFINE T == {v \in Seq(Unit) : Reach(v, x, a \cup b) = Reach(v, x, a) \cup Reach(v, x, b)}
<1>1. <<>> \in T
  BY ReachOfNone
<1>2. ASSUME NEW v \in Seq(Unit), NEW c \in Unit, v \in T PROVE Append(v, c) \in T
  <2>1. Append(v, c) \in Seq(Unit) /\ a \cup b \in SUBSET Positions(x)
    OBVIOUS
  <2>2. /\ Reach(Append(v, c), x, a \cup b) = After(c, x, Reach(v, x, a \cup b))
        /\ Reach(Append(v, c), x, a) = After(c, x, Reach(v, x, a))
        /\ Reach(Append(v, c), x, b) = After(c, x, Reach(v, x, b))
    BY <2>1, ReachAppend
  <2>3. After(c, x, Reach(v, x, a \cup b)) = After(c, x, Reach(v, x, a) \cup Reach(v, x, b))
    BY <1>2
  <2>4. After(c, x, Reach(v, x, a) \cup Reach(v, x, b))
          = After(c, x, Reach(v, x, a)) \cup After(c, x, Reach(v, x, b))
    BY AfterUnion
  <2>5. QED
    BY <2>1, <2>2, <2>3, <2>4
<1>3. units \in T
  <2> HIDE DEF T
  <2>1. QED
    BY <1>1, <1>2, SequencesGrow
<1>4. QED
  BY <1>3

\* "**/" of the matcher, or nothing, are zero or more directories.
LEMMA AfterDirectories ==
    ASSUME NEW C, NEW x \in Seq(C), NEW from \in SUBSET Positions(x)
    PROVE  After(Directories, x, from)
             = from \cup After(One({"/"}), x, After(Super, x, from))
<1> DEFINE P == Positions(x)
           n == Len(x)
<1>1. n \in Nat /\ P = 1..(n + 1)
  BY DEF Positions
<1>2. After(Super, x, from) = {k \in P : \E j \in from : k >= j}
  BY DEF After, Super, Positions
<1>3. \A s : After(One({"/"}), x, s) = {k \in P : \E j \in s : k = j + 1 /\ x[j] = "/"}
  BY DEF After, One, Positions
<1>4. After(Directories, x, from)
        = {k \in P : \E j \in from : k = j \/ (k > j /\ x[k - 1] = "/")}
  BY DEF After, Directories, Positions
<1>5. ASSUME NEW k \in P
      PROVE  (\E j \in from : k > j /\ x[k - 1] = "/")
               <=> k \in After(One({"/"}), x, After(Super, x, from))
  <2>1. ASSUME NEW j \in from, k > j, x[k - 1] = "/"
        PROVE  k \in After(One({"/"}), x, After(Super, x, from))
    <3>1. j \in P
      OBVIOUS
    <3>2. k - 1 \in P /\ k - 1 >= j /\ k = (k - 1) + 1
      BY <1>1, <2>1, <3>1
    <3>3. k - 1 \in After(Super, x, from)
      BY <1>2, <3>2
    <3>4. QED
      BY <1>3, <2>1, <3>2, <3>3
  <2>2. ASSUME NEW i \in After(Super, x, from), k = i + 1, x[i] = "/"
        PROVE  \E j \in from : k > j /\ x[k - 1] = "/"
    <3>1. PICK j \in from : i >= j
      BY <1>2
    <3>2. i \in P /\ j \in P
      BY <1>2
    <3>3. k > j /\ k - 1 = i
      BY <1>1, <2>2, <3>1, <3>2
    <3>4. QED
      BY <2>2, <3>3
  <2>3. QED
    BY <1>3, <2>1, <2>2
<1>6. QED
  BY <1>2, <1>3, <1>4, <1>5

-------------------------------------------------------------------------------
(* The recursive functions of Patterns obey their equations.                  *)

Signs == Range(Character)
ClassOf == [end : Nat, of : SUBSET Signs]

ClassStep(p, class, i) ==
    CASE i > Len(p) -> [end |-> i, of |-> {}]
      [] i <= Len(p) /\ p[i] = "]" -> [end |-> i, of |-> {}]
      [] i < Len(p) /\ p[i] = "\\" -> [class[i + 2] EXCEPT !.of = @ \cup {p[i + 1]}]
      [] OTHER -> [class[i + 1] EXCEPT !.of = @ \cup {p[i]}]

LEMMA ClassesSteps ==
    ASSUME NEW p \in Seq(Signs)
    PROVE  /\ Classes(p) \in [1..(Len(p) + 2) -> ClassOf]
           /\ \A i \in 1..(Len(p) + 2) : Classes(p)[i] = ClassStep(p, Classes(p), i)
<1> DEFINE n == Len(p) + 2
           S == ClassOf
           H == [1..n -> S]
           op == [g \in H \X (1..n) |-> ClassStep(p, g[1], g[2])]
           Rec(h) == h = [i \in 1..n |-> ClassStep(p, h, i)]
<1>1. Classes(p) = CHOOSE h : Rec(h)
  BY DEF Classes, ClassStep
<1>2. n \in Nat /\ Len(p) \in Nat /\ \A i \in 1..Len(p) : p[i] \in Signs
  OBVIOUS
<1> HIDE DEF S
<1>3. \A c \in S, s \in Signs : [c EXCEPT !.of = @ \cup {s}] \in S
  BY DEF S, ClassOf
<1>4. \A i \in 1..n : [end |-> i, of |-> {}] \in S
  BY DEF S, ClassOf
<1>5. ASSUME NEW h, NEW i \in 1..n, \A j \in (i + 1)..n : h[j] \in S
      PROVE  ClassStep(p, h, i) \in S
  <2>1. CASE i > Len(p) \/ p[i] = "]"
    BY <1>2, <1>4, <2>1 DEF ClassStep
  <2>2. CASE i < Len(p) /\ p[i] = "\\"
    <3>1. i + 2 \in (i + 1)..n /\ i + 1 \in 1..Len(p) /\ ~(i > Len(p)) /\ p[i] # "]"
      BY <1>2, <2>2
    <3>2. ClassStep(p, h, i) = [h[i + 2] EXCEPT !.of = @ \cup {p[i + 1]}]
      BY <2>2, <3>1 DEF ClassStep
    <3>3. h[i + 2] \in S /\ p[i + 1] \in Signs
      BY <1>2, <1>5, <3>1
    <3>4. QED
      BY <1>3, <3>2, <3>3
  <2>3. CASE ~(i > Len(p) \/ p[i] = "]") /\ ~(i < Len(p) /\ p[i] = "\\")
    <3>1. i + 1 \in (i + 1)..n /\ i \in 1..Len(p)
      BY <1>2, <2>3
    <3>2. ClassStep(p, h, i) = [h[i + 1] EXCEPT !.of = @ \cup {p[i]}]
      BY <2>3 DEF ClassStep
    <3>3. h[i + 1] \in S /\ p[i] \in Signs
      BY <1>2, <1>5, <3>1
    <3>4. QED
      BY <1>3, <3>2, <3>3
  <2>4. QED
    BY <2>1, <2>2, <2>3
<1>6. op \in [H \X (1..n) -> S]
  <2>1. ASSUME NEW h \in H, NEW i \in 1..n PROVE ClassStep(p, h, i) \in S
    <3>1. \A j \in (i + 1)..n : j \in 1..n
      BY <1>2
    <3>2. QED
      BY <1>5, <3>1
  <2>2. QED
    BY <2>1
<1>7. ASSUME NEW g \in H, NEW h \in H, NEW i \in 1..n, \A j \in (i + 1)..n : g[j] = h[j]
      PROVE  op[<<g, i>>] = op[<<h, i>>]
  <2>1. ClassStep(p, g, i) = ClassStep(p, h, i)
    <3>1. CASE i > Len(p)
      BY <3>1 DEF ClassStep
    <3>2. CASE ~(i > Len(p))
      <4>1. i + 1 \in (i + 1)..n /\ i + 2 \in (i + 1)..n
        BY <1>2, <3>2
      <4>2. QED
        BY <1>7, <4>1 DEF ClassStep
    <3>3. QED
      BY <3>1, <3>2
  <2>2. QED
    BY <2>1
<1>8. \E h : Rec(h)
  <2>1. S # {}
    <3>1. 1 \in 1..n
      BY <1>2
    <3>2. [end |-> 1, of |-> {}] \in S
      BY <1>4, <3>1
    <3>3. QED
      BY <3>2
  <2>2. LooksRight(op, n, S)
    BY <1>6, <1>7 DEF LooksRight
  <2> HIDE DEF n, op
  <2>3. PICK h : Solves(h, op, n, S)
    BY <1>2, <2>1, <2>2, RecursionExists
  <2>4. h \in H /\ \A i \in 1..n : h[i] = ClassStep(p, h, i)
    BY <2>3 DEF Solves, op
  <2>5. Rec(h)
    BY <2>4
  <2>6. QED
    BY <2>5
<1>9. Rec(Classes(p))
  BY <1>1, <1>8
<1> DEFINE h == Classes(p)
           T == {i \in 1..n : h[i] \in S}
<1>10. \A i \in 1..n : h[i] = ClassStep(p, h, i)
  BY <1>9
<1>11. ASSUME NEW i \in 1..n, \A j \in (i + 1)..n : j \in T PROVE i \in T
  BY <1>5, <1>10, <1>11
<1>12. \A i \in 1..n : i \in T
  <2> HIDE DEF T, n
  <2>1. QED
    BY <1>2, <1>11, Downwards
<1>13. h \in H
  <2>1. h = [i \in 1..n |-> h[i]]
    BY <1>9
  <2>2. QED
    BY <1>12, <2>1
<1>14. QED
  BY <1>10, <1>13 DEF S

LEMMA ClassEnds ==
    ASSUME NEW p \in Seq(Signs)
    PROVE  \A i \in 1..(Len(p) + 2) :
               /\ Classes(p)[i].end \in Nat /\ Classes(p)[i].end >= i
               /\ Classes(p)[i].of \in SUBSET Signs
<1> DEFINE n == Len(p) + 2
           class == Classes(p)
           T == {i \in 1..n : class[i].end >= i}
<1>1. n \in Nat /\ Len(p) \in Nat
  OBVIOUS
<1>2. \A i \in 1..n : class[i] = ClassStep(p, class, i)
  BY ClassesSteps
<1>3. \A i \in 1..n : class[i].end \in Nat /\ class[i].of \in SUBSET Signs
                      /\ DOMAIN class[i] = {"end", "of"}
  BY ClassesSteps DEF ClassOf
<1> HIDE DEF class, n
<1>4. ASSUME NEW i \in 1..n, \A j \in (i + 1)..n : j \in T PROVE i \in T
  <2>1. CASE i > Len(p) \/ p[i] = "]"
    <3>1. class[i] = [end |-> i, of |-> {}]
      <4>1. CASE i > Len(p)
        <5>1. ~(i <= Len(p)) /\ ~(i < Len(p))
          BY <1>1, <4>1 DEF n
        <5>2. ClassStep(p, class, i) = [end |-> i, of |-> {}]
          BY <4>1, <5>1 DEF ClassStep
        <5>3. QED
          BY <1>2, <5>2
      <4>2. CASE ~(i > Len(p))
        <5>1. i <= Len(p) /\ p[i] = "]"
          BY <1>1, <2>1, <4>2
        <5>2. QED
          BY <1>2, <4>2, <5>1 DEF ClassStep
      <4>3. QED
        BY <4>1, <4>2
    <3>2. QED
      BY <1>1, <3>1
  <2>2. CASE ~(i > Len(p) \/ p[i] = "]")
    <3>1. i + 1 \in (i + 1)..n /\ i + 2 \in (i + 1)..n
      BY <1>1, <2>2 DEF n
    <3>2. class[i].end = class[i + 1].end \/ class[i].end = class[i + 2].end
      BY <1>1, <1>2, <1>3, <2>2, <3>1 DEF ClassStep
    <3>3. class[i + 1].end >= i + 1 /\ class[i + 2].end >= i + 2
      BY <1>4, <3>1
    <3>4. class[i].end >= i
      BY <1>1, <1>3, <3>1, <3>2, <3>3
    <3>5. QED
      BY <3>4
  <2>3. QED
    BY <2>1, <2>2
<1>5. \A i \in 1..n : i \in T
  <2> HIDE DEF T
  <2>1. QED
    BY <1>1, <1>4, Downwards
<1>6. QED
  BY <1>3, <1>5 DEF class, n

UnitsStep(p, withDirectories, from, i) ==
    IF i > Len(p) THEN <<>>
    ELSE CASE p[i] = "\\" -> IF i = Len(p) THEN <<Bad>> ELSE <<One({p[i + 1]})>> \o from[i + 2]
           [] p[i] = "[" ->
                IF Classes(p)[i + 1].end > Len(p) \/ Classes(p)[i + 1].of = {} THEN <<Bad>>
                ELSE <<One(Classes(p)[i + 1].of)>> \o from[Classes(p)[i + 1].end + 1]
           [] withDirectories /\ DoubleStarDir(p, i) -> <<Directories>> \o from[i + 3]
           [] p[i] = "*" /\ ~(withDirectories /\ DoubleStarDir(p, i)) ->
                IF i < Len(p) /\ p[i + 1] = "*" THEN <<Super>> \o from[i + 2]
                                               ELSE <<Star>> \o from[i + 1]
           [] OTHER -> <<One({p[i]})>> \o from[i + 1]

LEMMA StarsFacts ==
    ASSUME NEW p \in Seq(Signs), NEW i \in 1..(Len(p) + 3), DoubleStarDir(p, i)
    PROVE  /\ i + 2 <= Len(p) /\ p[i] = "*" /\ p[i + 1] = "*" /\ p[i + 2] = "/"
           /\ i = 1 \/ p[i - 1] = "/"
<1>1. i + 2 <= Len(p) /\ SubSeq(p, i, i + 2) = <<"*", "*", "/">> /\ (i = 1 \/ p[i - 1] = "/")
  BY DEF DoubleStarDir, StarsAt
<1>2. /\ SubSeq(p, i, i + 2)[1] = p[i] /\ SubSeq(p, i, i + 2)[2] = p[i + 1]
      /\ SubSeq(p, i, i + 2)[3] = p[i + 2]
  <2>1. \A k \in 1..3 : SubSeq(p, i, i + 2)[k] = p[i + k - 1]
    <3>1. i \in 1..Len(p) /\ i + 2 \in 1..Len(p) /\ (i + 2) - i + 1 = 3
      BY <1>1
    <3>2. SubSeq(p, i, i + 2) = [k \in 1..3 |-> p[i + k - 1]]
      BY <3>1
    <3>3. QED
      BY <3>2
  <2>2. SubSeq(p, i, i + 2)[1] = p[i + 1 - 1] /\ SubSeq(p, i, i + 2)[2] = p[i + 2 - 1]
        /\ SubSeq(p, i, i + 2)[3] = p[i + 3 - 1]
    BY <2>1
  <2>3. QED
    BY <2>2
<1> DEFINE s == SubSeq(p, i, i + 2)
<1>3. s[1] = "*" /\ s[2] = "*" /\ s[3] = "/"
  <2>1. s = <<"*", "*", "/">>
    BY <1>1
  <2> HIDE DEF s
  <2>2. QED
    BY <2>1
<1>4. QED
  BY <1>1, <1>2, <1>3

LEMMA UnitsOfUnit ==
    /\ \A s \in SUBSET Signs : One(s) \in Unit
    /\ Bad \in Unit /\ Star \in Unit /\ Super \in Unit /\ Directories \in Unit
  BY DEF One, Bad, Star, Super, Directories, Unit, Signs

\* Where the units end with a syntax error, and otherwise the unit at i and where
\* the next one begins.
Stuck(p, i) ==
    \/ p[i] = "\\" /\ i = Len(p)
    \/ p[i] = "[" /\ (Classes(p)[i + 1].end > Len(p) \/ Classes(p)[i + 1].of = {})

UnitAt(p, wd, i) ==
    IF Stuck(p, i) THEN Bad
    ELSE IF p[i] = "\\" THEN One({p[i + 1]})
    ELSE IF p[i] = "[" THEN One(Classes(p)[i + 1].of)
    ELSE IF wd /\ DoubleStarDir(p, i) THEN Directories
    ELSE IF p[i] = "*" THEN (IF i < Len(p) /\ p[i + 1] = "*" THEN Super ELSE Star)
    ELSE One({p[i]})

NextAt(p, wd, i) ==
    IF Stuck(p, i) THEN Len(p) + 1
    ELSE IF p[i] = "\\" THEN i + 2
    ELSE IF p[i] = "[" THEN Classes(p)[i + 1].end + 1
    ELSE IF wd /\ DoubleStarDir(p, i) THEN i + 3
    ELSE IF p[i] = "*" /\ i < Len(p) /\ p[i + 1] = "*" THEN i + 2
    ELSE i + 1

LEMMA UnitAtFacts ==
    ASSUME NEW p \in Seq(Signs), NEW wd, NEW i \in 1..Len(p)
    PROVE  /\ UnitAt(p, wd, i) \in Unit
           /\ NextAt(p, wd, i) \in (i + 1)..(Len(p) + 3)
<1> DEFINE class == Classes(p)[i + 1]
<1>1. Len(p) \in Nat /\ i + 1 \in 1..(Len(p) + 2) /\ \A j \in 1..Len(p) : {p[j]} \in SUBSET Signs
  OBVIOUS
<1>2. class.end \in Nat /\ class.end >= i + 1 /\ class.of \in SUBSET Signs
  BY <1>1, ClassEnds
<1>3. ~Stuck(p, i) /\ p[i] = "\\" => i + 1 \in 1..Len(p)
  BY <1>1 DEF Stuck
<1>4. ~Stuck(p, i) /\ p[i] = "[" => class.end <= Len(p)
  BY <1>1, <1>2 DEF Stuck
<1>5. DoubleStarDir(p, i) => i + 2 <= Len(p)
  BY StarsFacts
<1> HIDE DEF class
<1>6. UnitAt(p, wd, i) \in Unit
  <2>1. ~Stuck(p, i) /\ p[i] = "\\" => One({p[i + 1]}) \in Unit
    BY <1>1, <1>3, UnitsOfUnit
  <2>2. One({p[i]}) \in Unit /\ One(class.of) \in Unit
    BY <1>1, <1>2, UnitsOfUnit
  <2>3. QED
    BY <2>1, <2>2, UnitsOfUnit DEF UnitAt, class
<1>7. NextAt(p, wd, i) \in (i + 1)..(Len(p) + 3)
  <2>1. CASE Stuck(p, i)
    BY <1>1, <2>1 DEF NextAt
  <2>2. CASE ~Stuck(p, i) /\ p[i] = "["
    <3>1. NextAt(p, wd, i) = class.end + 1
      BY <2>2 DEF NextAt, class
    <3>2. QED
      BY <1>1, <1>2, <1>4, <2>2, <3>1
  <2>3. CASE ~Stuck(p, i) /\ p[i] # "["
    <3>1. NextAt(p, wd, i) \in {i + 1, i + 2, i + 3}
      BY <2>3 DEF NextAt
    <3>2. QED
      BY <1>1, <3>1
  <2>4. QED
    BY <2>1, <2>2, <2>3
<1>8. QED
  BY <1>6, <1>7

LEMMA UnitsStepIs ==
    ASSUME NEW p \in Seq(Signs), NEW wd \in BOOLEAN, NEW from, NEW i \in 1..(Len(p) + 3)
    PROVE  UnitsStep(p, wd, from, i)
             = IF i > Len(p) THEN <<>>
               ELSE IF Stuck(p, i) THEN <<Bad>>
               ELSE <<UnitAt(p, wd, i)>> \o from[NextAt(p, wd, i)]
<1>1. DoubleStarDir(p, i) => p[i] = "*"
  BY StarsFacts
<1>2. CASE i > Len(p)
  BY <1>2 DEF UnitsStep
<1>3. CASE ~(i > Len(p)) /\ p[i] = "\\"
  BY <1>1, <1>3 DEF UnitsStep, UnitAt, NextAt, Stuck
<1>4. CASE ~(i > Len(p)) /\ p[i] = "["
  BY <1>1, <1>4 DEF UnitsStep, UnitAt, NextAt, Stuck
<1>5. CASE ~(i > Len(p)) /\ p[i] = "*"
  <2>1. ~Stuck(p, i)
    BY <1>5 DEF Stuck
  <2>2. CASE wd /\ DoubleStarDir(p, i)
    BY <1>5, <2>1, <2>2 DEF UnitsStep, UnitAt, NextAt
  <2>3. CASE ~(wd /\ DoubleStarDir(p, i))
    BY <1>5, <2>1, <2>3 DEF UnitsStep, UnitAt, NextAt
  <2>4. QED
    BY <2>2, <2>3
<1>6. CASE ~(i > Len(p)) /\ p[i] # "\\" /\ p[i] # "[" /\ p[i] # "*"
  BY <1>1, <1>6 DEF UnitsStep, UnitAt, NextAt, Stuck
<1>7. QED
  BY <1>2, <1>3, <1>4, <1>5, <1>6

LEMMA UnitsSteps ==
    ASSUME NEW p \in Seq(Signs), NEW wd \in BOOLEAN
    PROVE  /\ UnitsFrom(p, wd) \in [1..(Len(p) + 3) -> Seq(Unit)]
           /\ \A i \in (Len(p) + 1)..(Len(p) + 3) : UnitsFrom(p, wd)[i] = <<>>
           /\ \A i \in 1..Len(p) :
                UnitsFrom(p, wd)[i] = <<UnitAt(p, wd, i)>> \o UnitsFrom(p, wd)[NextAt(p, wd, i)]
<1> DEFINE n == Len(p) + 3
           S == Seq(Unit)
           H == [1..n -> S]
           op == [g \in H \X (1..n) |-> UnitsStep(p, wd, g[1], g[2])]
           Rec(h) == h = [i \in 1..n |-> UnitsStep(p, wd, h, i)]
<1>1. UnitsFrom(p, wd) = CHOOSE h : Rec(h)
  BY DEF UnitsFrom, UnitsStep
<1>2. n \in Nat /\ Len(p) \in Nat
  OBVIOUS
<1>3. \A u \in Unit, s \in S : <<u>> \o s \in S
  OBVIOUS
<1>4. <<>> \in S /\ <<Bad>> \in S
  BY UnitsOfUnit
<1> HIDE DEF S
<1>5. ASSUME NEW i \in 1..n
      PROVE  \/ i \in (Len(p) + 1)..(Len(p) + 3) /\ i > Len(p)
             \/ i \in 1..Len(p) /\ ~(i > Len(p))
  BY <1>2
<1>6. ASSUME NEW h, NEW i \in 1..n, \A j \in (i + 1)..n : h[j] \in S
      PROVE  UnitsStep(p, wd, h, i) \in S
  <2>1. CASE i > Len(p)
    BY <1>4, <2>1, UnitsStepIs
  <2>2. CASE i \in 1..Len(p) /\ ~(i > Len(p))
    <3>1. UnitAt(p, wd, i) \in Unit /\ NextAt(p, wd, i) \in (i + 1)..n
      BY <2>2, UnitAtFacts
    <3>2. <<UnitAt(p, wd, i)>> \o h[NextAt(p, wd, i)] \in S
      BY <1>3, <1>6, <3>1
    <3>3. QED
      BY <1>4, <2>2, <3>2, UnitsStepIs
  <2>3. QED
    BY <1>5, <2>1, <2>2
<1>7. op \in [H \X (1..n) -> S]
  <2>1. ASSUME NEW h \in H, NEW i \in 1..n PROVE UnitsStep(p, wd, h, i) \in S
    <3>1. \A j \in (i + 1)..n : j \in 1..n
      BY <1>2
    <3>2. QED
      BY <1>6, <3>1
  <2>2. QED
    BY <2>1
<1>8. ASSUME NEW g \in H, NEW h \in H, NEW i \in 1..n, \A j \in (i + 1)..n : g[j] = h[j]
      PROVE  op[<<g, i>>] = op[<<h, i>>]
  <2>1. UnitsStep(p, wd, g, i) = UnitsStep(p, wd, h, i)
    <3>1. CASE i > Len(p)
      BY <3>1, UnitsStepIs
    <3>2. CASE i \in 1..Len(p) /\ ~(i > Len(p))
      <4>1. NextAt(p, wd, i) \in (i + 1)..n
        BY <3>2, UnitAtFacts
      <4>2. g[NextAt(p, wd, i)] = h[NextAt(p, wd, i)]
        BY <1>8, <4>1
      <4>3. /\ UnitsStep(p, wd, g, i) = IF Stuck(p, i) THEN <<Bad>>
                                        ELSE <<UnitAt(p, wd, i)>> \o g[NextAt(p, wd, i)]
            /\ UnitsStep(p, wd, h, i) = IF Stuck(p, i) THEN <<Bad>>
                                        ELSE <<UnitAt(p, wd, i)>> \o h[NextAt(p, wd, i)]
        <5>1. ASSUME NEW f PROVE UnitsStep(p, wd, f, i) = IF Stuck(p, i) THEN <<Bad>>
                                        ELSE <<UnitAt(p, wd, i)>> \o f[NextAt(p, wd, i)]
          BY <3>2, UnitsStepIs
        <5>2. QED
          BY <5>1
      <4>4. QED
        BY <4>2, <4>3
    <3>3. QED
      BY <1>5, <3>1, <3>2
  <2>2. QED
    BY <2>1
<1>9. \E h : Rec(h)
  <2>1. S # {}
    BY <1>4
  <2>2. LooksRight(op, n, S)
    BY <1>7, <1>8 DEF LooksRight
  <2> HIDE DEF n, op
  <2>3. PICK h : Solves(h, op, n, S)
    BY <1>2, <2>1, <2>2, RecursionExists
  <2>4. h \in H /\ \A i \in 1..n : h[i] = UnitsStep(p, wd, h, i)
    BY <2>3 DEF Solves, op
  <2>5. Rec(h)
    BY <2>4
  <2>6. QED
    BY <2>5
<1>10. Rec(UnitsFrom(p, wd))
  BY <1>1, <1>9
<1> DEFINE h == UnitsFrom(p, wd)
           T == {i \in 1..n : h[i] \in S}
<1>11. \A i \in 1..n : h[i] = UnitsStep(p, wd, h, i)
  BY <1>10
<1>12. ASSUME NEW i \in 1..n, \A j \in (i + 1)..n : j \in T PROVE i \in T
  BY <1>6, <1>11, <1>12
<1>13. \A i \in 1..n : i \in T
  <2> HIDE DEF T, n
  <2>1. QED
    BY <1>2, <1>12, Downwards
<1>14. h \in H
  <2>1. h = [i \in 1..n |-> h[i]]
    BY <1>10
  <2>2. QED
    BY <1>13, <2>1
<1>15. ASSUME NEW i \in (Len(p) + 1)..(Len(p) + 3) PROVE h[i] = <<>>
  <2>1. i \in 1..n /\ i > Len(p)
    BY <1>2
  <2>2. QED
    BY <1>11, <2>1, UnitsStepIs
<1>16. ASSUME NEW i \in 1..Len(p)
       PROVE  h[i] = <<UnitAt(p, wd, i)>> \o h[NextAt(p, wd, i)]
  <2>1. i \in 1..n /\ ~(i > Len(p)) /\ Len(p) + 1 \in (Len(p) + 1)..(Len(p) + 3)
    BY <1>2
  <2>2. CASE Stuck(p, i)
    <3>1. UnitAt(p, wd, i) = Bad /\ NextAt(p, wd, i) = Len(p) + 1
      BY <2>2 DEF UnitAt, NextAt
    <3>2. h[Len(p) + 1] = <<>>
      BY <1>15, <2>1
    <3>3. h[i] = <<Bad>>
      BY <1>11, <2>1, <2>2, UnitsStepIs
    <3>4. <<Bad>> \o <<>> = <<Bad>>
      OBVIOUS
    <3>5. QED
      BY <3>1, <3>2, <3>3, <3>4
  <2>3. CASE ~Stuck(p, i)
    BY <1>11, <2>1, <2>3, UnitsStepIs
  <2>4. QED
    BY <2>2, <2>3
<1>17. QED
  BY <1>14, <1>15, <1>16 DEF S

DirsStep(p, from, i, inClass) ==
    IF i > Len(p) THEN {}
    ELSE CASE p[i] = "\\" -> from[i + 2][inClass]
           [] inClass /\ p[i] # "\\" -> from[i + 1][p[i] # "]"]
           [] ~inClass /\ p[i] = "[" -> from[i + 1][TRUE]
           [] ~inClass /\ DoubleStarDir(p, i) -> {i} \cup from[i + 3][FALSE]
           [] OTHER -> from[i + 1][inClass]

LEMMA DirsStepIs ==
    ASSUME NEW p \in Seq(Signs), NEW from, NEW i \in 1..(Len(p) + 3), NEW b \in BOOLEAN
    PROVE  DirsStep(p, from, i, b)
             = IF i > Len(p) THEN {}
               ELSE IF p[i] = "\\" THEN from[i + 2][b]
               ELSE IF b THEN from[i + 1][p[i] # "]"]
               ELSE IF p[i] = "[" THEN from[i + 1][TRUE]
               ELSE IF DoubleStarDir(p, i) THEN {i} \cup from[i + 3][FALSE]
               ELSE from[i + 1][FALSE]
<1>1. DoubleStarDir(p, i) => p[i] = "*"
  BY StarsFacts
<1>2. CASE i > Len(p)
  BY <1>2 DEF DirsStep
<1>3. CASE ~(i > Len(p)) /\ p[i] = "\\"
  BY <1>1, <1>3 DEF DirsStep
<1>4. CASE ~(i > Len(p)) /\ p[i] # "\\" /\ b = TRUE
  BY <1>1, <1>4 DEF DirsStep
<1>5. CASE ~(i > Len(p)) /\ p[i] # "\\" /\ b = FALSE
  BY <1>1, <1>5 DEF DirsStep
<1>6. QED
  BY <1>2, <1>3, <1>4, <1>5

LEMMA DirsSteps ==
    ASSUME NEW p \in Seq(Signs)
    PROVE  /\ DirsFrom(p) \in [1..(Len(p) + 3) -> [BOOLEAN -> SUBSET Nat]]
           /\ \A i \in 1..(Len(p) + 3), b \in BOOLEAN :
                DirsFrom(p)[i][b] = DirsStep(p, DirsFrom(p), i, b)
<1> DEFINE n == Len(p) + 3
           S == [BOOLEAN -> SUBSET Nat]
           H == [1..n -> S]
           Step(h, i) == [b \in BOOLEAN |-> DirsStep(p, h, i, b)]
           op == [g \in H \X (1..n) |-> Step(g[1], g[2])]
           Rec(h) == h = [i \in 1..n |-> Step(h, i)]
<1>1. DirsFrom(p) = CHOOSE h : Rec(h)
  BY DEF DirsFrom, DirsStep
<1>2. n \in Nat /\ Len(p) \in Nat
  OBVIOUS
<1>3. ASSUME NEW h, NEW i \in 1..n, \A j \in (i + 1)..n : h[j] \in S
      PROVE  Step(h, i) \in S
  <2>1. ASSUME NEW b \in BOOLEAN PROVE DirsStep(p, h, i, b) \in SUBSET Nat
    <3>1. CASE i > Len(p)
      BY <3>1, DirsStepIs
    <3>2. CASE ~(i > Len(p))
      <4>1. i + 1 \in (i + 1)..n /\ i + 2 \in (i + 1)..n /\ i + 3 \in (i + 1)..n
        BY <1>2, <3>2
      <4>2. h[i + 1] \in S /\ h[i + 2] \in S /\ h[i + 3] \in S
        BY <1>3, <4>1
      <4>3. \A c \in BOOLEAN : h[i + 1][c] \in SUBSET Nat /\ h[i + 2][c] \in SUBSET Nat
                               /\ {i} \cup h[i + 3][c] \in SUBSET Nat
        BY <1>2, <4>2
      <4>4. (p[i] # "]") \in BOOLEAN /\ TRUE \in BOOLEAN /\ FALSE \in BOOLEAN
        OBVIOUS
      <4>5. CASE p[i] = "\\"
        <5>1. DirsStep(p, h, i, b) = h[i + 2][b]
          BY <3>2, <4>5, DirsStepIs
        <5>2. QED
          BY <4>3, <5>1
      <4>6. CASE p[i] # "\\" /\ b
        <5>1. DirsStep(p, h, i, b) = h[i + 1][p[i] # "]"]
          BY <3>2, <4>6, DirsStepIs
        <5>2. h[i + 1][p[i] # "]"] \in SUBSET Nat
          BY <4>3, <4>4
        <5>3. QED
          BY <5>1, <5>2
      <4>7. CASE p[i] # "\\" /\ ~b
        <5>0. DirsStep(p, h, i, b)
                = IF p[i] = "[" THEN h[i + 1][TRUE]
                  ELSE IF DoubleStarDir(p, i) THEN {i} \cup h[i + 3][FALSE]
                  ELSE h[i + 1][FALSE]
          BY <3>2, <4>7, DirsStepIs
        <5>1. CASE p[i] = "["
          BY <4>3, <4>4, <5>0, <5>1
        <5>2. CASE p[i] # "[" /\ DoubleStarDir(p, i)
          BY <4>3, <4>4, <5>0, <5>2
        <5>3. CASE p[i] # "[" /\ ~DoubleStarDir(p, i)
          BY <4>3, <4>4, <5>0, <5>3
        <5>4. QED
          BY <5>1, <5>2, <5>3
      <4>8. QED
        BY <4>5, <4>6, <4>7
    <3>3. QED
      BY <3>1, <3>2
  <2>2. QED
    BY <2>1
<1>4. op \in [H \X (1..n) -> S]
  <2>1. ASSUME NEW h \in H, NEW i \in 1..n PROVE Step(h, i) \in S
    <3>1. \A j \in (i + 1)..n : j \in 1..n
      BY <1>2
    <3>2. \A j \in (i + 1)..n : h[j] \in S
      BY <3>1
    <3> HIDE DEF Step, S
    <3>3. QED
      BY <1>3, <3>2
  <2> HIDE DEF Step, S
  <2>2. QED
    BY <2>1
<1>5. ASSUME NEW g \in H, NEW h \in H, NEW i \in 1..n, \A j \in (i + 1)..n : g[j] = h[j]
      PROVE  op[<<g, i>>] = op[<<h, i>>]
  <2>1. ASSUME NEW b \in BOOLEAN PROVE DirsStep(p, g, i, b) = DirsStep(p, h, i, b)
    <3>1. CASE i > Len(p)
      BY <3>1 DEF DirsStep
    <3>2. CASE ~(i > Len(p))
      <4>1. i + 1 \in (i + 1)..n /\ i + 2 \in (i + 1)..n /\ i + 3 \in (i + 1)..n
        BY <1>2, <3>2
      <4>2. g[i + 1] = h[i + 1] /\ g[i + 2] = h[i + 2] /\ g[i + 3] = h[i + 3]
        BY <1>5, <4>1
      <4>3. QED
        BY <4>2 DEF DirsStep
    <3>3. QED
      BY <3>1, <3>2
  <2>2. Step(g, i) = Step(h, i)
    BY <2>1
  <2> HIDE DEF Step
  <2>3. QED
    BY <2>2
<1> HIDE DEF Step
<1>6. \E h : Rec(h)
  <2>1. S # {}
    <3>1. [b \in BOOLEAN |-> {}] \in S
      OBVIOUS
    <3>2. QED
      BY <3>1
  <2> HIDE DEF S
  <2>2. LooksRight(op, n, S)
    BY <1>4, <1>5 DEF LooksRight
  <2> HIDE DEF n, op
  <2>3. PICK h : Solves(h, op, n, S)
    BY <1>2, <2>1, <2>2, RecursionExists
  <2>4. h \in H /\ \A i \in 1..n : h[i] = Step(h, i)
    BY <2>3 DEF Solves, op
  <2>5. Rec(h)
    BY <2>4
  <2>6. QED
    BY <2>5
<1>7. Rec(DirsFrom(p))
  BY <1>1, <1>6
<1> DEFINE h == DirsFrom(p)
           T == {i \in 1..n : h[i] \in S}
<1> HIDE DEF S
<1>8. \A i \in 1..n : h[i] = Step(h, i)
  BY <1>7
<1>9. ASSUME NEW i \in 1..n, \A j \in (i + 1)..n : j \in T PROVE i \in T
  BY <1>3, <1>8, <1>9
<1>10. \A i \in 1..n : i \in T
  <2> HIDE DEF T, n
  <2>1. QED
    BY <1>2, <1>9, Downwards
<1>11. h \in H
  <2>1. h = [i \in 1..n |-> h[i]]
    BY <1>7
  <2>2. QED
    BY <1>10, <2>1
<1>12. \A i \in 1..n, b \in BOOLEAN : h[i][b] = DirsStep(p, h, i, b)
  BY <1>8 DEF Step
<1>13. QED
  BY <1>11, <1>12 DEF S

CutStep(p, cuts, from, i) ==
    IF i > Len(p) THEN <<>>
    ELSE IF i \in cuts THEN from[i + 3] ELSE <<p[i]>> \o from[i + 1]

LEMMA CutSteps ==
    ASSUME NEW p \in Seq(Signs), NEW cuts
    PROVE  /\ CutFrom(p, cuts) \in [1..(Len(p) + 3) -> Seq(Signs)]
           /\ \A i \in 1..(Len(p) + 3) :
                CutFrom(p, cuts)[i] = CutStep(p, cuts, CutFrom(p, cuts), i)
<1> DEFINE n == Len(p) + 3
           S == Seq(Signs)
           H == [1..n -> S]
           op == [g \in H \X (1..n) |-> CutStep(p, cuts, g[1], g[2])]
           Rec(h) == h = [i \in 1..n |-> CutStep(p, cuts, h, i)]
<1>1. CutFrom(p, cuts) = CHOOSE h : Rec(h)
  BY DEF CutFrom, CutStep
<1>2. n \in Nat /\ Len(p) \in Nat /\ \A i \in 1..Len(p) : p[i] \in Signs
  OBVIOUS
<1>3. \A c \in Signs, s \in S : <<c>> \o s \in S
  OBVIOUS
<1>4. <<>> \in S
  OBVIOUS
<1> HIDE DEF S
<1>5. ASSUME NEW h, NEW i \in 1..n, \A j \in (i + 1)..n : h[j] \in S
      PROVE  CutStep(p, cuts, h, i) \in S
  <2>1. CASE i > Len(p)
    BY <1>4, <2>1 DEF CutStep
  <2>2. CASE ~(i > Len(p))
    <3>1. i + 1 \in (i + 1)..n /\ i + 3 \in (i + 1)..n /\ i \in 1..Len(p)
      BY <1>2, <2>2
    <3>2. h[i + 1] \in S /\ h[i + 3] \in S /\ p[i] \in Signs
      BY <1>2, <1>5, <3>1
    <3>3. <<p[i]>> \o h[i + 1] \in S
      BY <1>3, <3>2
    <3>4. QED
      BY <2>2, <3>2, <3>3 DEF CutStep
  <2>3. QED
    BY <2>1, <2>2
<1>6. op \in [H \X (1..n) -> S]
  <2>1. ASSUME NEW h \in H, NEW i \in 1..n PROVE CutStep(p, cuts, h, i) \in S
    <3>1. \A j \in (i + 1)..n : j \in 1..n
      BY <1>2
    <3>2. QED
      BY <1>5, <3>1
  <2>2. QED
    BY <2>1
<1>7. ASSUME NEW g \in H, NEW h \in H, NEW i \in 1..n, \A j \in (i + 1)..n : g[j] = h[j]
      PROVE  op[<<g, i>>] = op[<<h, i>>]
  <2>1. CutStep(p, cuts, g, i) = CutStep(p, cuts, h, i)
    <3>1. CASE i > Len(p)
      BY <3>1 DEF CutStep
    <3>2. CASE ~(i > Len(p))
      <4>1. i + 1 \in (i + 1)..n /\ i + 3 \in (i + 1)..n
        BY <1>2, <3>2
      <4>2. g[i + 1] = h[i + 1] /\ g[i + 3] = h[i + 3]
        BY <1>7, <4>1
      <4>3. QED
        BY <4>2 DEF CutStep
    <3>3. QED
      BY <3>1, <3>2
  <2>2. QED
    BY <2>1
<1>8. \E h : Rec(h)
  <2>1. S # {}
    BY <1>4
  <2>2. LooksRight(op, n, S)
    BY <1>6, <1>7 DEF LooksRight
  <2> HIDE DEF n, op
  <2>3. PICK h : Solves(h, op, n, S)
    BY <1>2, <2>1, <2>2, RecursionExists
  <2>4. h \in H /\ \A i \in 1..n : h[i] = CutStep(p, cuts, h, i)
    BY <2>3 DEF Solves, op
  <2>5. Rec(h)
    BY <2>4
  <2>6. QED
    BY <2>5
<1>9. Rec(CutFrom(p, cuts))
  BY <1>1, <1>8
<1> DEFINE h == CutFrom(p, cuts)
           T == {i \in 1..n : h[i] \in S}
<1>10. \A i \in 1..n : h[i] = CutStep(p, cuts, h, i)
  BY <1>9
<1>11. ASSUME NEW i \in 1..n, \A j \in (i + 1)..n : j \in T PROVE i \in T
  BY <1>5, <1>10, <1>11
<1>12. \A i \in 1..n : i \in T
  <2> HIDE DEF T, n
  <2>1. QED
    BY <1>2, <1>11, Downwards
<1>13. h \in H
  <2>1. h = [i \in 1..n |-> h[i]]
    BY <1>9
  <2>2. QED
    BY <1>12, <2>1
<1>14. QED
  BY <1>10, <1>13 DEF S

-------------------------------------------------------------------------------
(* Classes, and where the "**/" segments are.                                *)

LEMMA ClassIs ==
    ASSUME NEW p \in Seq(Signs), NEW i \in 1..(Len(p) + 2)
    PROVE  /\ i > Len(p) \/ p[i] = "]" => Classes(p)[i].end = i /\ Classes(p)[i].of = {}
           /\ i < Len(p) /\ p[i] = "\\" =>
                /\ Classes(p)[i].end = Classes(p)[i + 2].end
                /\ Classes(p)[i].of = Classes(p)[i + 2].of \cup {p[i + 1]}
           /\ i <= Len(p) /\ p[i] # "]" /\ ~(i < Len(p) /\ p[i] = "\\") =>
                /\ Classes(p)[i].end = Classes(p)[i + 1].end
                /\ Classes(p)[i].of = Classes(p)[i + 1].of \cup {p[i]}
<1> DEFINE class == Classes(p)
<1>1. Len(p) \in Nat
  OBVIOUS
<1>2. class[i] = ClassStep(p, class, i)
  BY ClassesSteps
<1>3. \A j \in 1..(Len(p) + 2) : DOMAIN class[j] = {"end", "of"}
  BY ClassesSteps DEF ClassOf
<1> HIDE DEF class
<1>4. CASE i > Len(p)
  <2>1. ~(i <= Len(p)) /\ ~(i < Len(p))
    BY <1>1, <1>4
  <2>2. class[i] = [end |-> i, of |-> {}]
    BY <1>2, <1>4, <2>1 DEF ClassStep
  <2>3. QED
    BY <2>1, <2>2 DEF class
<1>5. CASE i <= Len(p) /\ p[i] = "]"
  <2>1. ~(i > Len(p))
    BY <1>1, <1>5
  <2>2. class[i] = [end |-> i, of |-> {}]
    BY <1>2, <1>5, <2>1 DEF ClassStep
  <2>3. QED
    BY <1>5, <2>1, <2>2 DEF class
<1>6. CASE i < Len(p) /\ p[i] = "\\"
  <2>1. ~(i > Len(p)) /\ i + 2 \in 1..(Len(p) + 2)
    BY <1>1, <1>6
  <2>2. class[i] = [class[i + 2] EXCEPT !.of = @ \cup {p[i + 1]}]
    BY <1>2, <1>6, <2>1 DEF ClassStep
  <2>3. class[i].end = class[i + 2].end /\ class[i].of = class[i + 2].of \cup {p[i + 1]}
    BY <1>3, <2>1, <2>2
  <2>4. QED
    BY <1>6, <2>1, <2>3 DEF class
<1>7. CASE i <= Len(p) /\ p[i] # "]" /\ ~(i < Len(p) /\ p[i] = "\\")
  <2>1. ~(i > Len(p)) /\ i + 1 \in 1..(Len(p) + 2)
    BY <1>1, <1>7
  <2>2. class[i] = [class[i + 1] EXCEPT !.of = @ \cup {p[i]}]
    BY <1>2, <1>7, <2>1 DEF ClassStep
  <2>3. class[i].end = class[i + 1].end /\ class[i].of = class[i + 1].of \cup {p[i]}
    BY <1>3, <2>1, <2>2
  <2>4. QED
    BY <1>7, <2>1, <2>3 DEF class
<1>8. QED
  BY <1>1, <1>4, <1>5, <1>6, <1>7

\* s has at j + d what p has at j, from i to e.
Shifted(p, s, d, i, e) == \A j \in i..e : j + d \in 1..Len(s) /\ s[j + d] = p[j]

SameClass(p, s, d, i) ==
    Classes(p)[i].end <= Len(p) /\ Shifted(p, s, d, i, Classes(p)[i].end)
      => /\ Classes(s)[i + d].end = Classes(p)[i].end + d
         /\ Classes(s)[i + d].of = Classes(p)[i].of

\* A class that ends is read from its own characters.
LEMMA ClassLocal ==
    ASSUME NEW p \in Seq(Signs), NEW s \in Seq(Signs), NEW d \in Int,
           NEW i \in 1..(Len(p) + 2)
    PROVE  SameClass(p, s, d, i)
<1> DEFINE n == Len(p) + 2
           T == {k \in 1..n : SameClass(p, s, d, k)}
<1>1. n \in Nat /\ Len(p) \in Nat /\ Len(s) \in Nat
  OBVIOUS
<1>2. ASSUME NEW k \in 1..n, \A j \in (k + 1)..n : j \in T PROVE k \in T
  <2> DEFINE e == Classes(p)[k].end
  <2> SUFFICES ASSUME e <= Len(p), Shifted(p, s, d, k, e)
               PROVE  Classes(s)[k + d].end = e + d /\ Classes(s)[k + d].of = Classes(p)[k].of
    BY DEF SameClass
  <2>1. e \in Nat /\ e >= k
    BY ClassEnds
  <2>2. k \in k..e /\ k \in 1..Len(p)
    BY <1>1, <2>1
  <2>3. k + d \in 1..Len(s) /\ s[k + d] = p[k]
    BY <2>2 DEF Shifted
  <2>4. k + d \in 1..(Len(s) + 2) /\ k + d <= Len(s)
    BY <1>1, <2>3
  <2>5. CASE p[k] = "]"
    <3>1. e = k /\ Classes(p)[k].of = {}
      BY <2>5, ClassIs
    <3>2. Classes(s)[k + d].end = k + d /\ Classes(s)[k + d].of = {}
      BY <2>3, <2>4, <2>5, ClassIs
    <3>3. QED
      BY <3>1, <3>2
  <2>6. CASE k < Len(p) /\ p[k] = "\\"
    <3>1. k + 2 \in (k + 1)..n /\ k + 2 \in 1..n
      BY <1>1, <2>6
    <3>2. e = Classes(p)[k + 2].end /\ Classes(p)[k].of = Classes(p)[k + 2].of \cup {p[k + 1]}
      BY <2>6, ClassIs
    <3>3. e >= k + 2
      BY <3>1, <3>2, ClassEnds
    <3>4. k + 1 \in k..e /\ \A j \in (k + 2)..e : j \in k..e
      BY <1>1, <2>1, <3>3
    <3>5. k + 1 + d \in 1..Len(s) /\ s[k + 1 + d] = p[k + 1]
      BY <3>4 DEF Shifted
    <3>6. Shifted(p, s, d, k + 2, e)
      BY <3>4 DEF Shifted
    <3>7. Classes(s)[k + 2 + d].end = e + d /\ Classes(s)[k + 2 + d].of = Classes(p)[k + 2].of
      <4>1. SameClass(p, s, d, k + 2)
        BY <1>2, <3>1
      <4> HIDE DEF e
      <4>2. QED
        BY <3>2, <3>6, <4>1 DEF SameClass
    <3>8. k + 1 + d = k + d + 1 /\ k + 2 + d = k + d + 2 /\ k + d < Len(s)
      BY <1>1, <2>4, <3>5
    <3>9. /\ Classes(s)[k + d].end = Classes(s)[k + d + 2].end
          /\ Classes(s)[k + d].of = Classes(s)[k + d + 2].of \cup {s[k + d + 1]}
      BY <2>3, <2>4, <2>6, <3>8, ClassIs
    <3>10. QED
      BY <3>2, <3>5, <3>7, <3>8, <3>9
  <2>7. CASE p[k] # "]" /\ ~(k < Len(p) /\ p[k] = "\\")
    <3>1. k + 1 \in (k + 1)..n /\ k + 1 \in 1..n /\ k <= Len(p)
      BY <1>1, <2>2
    <3>2. e = Classes(p)[k + 1].end /\ Classes(p)[k].of = Classes(p)[k + 1].of \cup {p[k]}
      BY <2>7, <3>1, ClassIs
    <3>3. e >= k + 1
      BY <3>1, <3>2, ClassEnds
    <3>4. \A j \in (k + 1)..e : j \in k..e
      BY <1>1, <2>1, <3>3
    <3>5. Shifted(p, s, d, k + 1, e)
      BY <3>4 DEF Shifted
    <3>6. p[k] # "\\"
      BY <1>1, <2>1, <2>2, <2>7, <3>3
    <3>7. Classes(s)[k + 1 + d].end = e + d /\ Classes(s)[k + 1 + d].of = Classes(p)[k + 1].of
      <4>1. SameClass(p, s, d, k + 1)
        BY <1>2, <3>1
      <4> HIDE DEF e
      <4>2. QED
        BY <3>2, <3>5, <4>1 DEF SameClass
    <3>8. k + 1 + d = k + d + 1
      BY <1>1
    <3>9. /\ Classes(s)[k + d].end = Classes(s)[k + d + 1].end
          /\ Classes(s)[k + d].of = Classes(s)[k + d + 1].of \cup {s[k + d]}
      BY <2>3, <2>4, <2>7, <3>6, ClassIs
    <3>10. QED
      BY <2>3, <3>2, <3>7, <3>8, <3>9
  <2>8. QED
    BY <2>5, <2>6, <2>7
<1>3. \A k \in 1..n : k \in T
  <2> HIDE DEF T, n
  <2>1. QED
    BY <1>1, <1>2, Downwards
<1>4. QED
  BY <1>3

Dirs(p, i, inClass) == DirsFrom(p)[i][inClass]

LEMMA DirsIs ==
    ASSUME NEW p \in Seq(Signs), NEW i \in 1..(Len(p) + 3)
    PROVE  /\ \A b \in BOOLEAN : Dirs(p, i, b) \in SUBSET Nat
           /\ \A b \in BOOLEAN : i > Len(p) => Dirs(p, i, b) = {}
           /\ \A b \in BOOLEAN : i <= Len(p) /\ p[i] = "\\" => Dirs(p, i, b) = Dirs(p, i + 2, b)
           /\ i <= Len(p) /\ p[i] = "]" => Dirs(p, i, TRUE) = Dirs(p, i + 1, FALSE)
           /\ i <= Len(p) /\ p[i] # "]" /\ p[i] # "\\" => Dirs(p, i, TRUE) = Dirs(p, i + 1, TRUE)
           /\ i <= Len(p) /\ p[i] = "[" => Dirs(p, i, FALSE) = Dirs(p, i + 1, TRUE)
           /\ i <= Len(p) /\ DoubleStarDir(p, i) => Dirs(p, i, FALSE) = {i} \cup Dirs(p, i + 3, FALSE)
           /\ i <= Len(p) /\ p[i] # "\\" /\ p[i] # "[" /\ ~DoubleStarDir(p, i)
                => Dirs(p, i, FALSE) = Dirs(p, i + 1, FALSE)
<1>1. Len(p) \in Nat
  OBVIOUS
<1>2. \A b \in BOOLEAN : DirsFrom(p)[i][b] = DirsStep(p, DirsFrom(p), i, b)
  BY DirsSteps
<1>3. \A b \in BOOLEAN : DirsFrom(p)[i][b] \in SUBSET Nat
  <2>1. DirsFrom(p)[i] \in [BOOLEAN -> SUBSET Nat]
    BY DirsSteps
  <2>2. QED
    BY <2>1
<1>4. DoubleStarDir(p, i) => p[i] = "*"
  BY StarsFacts
<1>5. CASE i > Len(p)
  <2>1. ~(i <= Len(p))
    BY <1>1, <1>5
  <2>2. \A b \in BOOLEAN : DirsFrom(p)[i][b] = {}
    BY <1>2, <1>5, DirsStepIs
  <2>3. QED
    BY <1>3, <2>1, <2>2 DEF Dirs
<1>6. CASE ~(i > Len(p)) /\ p[i] = "\\"
  <2>1. \A b \in BOOLEAN : DirsFrom(p)[i][b] = DirsFrom(p)[i + 2][b]
    BY <1>2, <1>6, DirsStepIs
  <2>2. QED
    BY <1>3, <1>4, <1>6, <2>1 DEF Dirs
<1>7. CASE ~(i > Len(p)) /\ p[i] # "\\"
  <2>1. DirsFrom(p)[i][TRUE] = DirsFrom(p)[i + 1][p[i] # "]"]
    BY <1>2, <1>7, DirsStepIs
  <2>2. p[i] = "]" => (p[i] # "]") = FALSE
    OBVIOUS
  <2>3. p[i] # "]" => (p[i] # "]") = TRUE
    OBVIOUS
  <2>4. /\ p[i] = "]" => DirsFrom(p)[i][TRUE] = DirsFrom(p)[i + 1][FALSE]
        /\ p[i] # "]" => DirsFrom(p)[i][TRUE] = DirsFrom(p)[i + 1][TRUE]
    BY <2>1, <2>2, <2>3
  <2>5. DirsFrom(p)[i][FALSE]
          = IF p[i] = "[" THEN DirsFrom(p)[i + 1][TRUE]
            ELSE IF DoubleStarDir(p, i) THEN {i} \cup DirsFrom(p)[i + 3][FALSE]
            ELSE DirsFrom(p)[i + 1][FALSE]
    BY <1>2, <1>7, DirsStepIs
  <2>6. QED
    BY <1>3, <1>4, <1>7, <2>4, <2>5 DEF Dirs
<1>8. QED
  BY <1>5, <1>6, <1>7

\* Every segment found from i on begins there or later, and is one.
LEMMA DirsWithin ==
    ASSUME NEW p \in Seq(Signs)
    PROVE  \A i \in 1..(Len(p) + 3), b \in BOOLEAN : \A k \in Dirs(p, i, b) :
               k \in i..Len(p) /\ DoubleStarDir(p, k)
<1> DEFINE n == Len(p) + 3
           Fine(i, b) == \A k \in Dirs(p, i, b) : k \in i..Len(p) /\ DoubleStarDir(p, k)
           T == {i \in 1..n : Fine(i, TRUE) /\ Fine(i, FALSE)}
<1>1. n \in Nat /\ Len(p) \in Nat
  OBVIOUS
<1>2. ASSUME NEW i \in 1..n, \A j \in (i + 1)..n : j \in T PROVE i \in T
  <2>1. CASE i > Len(p)
    <3>1. Dirs(p, i, TRUE) = {} /\ Dirs(p, i, FALSE) = {}
      BY <2>1, DirsIs
    <3>2. QED
      BY <3>1
  <2>2. CASE i <= Len(p)
    <3>1. i + 1 \in (i + 1)..n /\ i + 2 \in (i + 1)..n /\ i + 3 \in (i + 1)..n
      BY <1>1, <2>2
    <3>2. \A j \in {i + 1, i + 2, i + 3} : Fine(j, TRUE) /\ Fine(j, FALSE)
      BY <1>2, <3>1
    <3>3. \A j \in {i + 1, i + 2, i + 3} : \A k : k \in j..Len(p) => k \in i..Len(p)
      BY <1>1, <3>1
    <3>4. \A j \in {i + 1, i + 2, i + 3}, b \in BOOLEAN :
              \A k \in Dirs(p, j, b) : k \in i..Len(p) /\ DoubleStarDir(p, k)
      <4>1. ASSUME NEW j \in {i + 1, i + 2, i + 3}, NEW b \in BOOLEAN, NEW k \in Dirs(p, j, b)
            PROVE  k \in i..Len(p) /\ DoubleStarDir(p, k)
        <5>1. Fine(j, b)
          <6>1. CASE b = TRUE
            BY <3>2, <6>1
          <6>2. CASE b = FALSE
            BY <3>2, <6>2
          <6>3. QED
            BY <6>1, <6>2
        <5>2. k \in j..Len(p) /\ DoubleStarDir(p, k)
          BY <5>1
        <5>3. QED
          BY <3>3, <5>2
      <4>2. QED
        BY <4>1
    <3>5. Fine(i, TRUE)
      <4>1. Dirs(p, i, TRUE) = Dirs(p, i + 2, TRUE) \/ Dirs(p, i, TRUE) = Dirs(p, i + 1, FALSE)
            \/ Dirs(p, i, TRUE) = Dirs(p, i + 1, TRUE)
        BY <2>2, DirsIs
      <4>2. QED
        BY <3>4, <4>1
    <3>6. Fine(i, FALSE)
      <4>1. CASE DoubleStarDir(p, i)
        <5>0. i \in i..Len(p)
          BY <1>1, <2>2
        <5>1. Dirs(p, i, FALSE) = {i} \cup Dirs(p, i + 3, FALSE) /\ i \in i..Len(p)
          BY <2>2, <4>1, <5>0, DirsIs
        <5>2. \A k \in Dirs(p, i + 3, FALSE) : k \in i..Len(p) /\ DoubleStarDir(p, k)
          BY <3>4
        <5>3. QED
          BY <4>1, <5>1, <5>2
      <4>2. CASE ~DoubleStarDir(p, i)
        <5>1. Dirs(p, i, FALSE) = Dirs(p, i + 2, FALSE) \/ Dirs(p, i, FALSE) = Dirs(p, i + 1, FALSE)
              \/ Dirs(p, i, FALSE) = Dirs(p, i + 1, TRUE)
          BY <2>2, <4>2, DirsIs
        <5>2. QED
          BY <3>4, <5>1
      <4>3. QED
        BY <4>1, <4>2
    <3>7. QED
      BY <3>5, <3>6
  <2>3. i > Len(p) \/ i <= Len(p)
    BY <1>1
  <2>4. QED
    BY <2>1, <2>2, <2>3
<1>3. \A i \in 1..n : i \in T
  <2> HIDE DEF T, n
  <2>1. QED
    BY <1>1, <1>2, Downwards
<1>4. ASSUME NEW i \in 1..n, NEW b \in BOOLEAN PROVE Fine(i, b)
  <2>1. CASE b = TRUE
    BY <1>3, <2>1
  <2>2. CASE b = FALSE
    BY <1>3, <2>2
  <2>3. QED
    BY <2>1, <2>2
<1>5. QED
  BY <1>4

\* From inside of a class the search goes on behind it, if it ends.
LEMMA ClassDirs ==
    ASSUME NEW p \in Seq(Signs), NEW i \in 1..(Len(p) + 2)
    PROVE  Dirs(p, i, TRUE) = IF Classes(p)[i].end > Len(p) THEN {}
                              ELSE Dirs(p, Classes(p)[i].end + 1, FALSE)
<1> DEFINE n == Len(p) + 2
           e(j) == Classes(p)[j].end
           Fine(j) == Dirs(p, j, TRUE) = IF e(j) > Len(p) THEN {} ELSE Dirs(p, e(j) + 1, FALSE)
           T == {j \in 1..n : Fine(j)}
<1>1. n \in Nat /\ Len(p) \in Nat
  OBVIOUS
<1>2. ASSUME NEW j \in 1..n, \A k \in (j + 1)..n : k \in T PROVE j \in T
  <2>0. j \in 1..(Len(p) + 3)
    BY <1>1
  <2>1. CASE j > Len(p)
    <3>1. Dirs(p, j, TRUE) = {} /\ e(j) = j
      BY <2>0, <2>1, ClassIs, DirsIs
    <3>2. QED
      BY <2>1, <3>1
  <2>2. CASE j <= Len(p) /\ p[j] = "]"
    <3>1. Dirs(p, j, TRUE) = Dirs(p, j + 1, FALSE)
      BY <2>0, <2>2, DirsIs
    <3>2. e(j) = j
      BY <2>2, ClassIs
    <3>3. ~(j > Len(p))
      BY <1>1, <2>2
    <3>4. QED
      BY <3>1, <3>2, <3>3
  <2>3. CASE j < Len(p) /\ p[j] = "\\"
    <3>1. j + 2 \in (j + 1)..n /\ j <= Len(p)
      BY <1>1, <2>3
    <3>2. Dirs(p, j, TRUE) = Dirs(p, j + 2, TRUE) /\ e(j) = e(j + 2)
      BY <2>0, <2>3, <3>1, ClassIs, DirsIs
    <3>3. Fine(j + 2)
      BY <1>2, <3>1
    <3>4. QED
      BY <3>2, <3>3
  <2>4. CASE j = Len(p) /\ p[j] = "\\"
    <3>1. j + 2 \in 1..(Len(p) + 3) /\ j + 2 > Len(p) /\ j + 1 \in 1..n /\ j + 1 > Len(p)
          /\ j <= Len(p) /\ ~(j < Len(p))
      BY <1>1, <2>4
    <3>2. Dirs(p, j, TRUE) = Dirs(p, j + 2, TRUE) /\ Dirs(p, j + 2, TRUE) = {}
      BY <2>0, <2>4, <3>1, DirsIs
    <3>3. e(j) = e(j + 1) /\ e(j + 1) = j + 1
      BY <2>4, <3>1, ClassIs
    <3>4. QED
      BY <3>1, <3>2, <3>3
  <2>5. CASE j <= Len(p) /\ p[j] # "]" /\ p[j] # "\\"
    <3>1. j + 1 \in (j + 1)..n
      BY <1>1, <2>5
    <3>2. Dirs(p, j, TRUE) = Dirs(p, j + 1, TRUE) /\ e(j) = e(j + 1)
      BY <2>0, <2>5, ClassIs, DirsIs
    <3>3. Fine(j + 1)
      BY <1>2, <3>1
    <3>4. QED
      BY <3>2, <3>3
  <2>6. j > Len(p) \/ j = Len(p) \/ j < Len(p)
    BY <1>1
  <2>7. j = Len(p) \/ j < Len(p) => j <= Len(p)
    BY <1>1
  <2>8. QED
    BY <2>1, <2>2, <2>3, <2>4, <2>5, <2>6, <2>7
<1>3. \A j \in 1..n : j \in T
  <2> HIDE DEF T, n
  <2>1. QED
    BY <1>1, <1>2, Downwards
<1>4. QED
  BY <1>3

-------------------------------------------------------------------------------
(* A pattern without some of its "**/".                                      *)

Rest(p, cuts, i) == CutFrom(p, cuts)[i]

LEMMA RestIs ==
    ASSUME NEW p \in Seq(Signs), NEW cuts, NEW i \in 1..(Len(p) + 3)
    PROVE  /\ Rest(p, cuts, i) \in Seq(Signs)
           /\ i > Len(p) => Rest(p, cuts, i) = <<>>
           /\ i <= Len(p) /\ i \in cuts => Rest(p, cuts, i) = Rest(p, cuts, i + 3)
           /\ i <= Len(p) /\ i \notin cuts => Rest(p, cuts, i) = <<p[i]>> \o Rest(p, cuts, i + 1)
<1>1. Len(p) \in Nat
  OBVIOUS
<1>2. Rest(p, cuts, i) \in Seq(Signs)
  BY CutSteps DEF Rest
<1>3. Rest(p, cuts, i) = CutStep(p, cuts, CutFrom(p, cuts), i)
  BY CutSteps DEF Rest
<1>4. CASE i > Len(p)
  <2>1. ~(i <= Len(p))
    BY <1>1, <1>4
  <2>2. QED
    BY <1>2, <1>3, <1>4, <2>1 DEF CutStep
<1>5. CASE ~(i > Len(p))
  BY <1>2, <1>3, <1>5 DEF CutStep, Rest
<1>6. QED
  BY <1>4, <1>5

\* What is left from i + 1 on does not depend on what happens to i.
LEMMA RestIsLater ==
    ASSUME NEW p \in Seq(Signs), NEW cuts, NEW i \in 1..Len(p), NEW k \in (i + 1)..(Len(p) + 3)
    PROVE  Rest(p, cuts \cup {i}, k) = Rest(p, cuts, k)
<1> DEFINE n == Len(p) + 3
           T == {j \in 1..n : j > i => Rest(p, cuts \cup {i}, j) = Rest(p, cuts, j)}
<1>1. n \in Nat /\ Len(p) \in Nat
  OBVIOUS
<1>2. ASSUME NEW j \in 1..n, \A m \in (j + 1)..n : m \in T PROVE j \in T
  <2> SUFFICES ASSUME j > i PROVE Rest(p, cuts \cup {i}, j) = Rest(p, cuts, j)
    OBVIOUS
  <2>1. CASE j > Len(p)
    <3>1. Rest(p, cuts \cup {i}, j) = <<>> /\ Rest(p, cuts, j) = <<>>
      BY <2>1, RestIs
    <3>2. QED
      BY <3>1
  <2>2. CASE j <= Len(p)
    <3>1. j + 1 \in (j + 1)..n /\ j + 3 \in (j + 1)..n /\ j + 1 > i /\ j + 3 > i /\ j # i
      BY <1>1, <2>2
    <3>2. /\ Rest(p, cuts \cup {i}, j + 1) = Rest(p, cuts, j + 1)
          /\ Rest(p, cuts \cup {i}, j + 3) = Rest(p, cuts, j + 3)
      BY <1>2, <3>1
    <3>3. j \in cuts \cup {i} <=> j \in cuts
      BY <3>1
    <3>4. CASE j \in cuts
      <4>1. /\ Rest(p, cuts \cup {i}, j) = Rest(p, cuts \cup {i}, j + 3)
            /\ Rest(p, cuts, j) = Rest(p, cuts, j + 3)
        BY <2>2, <3>3, <3>4, RestIs
      <4>2. QED
        BY <3>2, <4>1
    <3>5. CASE j \notin cuts
      <4>1. /\ Rest(p, cuts \cup {i}, j) = <<p[j]>> \o Rest(p, cuts \cup {i}, j + 1)
            /\ Rest(p, cuts, j) = <<p[j]>> \o Rest(p, cuts, j + 1)
        BY <2>2, <3>3, <3>5, RestIs
      <4>2. QED
        BY <3>2, <4>1
    <3>6. QED
      BY <3>4, <3>5
  <2>3. j > Len(p) \/ j <= Len(p)
    BY <1>1
  <2>4. QED
    BY <2>1, <2>2, <2>3
<1>3. \A j \in 1..n : j \in T
  <2> HIDE DEF T, n
  <2>1. QED
    BY <1>1, <1>2, Downwards
<1>4. k \in 1..n /\ k > i
  BY <1>1
<1>5. QED
  BY <1>3, <1>4

\* s is p from i to e, and then t.
Joins(p, i, e, s, t) ==
    /\ Len(s) = Len(t) + (e - i + 1)
    /\ Shifted(p, s, 1 - i, i, e)
    /\ Shifted(t, s, e - i + 1, 1, Len(t))

LEMMA ConsFacts ==
    ASSUME NEW a \in Signs, NEW s \in Seq(Signs)
    PROVE  /\ <<a>> \o s \in Seq(Signs)
           /\ Len(<<a>> \o s) = Len(s) + 1
           /\ (<<a>> \o s)[1] = a
           /\ \A j \in 1..Len(s) : (<<a>> \o s)[j + 1] = s[j]
  OBVIOUS

LEMMA RestJoins ==
    ASSUME NEW p \in Seq(Signs), NEW cuts, NEW e \in 0..Len(p), NEW i \in 1..(e + 1),
           \A k \in i..e : k \notin cuts
    PROVE  Joins(p, i, e, Rest(p, cuts, i), Rest(p, cuts, e + 1))
<1> DEFINE n == e + 1
           t == Rest(p, cuts, e + 1)
           T == {k \in 1..n : k >= i => Joins(p, k, e, Rest(p, cuts, k), t)}
<1>1. n \in Nat /\ Len(p) \in Nat /\ e \in Nat
  OBVIOUS
<1>2. t \in Seq(Signs) /\ Len(t) \in Nat
  <2>1. e + 1 \in 1..(Len(p) + 3)
    BY <1>1
  <2>2. t \in Seq(Signs)
    BY <2>1, RestIs
  <2>3. QED
    BY <2>2
<1>3. ASSUME NEW k \in 1..n, \A j \in (k + 1)..n : j \in T PROVE k \in T
  <2> SUFFICES ASSUME k >= i PROVE Joins(p, k, e, Rest(p, cuts, k), t)
    OBVIOUS
  <2>1. CASE k = n
    <3>1. e - k + 1 = 0 /\ k..e = {}
      BY <1>1, <2>1
    <3> HIDE DEF t
    <3>2. Shifted(t, t, 0, 1, Len(t)) /\ Shifted(p, t, 1 - k, k, e) /\ Len(t) = Len(t) + 0
      BY <1>2, <3>1 DEF Shifted
    <3>3. Rest(p, cuts, k) = t
      BY <2>1 DEF t
    <3>4. QED
      BY <3>1, <3>2, <3>3 DEF Joins
  <2>2. CASE k # n
    <3>1. k + 1 \in (k + 1)..n /\ k + 1 >= i /\ k \in i..e /\ k \in 1..Len(p)
          /\ k \in 1..(Len(p) + 3) /\ k + 1 \in 1..(Len(p) + 3) /\ k <= Len(p)
      BY <1>1, <2>2
    <3> DEFINE r == Rest(p, cuts, k + 1)
               s == Rest(p, cuts, k)
    <3>2. Joins(p, k + 1, e, r, t)
      BY <1>3, <3>1
    <3>3. s = <<p[k]>> \o r /\ r \in Seq(Signs) /\ s \in Seq(Signs) /\ p[k] \in Signs
      <4>1. k \notin cuts /\ p[k] \in Signs
        BY <3>1
      <4>2. r \in Seq(Signs) /\ s \in Seq(Signs)
        BY <3>1, RestIs
      <4>3. s = <<p[k]>> \o r
        BY <3>1, <4>1, RestIs
      <4>4. QED
        BY <4>1, <4>2, <4>3
    <3> HIDE DEF r, s, t
    <3>4. Len(s) = Len(r) + 1 /\ s[1] = p[k] /\ \A j \in 1..Len(r) : s[j + 1] = r[j]
      BY <3>3, ConsFacts
    <3>5. Len(r) = Len(t) + (e - (k + 1) + 1) /\ Len(r) \in Nat
      BY <3>2, <3>3 DEF Joins
    <3>6. Len(s) = Len(t) + (e - k + 1)
      <4>1. Len(s) = Len(t) + (e - (k + 1) + 1) + 1
        BY <3>4, <3>5
      <4>2. Len(t) \in Nat /\ k \in Nat /\ e \in Nat
        BY <1>1, <1>2 DEF t
      <4>3. QED
        BY <4>1, <4>2
    <3>7. ASSUME NEW j \in k..e PROVE j + (1 - k) \in 1..Len(s) /\ s[j + (1 - k)] = p[j]
      <4>1. CASE j = k
        <5>1. j + (1 - k) = 1 /\ 1 \in 1..Len(s)
          BY <3>1, <3>4, <3>5, <4>1
        <5>2. QED
          BY <3>4, <4>1, <5>1
      <4>2. CASE j # k
        <5>1. j \in (k + 1)..e
          BY <1>1, <3>1, <4>2
        <5>2. j + (1 - (k + 1)) \in 1..Len(r) /\ r[j + (1 - (k + 1))] = p[j]
          BY <3>2, <5>1 DEF Joins, Shifted
        <5>3. j + (1 - (k + 1)) + 1 = j + (1 - k)
          BY <1>1, <3>1, <5>1
        <5>4. j + (1 - (k + 1)) + 1 \in 1..Len(s)
          BY <3>4, <3>5, <5>2
        <5>5. s[j + (1 - (k + 1)) + 1] = r[j + (1 - (k + 1))]
          BY <3>4, <5>2
        <5>6. QED
          BY <5>2, <5>3, <5>4, <5>5
      <4>3. QED
        BY <4>1, <4>2
    <3>8. ASSUME NEW j \in 1..Len(t)
          PROVE  j + (e - k + 1) \in 1..Len(s) /\ s[j + (e - k + 1)] = t[j]
      <4>1. j + (e - (k + 1) + 1) \in 1..Len(r) /\ r[j + (e - (k + 1) + 1)] = t[j]
        BY <3>2 DEF Joins, Shifted
      <4>2. j + (e - (k + 1) + 1) + 1 = j + (e - k + 1)
        BY <1>1, <1>2, <3>1
      <4>3. j + (e - (k + 1) + 1) + 1 \in 1..Len(s)
        BY <3>4, <3>5, <4>1
      <4>4. s[j + (e - (k + 1) + 1) + 1] = r[j + (e - (k + 1) + 1)]
        BY <3>4, <4>1
      <4>5. QED
        BY <4>1, <4>2, <4>3, <4>4
    <3>9. Joins(p, k, e, s, t)
      BY <3>6, <3>7, <3>8 DEF Joins, Shifted
    <3>10. QED
      BY <3>9 DEF s
  <2>3. QED
    BY <2>1, <2>2
<1>4. \A k \in 1..n : k \in T
  <2> HIDE DEF T, n
  <2>1. QED
    BY <1>1, <1>3, Downwards
<1>5. QED
  BY <1>1, <1>4

\* Where t is the end of s, it has the classes and the units of s.
IsEnd(t, s, d) == Len(s) = Len(t) + d /\ Shifted(t, s, d, 1, Len(t))

LEMMA ClassSuffix ==
    ASSUME NEW t \in Seq(Signs), NEW s \in Seq(Signs), NEW d \in Nat, IsEnd(t, s, d),
           NEW k \in 1..(Len(t) + 2)
    PROVE  /\ Classes(t)[k].end <= Len(t) =>
                /\ Classes(s)[k + d].end = Classes(t)[k].end + d
                /\ Classes(s)[k + d].of = Classes(t)[k].of
           /\ Classes(t)[k].end > Len(t) => Classes(s)[k + d].end > Len(s)
<1> DEFINE et == Classes(t)[k].end
           es == Classes(s)[k + d].end
<1>1. Len(s) = Len(t) + d /\ Len(t) \in Nat /\ k + d \in 1..(Len(s) + 2)
  BY DEF IsEnd
<1>2. \A j \in 1..Len(t) : j + d \in 1..Len(s) /\ s[j + d] = t[j]
  BY DEF IsEnd, Shifted
<1>3. et \in Nat /\ et >= k /\ es \in Nat /\ es >= k + d
  BY <1>1, ClassEnds
<1>4. ASSUME et <= Len(t)
      PROVE  es = et + d /\ Classes(s)[k + d].of = Classes(t)[k].of
  <2>1. \A j \in k..et : j \in 1..Len(t)
    BY <1>1, <1>3, <1>4
  <2>2. Shifted(t, s, d, k, et)
    BY <1>2, <2>1 DEF Shifted
  <2>3. SameClass(t, s, d, k)
    BY ClassLocal
  <2>4. QED
    BY <1>4, <2>2, <2>3 DEF SameClass
<1>5. ASSUME es <= Len(s) PROVE et <= Len(t)
  <2> DEFINE m == k + d
             c == 0 - d
  <2>1. m \in 1..(Len(s) + 2) /\ c \in Int /\ m + c = k
    BY <1>1
  <2>2. ASSUME NEW j \in m..es PROVE j + c \in 1..Len(t) /\ t[j + c] = s[j]
    <3>1. j + c \in 1..Len(t) /\ j + c + d = j
      BY <1>1, <1>3, <1>5
    <3>2. QED
      BY <1>2, <3>1
  <2> HIDE DEF m, c
  <2>3. Shifted(s, t, c, m, es)
    BY <2>2 DEF Shifted
  <2>4. SameClass(s, t, c, m)
    BY <2>1, ClassLocal
  <2>5. es = Classes(s)[m].end
    BY DEF m
  <2>6. Classes(t)[m + c].end = Classes(s)[m].end + c
    BY <1>5, <2>3, <2>4, <2>5 DEF SameClass
  <2>7. et = es + c
    BY <2>1, <2>5, <2>6
  <2>8. QED
    BY <1>1, <1>3, <1>5, <2>7 DEF c
<1>6. QED
  BY <1>1, <1>3, <1>4, <1>5

LEMMA UnitSuffix ==
    ASSUME NEW t \in Seq(Signs), NEW s \in Seq(Signs), NEW d \in Nat, IsEnd(t, s, d),
           NEW k \in 1..Len(t)
    PROVE  /\ UnitAt(s, FALSE, k + d) = UnitAt(t, FALSE, k)
           /\ NextAt(s, FALSE, k + d) = NextAt(t, FALSE, k) + d
<1> DEFINE m == k + d
           et == Classes(t)[k + 1].end
           es == Classes(s)[m + 1].end
<1>1. Len(s) = Len(t) + d /\ Len(t) \in Nat /\ k + 1 \in 1..(Len(t) + 2) /\ k + 1 + d = m + 1
      /\ m \in 1..Len(s)
  BY DEF IsEnd
<1>2. \A j \in 1..Len(t) : s[j + d] = t[j]
  BY DEF IsEnd, Shifted
<1>3. s[m] = t[k]
  BY <1>2
<1>4. k < Len(t) => k + 1 \in 1..Len(t)
  BY <1>1
<1>5. k < Len(t) => s[m + 1] = t[k + 1]
  BY <1>1, <1>2, <1>4
<1>6. /\ et <= Len(t) => es = et + d /\ Classes(s)[m + 1].of = Classes(t)[k + 1].of
      /\ et > Len(t) => es > Len(s)
  <2>1. /\ et <= Len(t) =>
              /\ Classes(s)[k + 1 + d].end = et + d
              /\ Classes(s)[k + 1 + d].of = Classes(t)[k + 1].of
        /\ et > Len(t) => Classes(s)[k + 1 + d].end > Len(s)
    <3> DEFINE q == k + 1
    <3>1. q \in 1..(Len(t) + 2)
      BY <1>1
    <3> HIDE DEF q
    <3>2. /\ Classes(t)[q].end <= Len(t) =>
                /\ Classes(s)[q + d].end = Classes(t)[q].end + d
                /\ Classes(s)[q + d].of = Classes(t)[q].of
          /\ Classes(t)[q].end > Len(t) => Classes(s)[q + d].end > Len(s)
      BY <3>1, ClassSuffix
    <3>3. QED
      BY <3>2 DEF q
  <2>2. Classes(s)[k + 1 + d] = Classes(s)[m + 1]
    BY <1>1
  <2>3. QED
    BY <2>1, <2>2
<1>7. et \in Nat /\ es \in Nat
  <2>1. m + 1 \in 1..(Len(s) + 2)
    BY <1>1
  <2>2. QED
    BY <1>1, <2>1, ClassEnds
<1>8. (k = Len(t) <=> m = Len(s)) /\ (k < Len(t) <=> m < Len(s))
      /\ (et > Len(t) <=> es > Len(s))
  <2>1. (k = Len(t) <=> m = Len(s)) /\ (k < Len(t) <=> m < Len(s))
    BY <1>1
  <2> HIDE DEF et, es
  <2>2. et > Len(t) <=> es > Len(s)
    <3>1. CASE et <= Len(t)
      BY <1>1, <1>6, <1>7, <3>1
    <3>2. CASE et > Len(t)
      BY <1>6, <3>2
    <3>3. QED
      BY <1>1, <1>7, <3>1, <3>2
  <2>3. QED
    BY <2>1, <2>2
<1> HIDE DEF m
<1>9. (Classes(t)[k + 1].end > Len(t) \/ Classes(t)[k + 1].of = {})
        <=> (Classes(s)[m + 1].end > Len(s) \/ Classes(s)[m + 1].of = {})
  BY <1>1, <1>6, <1>7, <1>8
<1>10. Stuck(t, k) <=> Stuck(s, m)
  BY <1>3, <1>8, <1>9 DEF Stuck
<1>11. CASE Stuck(t, k)
  BY <1>1, <1>10, <1>11 DEF UnitAt, NextAt, m
<1>12. CASE ~Stuck(t, k) /\ t[k] = "\\"
  <2>1. k < Len(t)
    BY <1>1, <1>12 DEF Stuck
  <2>2. UnitAt(s, FALSE, m) = One({s[m + 1]}) /\ NextAt(s, FALSE, m) = m + 2
    BY <1>3, <1>10, <1>12 DEF UnitAt, NextAt
  <2>3. UnitAt(t, FALSE, k) = One({t[k + 1]}) /\ NextAt(t, FALSE, k) = k + 2
    BY <1>12 DEF UnitAt, NextAt
  <2>4. m + 2 = k + 2 + d
    BY <1>1 DEF m
  <2>5. QED
    BY <1>5, <2>1, <2>2, <2>3, <2>4 DEF m
<1>13. CASE ~Stuck(t, k) /\ t[k] = "["
  <2>1. et <= Len(t)
    <3>1. ~(et > Len(t))
      BY <1>13 DEF Stuck
    <3> HIDE DEF et
    <3>2. QED
      BY <1>1, <1>7, <3>1
  <2>2. UnitAt(s, FALSE, m) = One(Classes(s)[m + 1].of) /\ NextAt(s, FALSE, m) = es + 1
    BY <1>3, <1>10, <1>13 DEF UnitAt, NextAt
  <2>3. UnitAt(t, FALSE, k) = One(Classes(t)[k + 1].of) /\ NextAt(t, FALSE, k) = et + 1
    BY <1>13 DEF UnitAt, NextAt
  <2>4. es + 1 = et + 1 + d
    BY <1>6, <1>7, <2>1
  <2>5. QED
    BY <1>6, <2>1, <2>2, <2>3, <2>4 DEF m
<1>14. CASE ~Stuck(t, k) /\ t[k] # "\\" /\ t[k] # "[" /\ t[k] = "*"
  <2>1. (k < Len(t) /\ t[k + 1] = "*") <=> (m < Len(s) /\ s[m + 1] = "*")
    BY <1>5, <1>8
  <2>2. UnitAt(s, FALSE, m) = (IF m < Len(s) /\ s[m + 1] = "*" THEN Super ELSE Star)
        /\ NextAt(s, FALSE, m) = IF m < Len(s) /\ s[m + 1] = "*" THEN m + 2 ELSE m + 1
    BY <1>3, <1>10, <1>14 DEF UnitAt, NextAt
  <2>3. UnitAt(t, FALSE, k) = (IF k < Len(t) /\ t[k + 1] = "*" THEN Super ELSE Star)
        /\ NextAt(t, FALSE, k) = IF k < Len(t) /\ t[k + 1] = "*" THEN k + 2 ELSE k + 1
    BY <1>14 DEF UnitAt, NextAt
  <2>4. m + 2 = k + 2 + d /\ m + 1 = k + 1 + d
    BY <1>1 DEF m
  <2>5. QED
    BY <2>1, <2>2, <2>3, <2>4 DEF m
<1>15. CASE ~Stuck(t, k) /\ t[k] # "\\" /\ t[k] # "[" /\ t[k] # "*"
  <2>1. UnitAt(s, FALSE, m) = One({s[m]}) /\ NextAt(s, FALSE, m) = m + 1
    BY <1>3, <1>10, <1>15 DEF UnitAt, NextAt
  <2>2. UnitAt(t, FALSE, k) = One({t[k]}) /\ NextAt(t, FALSE, k) = k + 1
    BY <1>15 DEF UnitAt, NextAt
  <2>3. m + 1 = k + 1 + d
    BY <1>1 DEF m
  <2>4. QED
    BY <1>3, <2>1, <2>2, <2>3 DEF m
<1>16. QED
  BY <1>11, <1>12, <1>13, <1>14, <1>15

LEMMA UnitsSuffix ==
    ASSUME NEW t \in Seq(Signs), NEW s \in Seq(Signs), NEW d \in Nat, IsEnd(t, s, d),
           NEW k \in 1..(Len(t) + 3)
    PROVE  UnitsFrom(s, FALSE)[k + d] = UnitsFrom(t, FALSE)[k]
<1> DEFINE n == Len(t) + 3
           T == {j \in 1..n : UnitsFrom(s, FALSE)[j + d] = UnitsFrom(t, FALSE)[j]}
<1>1. n \in Nat /\ Len(s) = Len(t) + d /\ Len(t) \in Nat
  BY DEF IsEnd
<1>2. ASSUME NEW j \in 1..n, \A m \in (j + 1)..n : m \in T PROVE j \in T
  <2>1. CASE j > Len(t)
    <3>1. j \in (Len(t) + 1)..(Len(t) + 3) /\ j + d \in (Len(s) + 1)..(Len(s) + 3)
      BY <1>1, <2>1
    <3>2. UnitsFrom(s, FALSE)[j + d] = <<>> /\ UnitsFrom(t, FALSE)[j] = <<>>
      BY <3>1, UnitsSteps
    <3>3. QED
      BY <3>2
  <2>2. CASE j <= Len(t)
    <3>1. j \in 1..Len(t) /\ j + d \in 1..Len(s)
      BY <1>1, <2>2
    <3> DEFINE next == NextAt(t, FALSE, j)
    <3>2. UnitAt(s, FALSE, j + d) = UnitAt(t, FALSE, j) /\ NextAt(s, FALSE, j + d) = next + d
      BY <3>1, UnitSuffix
    <3>3. next \in (j + 1)..n
      BY <3>1, UnitAtFacts
    <3>4. UnitsFrom(s, FALSE)[next + d] = UnitsFrom(t, FALSE)[next]
      BY <1>2, <3>3
    <3>5. /\ UnitsFrom(s, FALSE)[j + d]
               = <<UnitAt(s, FALSE, j + d)>> \o UnitsFrom(s, FALSE)[NextAt(s, FALSE, j + d)]
          /\ UnitsFrom(t, FALSE)[j] = <<UnitAt(t, FALSE, j)>> \o UnitsFrom(t, FALSE)[next]
      BY <3>1, UnitsSteps
    <3>6. QED
      BY <3>2, <3>4, <3>5
  <2>3. j > Len(t) \/ j <= Len(t)
    BY <1>1
  <2>4. QED
    BY <2>1, <2>2, <2>3
<1>3. \A j \in 1..n : j \in T
  <2> HIDE DEF T, n
  <2>1. QED
    BY <1>1, <1>2, Downwards
<1>4. QED
  BY <1>3

RestUnits(p, cuts, i) == Units(Rest(p, cuts, i), FALSE)

LEMMA JoinFacts ==
    ASSUME NEW p \in Seq(Signs), NEW i \in 1..Len(p), NEW e \in i..Len(p),
           NEW s \in Seq(Signs), NEW t \in Seq(Signs), Joins(p, i, e, s, t)
    PROVE  NextAt(s, FALSE, 1) = e - i + 2
             => Units(s, FALSE) = <<UnitAt(s, FALSE, 1)>> \o Units(t, FALSE)
<1> DEFINE d == e - i + 1
<1>1. Len(p) \in Nat /\ e \in Nat /\ d \in Nat /\ d >= 1 /\ Len(t) \in Nat /\ i \in i..e
  OBVIOUS
<1>2. IsEnd(t, s, d)
  BY DEF IsEnd, Joins
<1>3. i + (1 - i) \in 1..Len(s)
  BY <1>1 DEF Joins, Shifted
<1>4. 1 \in 1..Len(s)
  BY <1>1, <1>3
<1>5. ASSUME NextAt(s, FALSE, 1) = e - i + 2
      PROVE  Units(s, FALSE) = <<UnitAt(s, FALSE, 1)>> \o Units(t, FALSE)
  <2>1. UnitsFrom(s, FALSE)[1]
          = <<UnitAt(s, FALSE, 1)>> \o UnitsFrom(s, FALSE)[NextAt(s, FALSE, 1)]
    BY <1>4, UnitsSteps
  <2>2. e - i + 2 = 1 + d /\ 1 \in 1..(Len(t) + 3)
    BY <1>1
  <2> HIDE DEF d
  <2>3. UnitsFrom(s, FALSE)[1 + d] = UnitsFrom(t, FALSE)[1]
    BY <1>1, <1>2, <2>2, UnitsSuffix
  <2>4. QED
    BY <1>5, <2>1, <2>2, <2>3 DEF Units
<1>6. QED
  BY <1>5

\* A unit that is no "**/" segment stays what it is.
LEMMA RestUnit ==
    ASSUME NEW p \in Seq(Signs), NEW i \in 1..Len(p), NEW cuts \in SUBSET Dirs(p, i, FALSE),
           ~DoubleStarDir(p, i), ~Stuck(p, i)
    PROVE  /\ NextAt(p, TRUE, i) \in (i + 1)..(Len(p) + 1)
           /\ Dirs(p, i, FALSE) = Dirs(p, NextAt(p, TRUE, i), FALSE)
           /\ RestUnits(p, cuts, i)
                = <<UnitAt(p, TRUE, i)>> \o RestUnits(p, cuts, NextAt(p, TRUE, i))
<1> DEFINE k == NextAt(p, TRUE, i)
           e == k - 1
           class == Classes(p)[i + 1]
<1>1. Len(p) \in Nat /\ i \in 1..(Len(p) + 3) /\ i <= Len(p) /\ i + 1 \in 1..(Len(p) + 2)
      /\ i + 1 \in 1..(Len(p) + 3)
  OBVIOUS
<1>2. class.end \in Nat /\ class.end >= i + 1
  BY <1>1, ClassEnds
<1>3. /\ p[i] = "\\" => i < Len(p) /\ k = i + 2 /\ UnitAt(p, TRUE, i) = One({p[i + 1]})
      /\ p[i] = "[" => /\ class.end <= Len(p) /\ class.of # {} /\ k = class.end + 1
                       /\ UnitAt(p, TRUE, i) = One(class.of)
      /\ p[i] = "*" /\ i < Len(p) /\ p[i + 1] = "*" => k = i + 2 /\ UnitAt(p, TRUE, i) = Super
      /\ p[i] = "*" /\ ~(i < Len(p) /\ p[i + 1] = "*") => k = i + 1 /\ UnitAt(p, TRUE, i) = Star
      /\ p[i] # "\\" /\ p[i] # "[" /\ p[i] # "*" => k = i + 1 /\ UnitAt(p, TRUE, i) = One({p[i]})
  BY <1>1, <1>2 DEF UnitAt, NextAt, Stuck
<1> HIDE DEF k
<1>4. k \in (i + 1)..(Len(p) + 1)
  <2>1. \/ p[i] = "[" /\ class.end <= Len(p) /\ k = class.end + 1
        \/ i < Len(p) /\ k = i + 2
        \/ k = i + 1
    BY <1>3
  <2> HIDE DEF class
  <2>2. QED
    BY <1>1, <1>2, <2>1
<1>5. ASSUME p[i] = "*" PROVE ~DoubleStarDir(p, i + 1)
  <2>1. ASSUME DoubleStarDir(p, i + 1) PROVE FALSE
    <3>1. i + 1 = 1 \/ p[i + 1 - 1] = "/"
      BY <1>1, <2>1, StarsFacts
    <3>2. i + 1 # 1 /\ i + 1 - 1 = i
      BY <1>1
    <3>3. QED
      BY <1>5, <3>1, <3>2
  <2>2. QED
    BY <2>1
<1>6. Dirs(p, i, FALSE) = Dirs(p, k, FALSE)
  <2>1. CASE p[i] = "\\"
    BY <1>1, <1>3, <2>1, DirsIs
  <2>2. CASE p[i] = "["
    <3>1. Dirs(p, i, FALSE) = Dirs(p, i + 1, TRUE)
      BY <1>1, <2>2, DirsIs
    <3>2. Dirs(p, i + 1, TRUE) = IF class.end > Len(p) THEN {} ELSE Dirs(p, class.end + 1, FALSE)
      BY <1>1, ClassDirs
    <3>3. ~(class.end > Len(p)) /\ k = class.end + 1
      BY <1>1, <1>2, <1>3, <2>2
    <3>4. QED
      BY <3>1, <3>2, <3>3
  <2>3. CASE p[i] # "\\" /\ p[i] # "["
    <3>1. Dirs(p, i, FALSE) = Dirs(p, i + 1, FALSE)
      BY <1>1, <2>3, DirsIs
    <3>2. CASE p[i] = "*" /\ i < Len(p) /\ p[i + 1] = "*"
      <4>1. i + 1 <= Len(p) /\ i + 1 + 1 = i + 2
        BY <1>1, <3>2
      <4>2. Dirs(p, i + 1, FALSE) = Dirs(p, i + 1 + 1, FALSE)
        BY <1>1, <1>5, <3>2, <4>1, DirsIs
      <4>3. QED
        BY <1>3, <3>1, <3>2, <4>1, <4>2
    <3>3. CASE ~(p[i] = "*" /\ i < Len(p) /\ p[i + 1] = "*")
      BY <1>3, <2>3, <3>1, <3>3
    <3>4. QED
      BY <3>2, <3>3
  <2>4. QED
    BY <2>1, <2>2, <2>3
<1>7. k \in 1..(Len(p) + 3) /\ e \in i..Len(p) /\ e \in 0..Len(p) /\ i \in 1..(e + 1) /\ e + 1 = k
  BY <1>1, <1>4
<1>8. \A j \in cuts : j \in k..Len(p) /\ DoubleStarDir(p, j)
  <2>1. \A j \in Dirs(p, k, FALSE) : j \in k..Len(p) /\ DoubleStarDir(p, j)
    BY <1>7, DirsWithin
  <2>2. QED
    BY <1>6, <2>1
<1>9. \A j \in i..e : j \notin cuts
  BY <1>1, <1>4, <1>7, <1>8
<1> DEFINE s == Rest(p, cuts, i)
           t == Rest(p, cuts, k)
<1>10. Joins(p, i, e, s, t) /\ s \in Seq(Signs) /\ t \in Seq(Signs)
  <2>1. s \in Seq(Signs) /\ t \in Seq(Signs)
    BY <1>1, <1>7, RestIs
  <2>2. Joins(p, i, e, Rest(p, cuts, i), Rest(p, cuts, e + 1))
    <3> HIDE DEF e
    <3>1. QED
      BY <1>7, <1>9, RestJoins
  <2>3. QED
    BY <1>7, <2>1, <2>2
<1> HIDE DEF s, t, e
<1>11. /\ 1 \in 1..Len(s) /\ s[1] = p[i] /\ Len(s) \in Nat
       /\ \A j \in i..e : j - i + 1 \in 1..Len(s) /\ s[j - i + 1] = p[j]
       /\ NextAt(s, FALSE, 1) = e - i + 2
            => Units(s, FALSE) = <<UnitAt(s, FALSE, 1)>> \o Units(t, FALSE)
  <2>1. Len(s) \in Nat
    BY <1>10
  <2>2. /\ 1 \in 1..Len(s) /\ s[1] = p[i]
        /\ \A j \in i..e : j - i + 1 \in 1..Len(s) /\ s[j - i + 1] = p[j]
    <3>1. i \in 1..Len(p) /\ e \in i..Len(p) /\ p \in Seq(Signs)
      BY <1>7
    <3>2. ASSUME NEW j \in i..e PROVE j - i + 1 \in 1..Len(s) /\ s[j - i + 1] = p[j]
      <4>1. j + (1 - i) \in 1..Len(s) /\ s[j + (1 - i)] = p[j]
        BY <1>10 DEF Joins, Shifted
      <4>2. j + (1 - i) = j - i + 1
        BY <1>1, <1>7
      <4>3. QED
        BY <4>1, <4>2
    <3>3. i \in i..e /\ i - i + 1 = 1
      BY <1>1, <1>7
    <3>4. QED
      BY <3>2, <3>3
  <2>3. NextAt(s, FALSE, 1) = e - i + 2
            => Units(s, FALSE) = <<UnitAt(s, FALSE, 1)>> \o Units(t, FALSE)
    BY <1>7, <1>10, JoinFacts
  <2>4. QED
    BY <2>1, <2>2, <2>3
<1>12. Len(s) = Len(t) + (e - i + 1) /\ Len(t) \in Nat
  BY <1>10 DEF Joins
<1>13. i < e => 2 \in 1..Len(s) /\ s[2] = p[i + 1] /\ 1 < Len(s)
  <2>1. ASSUME i < e PROVE i + 1 \in i..e /\ (i + 1) - i + 1 = 2
    BY <1>7, <2>1
  <2>2. QED
    BY <1>11, <2>1
<1>14. UnitAt(s, FALSE, 1) = UnitAt(p, TRUE, i) /\ NextAt(s, FALSE, 1) = e - i + 2
  <2>1. CASE p[i] = "\\"
    <3>1. e = i + 1 /\ i < e /\ e - i + 2 = 3
      BY <1>1, <1>3, <1>7, <2>1
    <3>2. ~Stuck(s, 1) /\ s[1] = "\\"
      BY <1>11, <1>13, <2>1, <3>1 DEF Stuck
    <3>3. UnitAt(s, FALSE, 1) = One({s[2]}) /\ NextAt(s, FALSE, 1) = 3
      BY <3>2 DEF UnitAt, NextAt
    <3>4. QED
      BY <1>3, <1>13, <2>1, <3>1, <3>3
  <2>2. CASE p[i] = "["
    <3>1. e = class.end
      BY <1>1, <1>2, <1>3, <1>7, <2>2
    <3> DEFINE d == 1 - i
               m == i + 1
    <3>2. d \in Int /\ m \in 1..(Len(p) + 2) /\ m + d = 2
      BY <1>1
    <3>3. Shifted(p, s, d, m, e)
      <4>1. ASSUME NEW j \in m..e PROVE j + d \in 1..Len(s) /\ s[j + d] = p[j]
        <5>1. j \in i..e /\ j + d = j - i + 1
          BY <1>1, <1>7
        <5>2. QED
          BY <1>11, <5>1
      <4>2. QED
        BY <4>1 DEF Shifted
    <3> HIDE DEF d
    <3>4. SameClass(p, s, d, m)
      <4> HIDE DEF m
      <4>1. QED
        BY <1>10, <3>2, ClassLocal
    <3>5. Classes(s)[m + d].end = e + d /\ Classes(s)[m + d].of = class.of
      <4> HIDE DEF class
      <4>1. Classes(p)[m] = class
        BY DEF class
      <4>2. QED
        BY <1>3, <2>2, <3>1, <3>3, <3>4, <4>1 DEF SameClass
    <3>6. Classes(s)[2].end = e - i + 1 /\ Classes(s)[2].of = class.of
      <4>1. e + d = e - i + 1
        BY <1>7 DEF d
      <4>2. QED
        BY <3>2, <3>5, <4>1
    <3>7. ~(e - i + 1 > Len(s)) /\ e - i + 1 + 1 = e - i + 2
      BY <1>7, <1>12
    <3>8. ~Stuck(s, 1) /\ s[1] = "["
      BY <1>3, <1>11, <2>2, <3>6, <3>7 DEF Stuck
    <3>9. UnitAt(s, FALSE, 1) = One(Classes(s)[2].of) /\ NextAt(s, FALSE, 1) = Classes(s)[2].end + 1
      BY <3>8 DEF UnitAt, NextAt
    <3>10. QED
      BY <1>3, <2>2, <3>6, <3>7, <3>9
  <2>3. CASE p[i] = "*" /\ i < Len(p) /\ p[i + 1] = "*"
    <3>1. e = i + 1 /\ i < e /\ e - i + 2 = 3
      BY <1>1, <1>3, <1>7, <2>3
    <3>2. s[1] = "*" /\ s[2] = "*" /\ 1 < Len(s)
      BY <1>11, <1>13, <2>3, <3>1
    <3>3. ~Stuck(s, 1)
      BY <3>2 DEF Stuck
    <3>4. UnitAt(s, FALSE, 1) = Super /\ NextAt(s, FALSE, 1) = 3
      BY <3>2, <3>3 DEF UnitAt, NextAt
    <3>5. QED
      BY <1>3, <2>3, <3>1, <3>4
  <2>4. CASE p[i] = "*" /\ ~(i < Len(p) /\ p[i + 1] = "*")
    <3>1. e = i /\ k = i + 1 /\ e - i + 2 = 2 /\ Len(s) = Len(t) + 1
      BY <1>1, <1>3, <1>7, <1>12, <2>4
    <3>2. ~(1 < Len(s) /\ s[2] = "*")
      <4>1. CASE i = Len(p)
        <5>1. k > Len(p)
          BY <1>1, <3>1, <4>1
        <5>2. t = <<>>
          BY <1>7, <5>1, RestIs DEF t
        <5>3. QED
          BY <3>1, <5>2
      <4>2. CASE i # Len(p)
        <5>1. k <= Len(p) /\ p[k] # "*" /\ i < Len(p)
          BY <1>1, <2>4, <3>1, <4>2
        <5>2. k \notin cuts
          <6>1. DoubleStarDir(p, k) => p[k] = "*"
            BY <1>7, StarsFacts
          <6>2. QED
            BY <1>8, <5>1, <6>1
        <5>3. t = <<p[k]>> \o Rest(p, cuts, k + 1)
          BY <1>7, <5>1, <5>2, RestIs DEF t
        <5>4. p[k] \in Signs /\ Rest(p, cuts, k + 1) \in Seq(Signs)
          <6>1. k \in 1..Len(p) /\ k + 1 \in 1..(Len(p) + 3)
            BY <1>1, <1>7, <5>1
          <6>2. p[k] \in Signs
            BY <6>1
          <6>3. Rest(p, cuts, k + 1) \in Seq(Signs)
            BY <6>1, RestIs
          <6>4. QED
            BY <6>2, <6>3
        <5>5. t[1] = p[k] /\ 1 \in 1..Len(t)
          <6> DEFINE r == Rest(p, cuts, k + 1)
          <6> HIDE DEF r
          <6>1. t = <<p[k]>> \o r /\ r \in Seq(Signs)
            BY <5>3, <5>4 DEF r
          <6>2. Len(t) = Len(r) + 1 /\ t[1] = p[k] /\ Len(r) \in Nat
            BY <5>4, <6>1, ConsFacts
          <6>3. QED
            BY <6>2
        <5>6. s[1 + (e - i + 1)] = t[1]
          BY <1>10, <5>5 DEF Joins, Shifted
        <5>7. 1 + (e - i + 1) = 2
          BY <1>1, <3>1
        <5>8. QED
          BY <5>1, <5>5, <5>6, <5>7
      <4>3. QED
        BY <4>1, <4>2
    <3>3. ~Stuck(s, 1) /\ s[1] = "*"
      BY <1>11, <2>4 DEF Stuck
    <3>4. UnitAt(s, FALSE, 1) = Star /\ NextAt(s, FALSE, 1) = 2
      BY <3>2, <3>3 DEF UnitAt, NextAt
    <3>5. QED
      BY <1>3, <2>4, <3>1, <3>4
  <2>5. CASE p[i] # "\\" /\ p[i] # "[" /\ p[i] # "*"
    <3>0. k = i + 1
      BY <1>3, <2>5
    <3>1. e = i /\ e - i + 2 = 2
      BY <1>1, <1>7, <3>0
    <3>2. ~Stuck(s, 1)
      BY <1>11, <2>5 DEF Stuck
    <3>3. UnitAt(s, FALSE, 1) = One({s[1]}) /\ NextAt(s, FALSE, 1) = 2
      BY <1>11, <2>5, <3>2 DEF UnitAt, NextAt
    <3>4. QED
      BY <1>3, <1>11, <2>5, <3>1, <3>3
  <2>6. QED
    BY <2>1, <2>2, <2>3, <2>4, <2>5
<1>15. Units(s, FALSE) = <<UnitAt(p, TRUE, i)>> \o Units(t, FALSE)
  BY <1>11, <1>14
<1>16. QED
  BY <1>4, <1>6, <1>15 DEF RestUnits, s, t, k

LEMMA UnitsOfNone == Units(<<>>, FALSE) = <<>>
<1>1. <<>> \in Seq(Signs) /\ Len(<<>>) = 0 /\ 1 \in (0 + 1)..(0 + 3) /\ FALSE \in BOOLEAN
  OBVIOUS
<1>2. UnitsFrom(<<>>, FALSE)[1] = <<>>
  BY <1>1, UnitsSteps
<1>3. QED
  BY <1>2 DEF Units

\* A syntax error stays one.
LEMMA RestStuck ==
    ASSUME NEW p \in Seq(Signs), NEW i \in 1..Len(p), NEW cuts \in SUBSET Dirs(p, i, FALSE),
           Stuck(p, i)
    PROVE  RestUnits(p, cuts, i) = <<Bad>>
<1> DEFINE s == Rest(p, cuts, i)
           class == Classes(p)[i + 1]
<1>1. Len(p) \in Nat /\ i \in 1..(Len(p) + 3) /\ i <= Len(p) /\ i + 1 \in 1..(Len(p) + 2)
      /\ i + 1 \in 1..(Len(p) + 3) /\ Len(p) + 1 \in 1..(Len(p) + 3)
  OBVIOUS
<1>2. class.end \in Nat /\ class.end >= i + 1
  BY <1>1, ClassEnds
<1>3. s \in Seq(Signs) /\ Len(s) \in Nat
  <2>1. s \in Seq(Signs)
    BY <1>1, RestIs
  <2>2. QED
    BY <2>1
<1>4. Rest(p, cuts, Len(p) + 1) = <<>>
  <2>1. Len(p) + 1 > Len(p)
    BY <1>1
  <2>2. QED
    BY <1>1, <2>1, RestIs
<1>5. ASSUME NEW e \in i..Len(p), \A j \in i..e : j \notin cuts
      PROVE  /\ Joins(p, i, e, s, Rest(p, cuts, e + 1))
             /\ Len(s) = Len(Rest(p, cuts, e + 1)) + (e - i + 1)
             /\ Shifted(p, s, 1 - i, i, e)
             /\ 1 \in 1..Len(s) /\ s[1] = p[i]
             /\ Len(Rest(p, cuts, e + 1)) \in Nat
  <2>1. e \in 0..Len(p) /\ i \in 1..(e + 1) /\ e + 1 \in 1..(Len(p) + 3)
    BY <1>1
  <2>2. Joins(p, i, e, s, Rest(p, cuts, e + 1))
    BY <1>5, <2>1, RestJoins
  <2>3. Rest(p, cuts, e + 1) \in Seq(Signs)
    BY <2>1, RestIs
  <2>4. Len(Rest(p, cuts, e + 1)) \in Nat
    BY <2>3
  <2>5. i + (1 - i) = 1 /\ i \in i..e
    BY <1>1
  <2> HIDE DEF s
  <2>6. i + (1 - i) \in 1..Len(s) /\ s[i + (1 - i)] = p[i]
    BY <2>2, <2>5 DEF Joins, Shifted
  <2>7. QED
    BY <2>2, <2>4, <2>5, <2>6 DEF Joins
<1> HIDE DEF s
<1>6. Stuck(s, 1) /\ 1 \in 1..Len(s)
  <2>1. CASE p[i] = "\\" /\ i = Len(p)
    <3>1. i + 2 \in 1..(Len(p) + 3) /\ i + 2 > Len(p) /\ i \in i..Len(p) /\ i - i + 1 = 1
          /\ i + 1 = Len(p) + 1
      BY <1>1, <2>1
    <3>2. Dirs(p, i, FALSE) = Dirs(p, i + 2, FALSE)
      BY <1>1, <2>1, DirsIs
    <3>3. Dirs(p, i + 2, FALSE) = {}
      BY <3>1, DirsIs
    <3>4. \A j \in i..i : j \notin cuts
      BY <3>2, <3>3
    <3>5. Len(s) = Len(Rest(p, cuts, i + 1)) + 1 /\ s[1] = p[i]
      BY <1>5, <3>1, <3>4
    <3>6. Len(s) = 1
      BY <1>4, <3>1, <3>5
    <3>7. 1 \in 1..Len(s)
      BY <3>6
    <3>8. s[1] = "\\" /\ 1 = Len(s)
      BY <2>1, <3>5, <3>6
    <3>9. QED
      BY <3>7, <3>8 DEF Stuck
  <2>2. CASE p[i] = "[" /\ class.end > Len(p)
    <3>1. Dirs(p, i, FALSE) = Dirs(p, i + 1, TRUE)
      BY <1>1, <2>2, DirsIs
    <3>2. Dirs(p, i + 1, TRUE) = {}
      BY <1>1, <2>2, ClassDirs
    <3> DEFINE e == Len(p)
    <3>3. e \in i..Len(p) /\ \A j \in i..e : j \notin cuts
      <4>1. e \in i..Len(p)
        BY <1>1
      <4>2. \A j : j \notin cuts
        BY <3>1, <3>2
      <4>3. QED
        BY <4>1, <4>2
    <3>4. /\ Shifted(p, s, 1 - i, i, e) /\ 1 \in 1..Len(s) /\ s[1] = p[i]
          /\ Len(s) = Len(Rest(p, cuts, e + 1)) + (e - i + 1)
      BY <1>5, <3>3
    <3>5. Len(s) = Len(p) - i + 1
      BY <1>1, <1>4, <3>4
    <3> DEFINE d == i - 1
    <3>6. d \in Nat /\ Len(p) = Len(s) + d
      BY <1>1, <3>5
    <3>7. ASSUME NEW j \in 1..Len(s) PROVE j + d \in 1..Len(p) /\ p[j + d] = s[j]
      <4>1. j + d \in i..e /\ j + d + (1 - i) = j /\ j + d \in 1..Len(p)
        BY <1>1, <3>5
      <4>2. s[j + d + (1 - i)] = p[j + d]
        BY <3>4, <4>1 DEF Shifted
      <4>3. QED
        BY <4>1, <4>2
    <3>8. IsEnd(s, p, d)
      BY <3>6, <3>7 DEF IsEnd, Shifted
    <3>9. 2 \in 1..(Len(s) + 2) /\ 2 + d = i + 1
      BY <1>1, <1>3
    <3> HIDE DEF d, e
    <3>10. Classes(s)[2].end <= Len(s) => Classes(p)[2 + d].end = Classes(s)[2].end + d
      BY <1>3, <3>6, <3>8, <3>9, ClassSuffix
    <3>11. Classes(s)[2].end \in Nat
      BY <1>3, <3>9, ClassEnds
    <3>12. Classes(s)[2].end > Len(s)
      <4>1. Classes(p)[2 + d] = class
        BY <3>9
      <4> HIDE DEF class
      <4>2. QED
        BY <1>2, <1>3, <2>2, <3>6, <3>10, <3>11, <4>1
    <3>13. 1 + 1 = 2
      OBVIOUS
    <3>14. Classes(s)[1 + 1].end > Len(s) /\ s[1] = "["
      BY <2>2, <3>4, <3>12, <3>13
    <3>15. QED
      BY <3>4, <3>14 DEF Stuck
  <2>3. CASE p[i] = "[" /\ class.end <= Len(p) /\ class.of = {}
    <3> DEFINE e == class.end
    <3>1. ~(class.end > Len(p)) /\ e \in i..Len(p) /\ e + 1 \in 1..(Len(p) + 3)
      BY <1>1, <1>2, <2>3
    <3>2. Dirs(p, i, FALSE) = Dirs(p, i + 1, TRUE)
      BY <1>1, <2>3, DirsIs
    <3>3. Dirs(p, i + 1, TRUE) = Dirs(p, e + 1, FALSE)
      BY <1>1, <3>1, ClassDirs
    <3>4. \A j \in Dirs(p, e + 1, FALSE) : j \in (e + 1)..Len(p)
      BY <3>1, DirsWithin
    <3>5. \A j \in i..e : j \notin cuts
      <4>1. ASSUME NEW j \in i..e, j \in cuts PROVE FALSE
        <5>1. j \in Dirs(p, e + 1, FALSE)
          BY <3>2, <3>3, <4>1
        <5>2. j \in (e + 1)..Len(p)
          BY <3>4, <5>1
        <5> HIDE DEF e
        <5>3. e \in Int /\ j >= e + 1 /\ j <= e
          BY <1>1, <3>1, <5>2
        <5>4. QED
          BY <1>1, <5>2, <5>3
      <4>2. QED
        BY <4>1
    <3>6. Shifted(p, s, 1 - i, i, e) /\ 1 \in 1..Len(s) /\ s[1] = p[i]
      BY <1>5, <3>1, <3>5
    <3> DEFINE d == 1 - i
               m == i + 1
    <3>7. d \in Int /\ m \in 1..(Len(p) + 2) /\ m + d = 1 + 1
      BY <1>1
    <3>8. Shifted(p, s, d, m, e)
      <4>1. \A j \in m..e : j \in i..e
        BY <1>1, <1>2
      <4>2. QED
        BY <3>6, <4>1 DEF Shifted
    <3>9. Classes(p)[m].end = e /\ Classes(p)[m].of = {} /\ e <= Len(p)
      BY <2>3
    <3> HIDE DEF d, m, e
    <3>10. SameClass(p, s, d, m)
      BY <1>3, <3>7, ClassLocal
    <3>11. Classes(s)[m + d].of = {}
      BY <3>8, <3>9, <3>10 DEF SameClass
    <3>12. Classes(s)[1 + 1].of = {} /\ s[1] = "["
      BY <2>3, <3>6, <3>7, <3>11
    <3>13. QED
      BY <3>6, <3>12 DEF Stuck
  <2>4. QED
    BY <1>1, <1>2, <2>1, <2>2, <2>3 DEF Stuck
<1>7. UnitAt(s, FALSE, 1) = Bad /\ NextAt(s, FALSE, 1) = Len(s) + 1
  BY <1>6 DEF UnitAt, NextAt
<1>8. UnitsFrom(s, FALSE)[1] = <<Bad>> \o UnitsFrom(s, FALSE)[Len(s) + 1]
  <2>1. UnitsFrom(s, FALSE)[1]
          = <<UnitAt(s, FALSE, 1)>> \o UnitsFrom(s, FALSE)[NextAt(s, FALSE, 1)]
    BY <1>3, <1>6, UnitsSteps
  <2>2. QED
    BY <1>7, <2>1
<1>9. UnitsFrom(s, FALSE)[Len(s) + 1] = <<>>
  <2>1. Len(s) + 1 \in (Len(s) + 1)..(Len(s) + 3)
    BY <1>3
  <2>2. QED
    BY <1>3, <2>1, UnitsSteps
<1>10. <<Bad>> \o <<>> = <<Bad>>
  OBVIOUS
<1>11. Units(s, FALSE) = <<Bad>>
  BY <1>8, <1>9, <1>10 DEF Units
<1>12. QED
  BY <1>11 DEF RestUnits, s

\* A "**/" segment that is left in is "any characters" and a slash.
LEMMA RestDirs ==
    ASSUME NEW p \in Seq(Signs), NEW i \in 1..Len(p), DoubleStarDir(p, i),
           NEW cuts \in SUBSET Dirs(p, i + 3, FALSE)
    PROVE  /\ i + 3 \in (i + 1)..(Len(p) + 1)
           /\ Dirs(p, i, FALSE) = {i} \cup Dirs(p, i + 3, FALSE)
           /\ RestUnits(p, cuts, i)
                = <<Super>> \o (<<One({"/"})>> \o RestUnits(p, cuts, i + 3))
           /\ RestUnits(p, cuts \cup {i}, i) = RestUnits(p, cuts, i + 3)
<1> DEFINE s == Rest(p, cuts, i)
           t == Rest(p, cuts, i + 3)
<1>1. /\ i \in 1..(Len(p) + 3) /\ i + 2 <= Len(p) /\ i <= Len(p)
      /\ p[i] = "*" /\ p[i + 1] = "*" /\ p[i + 2] = "/"
  <2>1. i \in 1..(Len(p) + 3)
    OBVIOUS
  <2>2. QED
    BY <2>1, StarsFacts
<1>2. /\ i + 2 \in i..Len(p) /\ i + 2 \in 0..Len(p) /\ i \in 1..(i + 2 + 1) /\ i + 2 + 1 = i + 3
      /\ i + 3 \in 1..(Len(p) + 3) /\ i + 3 \in (i + 1)..(Len(p) + 1) /\ i + 2 - i + 1 = 3
  BY <1>1
<1>3. Dirs(p, i, FALSE) = {i} \cup Dirs(p, i + 3, FALSE)
  BY <1>1, DirsIs
<1>4. \A j \in cuts : j \in (i + 3)..Len(p)
  <2>1. \A j \in Dirs(p, i + 3, FALSE) : j \in (i + 3)..Len(p)
    BY <1>2, DirsWithin
  <2>2. QED
    BY <2>1
<1>5. \A j \in i..(i + 2) : j \notin cuts
  BY <1>1, <1>4
<1>6. Joins(p, i, i + 2, s, t) /\ s \in Seq(Signs) /\ t \in Seq(Signs)
  <2>1. s \in Seq(Signs) /\ t \in Seq(Signs)
    BY <1>1, <1>2, RestIs
  <2> DEFINE e == i + 2
  <2>2. e \in 0..Len(p) /\ i \in 1..(e + 1) /\ \A j \in i..e : j \notin cuts
    BY <1>2, <1>5
  <2>3. e + 1 = i + 3
    BY <1>2
  <2> HIDE DEF e
  <2>4. Joins(p, i, e, Rest(p, cuts, i), Rest(p, cuts, e + 1))
    BY <2>2, RestJoins
  <2>5. QED
    BY <2>1, <2>3, <2>4 DEF e
<1> HIDE DEF s, t
<1>7. /\ Len(s) = Len(t) + 3 /\ Len(t) \in Nat
      /\ Shifted(t, s, 3, 1, Len(t)) /\ Shifted(p, s, 1 - i, i, i + 2)
  BY <1>2, <1>6 DEF Joins
<1>8. s[1] = "*" /\ s[2] = "*" /\ s[3] = "/" /\ 1 \in 1..Len(s) /\ 3 \in 1..Len(s) /\ 1 < Len(s)
  <2>1. i \in i..(i + 2) /\ i + 1 \in i..(i + 2) /\ i + 2 \in i..(i + 2)
        /\ i + (1 - i) = 1 /\ i + 1 + (1 - i) = 2 /\ i + 2 + (1 - i) = 3
    BY <1>1
  <2>2. s[i + (1 - i)] = p[i] /\ s[i + 1 + (1 - i)] = p[i + 1] /\ s[i + 2 + (1 - i)] = p[i + 2]
    BY <1>7, <2>1 DEF Shifted
  <2>3. QED
    BY <1>1, <1>7, <2>1, <2>2
<1>9. UnitAt(s, FALSE, 1) = Super /\ NextAt(s, FALSE, 1) = 3
  <2>1. ~Stuck(s, 1)
    BY <1>8 DEF Stuck
  <2>2. QED
    BY <1>8, <2>1 DEF UnitAt, NextAt
<1>10. UnitAt(s, FALSE, 3) = One({"/"}) /\ NextAt(s, FALSE, 3) = 4
  <2>1. ~Stuck(s, 3)
    BY <1>8 DEF Stuck
  <2>2. QED
    BY <1>8, <2>1 DEF UnitAt, NextAt
<1>11. /\ UnitsFrom(s, FALSE)[1] = <<Super>> \o UnitsFrom(s, FALSE)[3]
       /\ UnitsFrom(s, FALSE)[3] = <<One({"/"})>> \o UnitsFrom(s, FALSE)[4]
  <2>1. /\ UnitsFrom(s, FALSE)[1]
              = <<UnitAt(s, FALSE, 1)>> \o UnitsFrom(s, FALSE)[NextAt(s, FALSE, 1)]
        /\ UnitsFrom(s, FALSE)[3]
              = <<UnitAt(s, FALSE, 3)>> \o UnitsFrom(s, FALSE)[NextAt(s, FALSE, 3)]
    BY <1>6, <1>8, UnitsSteps
  <2>2. QED
    BY <1>9, <1>10, <2>1
<1>12. UnitsFrom(s, FALSE)[1 + 3] = UnitsFrom(t, FALSE)[1]
  <2>1. IsEnd(t, s, 3)
    BY <1>7 DEF IsEnd
  <2>2. 1 \in 1..(Len(t) + 3) /\ 3 \in Nat
    BY <1>7
  <2>3. QED
    BY <1>6, <2>1, <2>2, UnitsSuffix
<1>13. Units(s, FALSE) = <<Super>> \o (<<One({"/"})>> \o Units(t, FALSE))
  <2>1. 1 + 3 = 4
    OBVIOUS
  <2>2. QED
    BY <1>11, <1>12, <2>1 DEF Units
<1>14. RestUnits(p, cuts \cup {i}, i) = RestUnits(p, cuts, i + 3)
  <2>1. i \in cuts \cup {i}
    OBVIOUS
  <2>2. Rest(p, cuts \cup {i}, i) = Rest(p, cuts \cup {i}, i + 3)
    BY <1>1, <2>1, RestIs
  <2>3. i + 3 \in (i + 1)..(Len(p) + 3)
    BY <1>1
  <2>4. Rest(p, cuts \cup {i}, i + 3) = Rest(p, cuts, i + 3)
    BY <2>3, RestIsLater
  <2>5. QED
    BY <2>2, <2>4 DEF RestUnits
<1>15. QED
  BY <1>2, <1>3, <1>13, <1>14 DEF RestUnits, s, t

-------------------------------------------------------------------------------
(* What a pattern means, and the globs it is expanded to.                    *)

\* What the units from i on reach is what the variants of the rest reach together.
Covered(p, x, i) ==
    \A from \in SUBSET Positions(x) : \A k :
        k \in Reach(UnitsFrom(p, TRUE)[i], x, from)
          <=> \E cuts \in SUBSET Dirs(p, i, FALSE) : k \in Reach(RestUnits(p, cuts, i), x, from)

LEMMA RestUnitsType ==
    ASSUME NEW p \in Seq(Signs), NEW cuts, NEW i \in 1..(Len(p) + 3)
    PROVE  RestUnits(p, cuts, i) \in Seq(Unit)
<1>1. Rest(p, cuts, i) \in Seq(Signs)
  BY RestIs
<1> DEFINE s == Rest(p, cuts, i)
<1> HIDE DEF s
<1>2. s \in Seq(Signs) /\ Len(s) \in Nat
  BY <1>1 DEF s
<1>3. UnitsFrom(s, FALSE) \in [1..(Len(s) + 3) -> Seq(Unit)]
  BY <1>2, UnitsSteps
<1>4. UnitsFrom(s, FALSE)[1] \in Seq(Unit)
  <2>1. 1 \in 1..(Len(s) + 3)
    BY <1>2
  <2>2. QED
    BY <1>3, <2>1
<1>5. QED
  BY <1>4 DEF RestUnits, Units, s

LEMMA ReachOfBad ==
    ASSUME NEW x, NEW from \in SUBSET Positions(x)
    PROVE  Reach(<<Bad>>, x, from) = {}
<1>1. Bad \in Unit /\ <<>> \in Seq(Unit) /\ <<Bad>> = Append(<<>>, Bad)
  BY UnitsOfUnit
<1>2. Reach(Append(<<>>, Bad), x, from) = After(Bad, x, Reach(<<>>, x, from))
  BY <1>1, ReachAppend
<1>3. After(Bad, x, Reach(<<>>, x, from)) = {}
  BY DEF After, Bad
<1>4. QED
  BY <1>1, <1>2, <1>3

LEMMA SlashIsSign == {"/"} \in SUBSET Signs
<1>1. 3 \in DOMAIN Character /\ Character[3] = "/"
  BY DEF Character
<1>2. "/" \in Signs
  BY <1>1 DEF Signs, Range
<1>3. QED
  BY <1>2

LEMMA AllCovered ==
    ASSUME NEW p \in Seq(Signs), NEW x \in Seq(Signs)
    PROVE  \A i \in 1..(Len(p) + 3) : Covered(p, x, i)
<1> DEFINE n == Len(p) + 3
           T == {i \in 1..n : Covered(p, x, i)}
           U(i) == UnitsFrom(p, TRUE)[i]
           P == SUBSET Positions(x)
<1>1. n \in Nat /\ Len(p) \in Nat
  OBVIOUS
<1>2. \A i \in 1..n : U(i) \in Seq(Unit)
  BY UnitsSteps
<1>3. ASSUME NEW i \in 1..n, \A j \in (i + 1)..n : j \in T PROVE i \in T
  <2>1. CASE i > Len(p)
    <3>1. i \in (Len(p) + 1)..(Len(p) + 3)
      BY <1>1, <2>1
    <3>2. U(i) = <<>> /\ Dirs(p, i, FALSE) = {}
      BY <2>1, <3>1, UnitsSteps, DirsIs
    <3>3. \A cuts : RestUnits(p, cuts, i) = <<>>
      BY <2>1, RestIs, UnitsOfNone DEF RestUnits
    <3>4. \A from \in P : \A k : k \in Reach(U(i), x, from)
             <=> \E cuts \in SUBSET Dirs(p, i, FALSE) : k \in Reach(RestUnits(p, cuts, i), x, from)
      <4>1. {} \in SUBSET Dirs(p, i, FALSE)
        OBVIOUS
      <4>2. QED
        BY <3>2, <3>3, <4>1
    <3>5. QED
      BY <3>4 DEF Covered
  <2>2. CASE i <= Len(p)
    <3>1. i \in 1..Len(p)
      BY <1>1, <2>2
    <3> DEFINE u == UnitAt(p, TRUE, i)
               next == NextAt(p, TRUE, i)
    <3>2. u \in Unit /\ next \in (i + 1)..n /\ next \in 1..n /\ U(i) = <<u>> \o U(next)
      <4>1. u \in Unit /\ next \in (i + 1)..n
        BY <3>1, UnitAtFacts
      <4>2. U(i) = <<u>> \o U(next)
        BY <3>1, UnitsSteps
      <4> HIDE DEF u, next, U
      <4>3. next \in 1..n
        BY <1>1, <4>1
      <4>4. QED
        BY <4>1, <4>2, <4>3
    <3> HIDE DEF u, next
    <3>3. Covered(p, x, next) /\ U(next) \in Seq(Unit)
      BY <1>2, <1>3, <3>2
    <3>4. CASE Stuck(p, i)
      <4>1. u = Bad /\ next = Len(p) + 1
        BY <3>4 DEF u, next, UnitAt, NextAt
      <4>2. U(i) = <<Bad>>
        <5>1. Len(p) + 1 \in (Len(p) + 1)..(Len(p) + 3)
          BY <1>1
        <5>2. U(next) = <<>>
          BY <4>1, <5>1, UnitsSteps
        <5>3. <<Bad>> \o <<>> = <<Bad>>
          OBVIOUS
        <5>4. QED
          BY <3>2, <4>1, <5>2, <5>3
      <4>3. \A cuts \in SUBSET Dirs(p, i, FALSE) : RestUnits(p, cuts, i) = <<Bad>>
        BY <3>1, <3>4, RestStuck
      <4>4. \A from \in P : Reach(<<Bad>>, x, from) = {}
        BY ReachOfBad
      <4>5. Covered(p, x, i)
        BY <4>2, <4>3, <4>4 DEF Covered
      <4>6. QED
        BY <4>5
    <3>5. CASE ~Stuck(p, i) /\ ~DoubleStarDir(p, i)
      <4>1. Dirs(p, i, FALSE) = Dirs(p, next, FALSE)
        <5>1. {} \in SUBSET Dirs(p, i, FALSE)
          OBVIOUS
        <5>2. QED
          BY <3>1, <3>5, <5>1, RestUnit DEF next
      <4>2. ASSUME NEW cuts \in SUBSET Dirs(p, i, FALSE), NEW from \in P
            PROVE  Reach(RestUnits(p, cuts, i), x, from)
                     = Reach(RestUnits(p, cuts, next), x, After(u, x, from))
        <5>1. RestUnits(p, cuts, i) = <<u>> \o RestUnits(p, cuts, next)
          BY <3>1, <3>5, RestUnit DEF u, next
        <5>2. RestUnits(p, cuts, next) \in Seq(Unit)
          BY <3>2, RestUnitsType
        <5>3. QED
          BY <3>2, <5>1, <5>2, ReachCons
      <4>3. \A from \in P : Reach(U(i), x, from) = Reach(U(next), x, After(u, x, from))
        BY <3>2, <3>3, ReachCons
      <4>4. \A from \in P : After(u, x, from) \in P
        BY AfterType
      <4> HIDE DEF P
      <4>5. ASSUME NEW from \in P, NEW k
            PROVE  k \in Reach(U(i), x, from)
                     <=> \E cuts \in SUBSET Dirs(p, i, FALSE) :
                             k \in Reach(RestUnits(p, cuts, i), x, from)
        <5> DEFINE f == After(u, x, from)
        <5>1. k \in Reach(U(next), x, f)
                <=> \E cuts \in SUBSET Dirs(p, next, FALSE) :
                        k \in Reach(RestUnits(p, cuts, next), x, f)
          <6>1. f \in P
            BY <4>4
          <6> HIDE DEF f
          <6>2. QED
            BY <3>3, <6>1 DEF Covered, P
        <5>2. Reach(U(i), x, from) = Reach(U(next), x, f)
          BY <4>3
        <5>3. \A cuts \in SUBSET Dirs(p, i, FALSE) :
                 Reach(RestUnits(p, cuts, i), x, from) = Reach(RestUnits(p, cuts, next), x, f)
          BY <4>2
        <5> HIDE DEF f, U
        <5>4. QED
          BY <4>1, <5>1, <5>2, <5>3
      <4>6. Covered(p, x, i)
        BY <4>5 DEF Covered, P
      <4>7. QED
        BY <4>6
    <3>6. CASE ~Stuck(p, i) /\ DoubleStarDir(p, i)
      <4>0. i \in 1..n /\ p[i] = "*"
        BY <3>1, <3>6, StarsFacts
      <4>1. u = Directories /\ next = i + 3
        BY <3>6, <4>0 DEF u, next, UnitAt, NextAt
      <4> DEFINE D == Dirs(p, next, FALSE)
                 slashed(from) == After(One({"/"}), x, After(Super, x, from))
      <4>2. Dirs(p, i, FALSE) = {i} \cup D /\ i \notin D
        <5>1. {} \in SUBSET Dirs(p, i + 3, FALSE)
          OBVIOUS
        <5>2. Dirs(p, i, FALSE) = {i} \cup D
          BY <3>1, <3>6, <4>1, <5>1, RestDirs
        <5>3. \A k \in D : k \in next..Len(p)
          BY <3>2, DirsWithin
        <5>4. i \notin next..Len(p)
          BY <1>1, <4>1
        <5>5. QED
          BY <5>2, <5>3, <5>4
      <4>3. ASSUME NEW from \in P PROVE slashed(from) \in P
        BY AfterType
      <4>4. ASSUME NEW cuts \in SUBSET D, NEW from \in P
            PROVE  /\ Reach(RestUnits(p, cuts, i), x, from)
                        = Reach(RestUnits(p, cuts, next), x, slashed(from))
                   /\ Reach(RestUnits(p, cuts \cup {i}, i), x, from)
                        = Reach(RestUnits(p, cuts, next), x, from)
        <5> DEFINE r == RestUnits(p, cuts, next)
                   slash == One({"/"})
                   f == After(Super, x, from)
        <5>1. RestUnits(p, cuts, i) = <<Super>> \o (<<slash>> \o r)
          BY <3>1, <3>6, <4>1, RestDirs
        <5>2. RestUnits(p, cuts \cup {i}, i) = r
          BY <3>1, <3>6, <4>1, RestDirs
        <5>3. r \in Seq(Unit)
          BY <3>2, RestUnitsType
        <5>4. slash \in Unit /\ Super \in Unit
          BY UnitsOfUnit, SlashIsSign
        <5>5. f \in P
          BY AfterType
        <5> HIDE DEF r, slash
        <5>6. <<slash>> \o r \in Seq(Unit)
          BY <5>3, <5>4
        <5>7. Reach(<<Super>> \o (<<slash>> \o r), x, from) = Reach(<<slash>> \o r, x, f)
          BY <5>4, <5>6, ReachCons
        <5> HIDE DEF f
        <5>8. Reach(<<slash>> \o r, x, f) = Reach(r, x, After(slash, x, f))
          BY <5>3, <5>4, <5>5, ReachCons
        <5>9. QED
          BY <5>1, <5>2, <5>7, <5>8 DEF r, slash, f
      <4>5. ASSUME NEW from \in P
            PROVE  Reach(U(i), x, from)
                     = Reach(U(next), x, from) \cup Reach(U(next), x, slashed(from))
        <5> DEFINE f == slashed(from)
                   v == U(next)
        <5>1. Reach(U(i), x, from) = Reach(v, x, After(Directories, x, from))
          <6>1. U(i) = <<Directories>> \o v /\ Directories \in Unit /\ v \in Seq(Unit)
            BY <3>2, <3>3, <4>1
          <6> HIDE DEF v
          <6>2. Reach(<<Directories>> \o v, x, from) = Reach(v, x, After(Directories, x, from))
            BY <6>1, ReachCons
          <6>3. QED
            BY <6>1, <6>2
        <5>2. After(Directories, x, from) = from \cup f
          BY AfterDirectories
        <5>3. f \in P /\ v \in Seq(Unit)
          BY <3>3, <4>3
        <5> HIDE DEF f, v
        <5>4. Reach(v, x, from \cup f) = Reach(v, x, from) \cup Reach(v, x, f)
          <6> DEFINE W == Seq(Unit)
          <6>1. \A a, b \in P, w \in W :
                   Reach(w, x, a \cup b) = Reach(w, x, a) \cup Reach(w, x, b)
            BY ReachUnion
          <6>2. from \in P /\ f \in P /\ v \in W
            BY <4>5, <5>3
          <6> HIDE DEF P, W
          <6>3. QED
            BY <6>1, <6>2
        <5>5. QED
          BY <5>1, <5>2, <5>4 DEF f, v
      <4>6. ASSUME NEW f \in P, NEW k
            PROVE  k \in Reach(U(next), x, f)
                     <=> \E cuts \in SUBSET D : k \in Reach(RestUnits(p, cuts, next), x, f)
        BY <3>3 DEF Covered
      <4> HIDE DEF P, D, slashed, U
      <4>7. ASSUME NEW from \in P, NEW k
            PROVE  k \in Reach(U(i), x, from)
                     <=> \E cuts \in SUBSET Dirs(p, i, FALSE) :
                             k \in Reach(RestUnits(p, cuts, i), x, from)
        <5>1. ASSUME k \in Reach(U(i), x, from)
              PROVE  \E cuts \in SUBSET Dirs(p, i, FALSE) :
                             k \in Reach(RestUnits(p, cuts, i), x, from)
          <6>1. CASE k \in Reach(U(next), x, from)
            <7>1. PICK cuts \in SUBSET D : k \in Reach(RestUnits(p, cuts, next), x, from)
              BY <4>6, <6>1
            <7>2. k \in Reach(RestUnits(p, cuts \cup {i}, i), x, from)
              BY <4>4, <7>1
            <7>3. cuts \cup {i} \in SUBSET Dirs(p, i, FALSE)
              BY <4>2
            <7>4. QED
              BY <7>2, <7>3
          <6>2. CASE k \in Reach(U(next), x, slashed(from))
            <7>1. PICK cuts \in SUBSET D : k \in Reach(RestUnits(p, cuts, next), x, slashed(from))
              BY <4>3, <4>6, <6>2
            <7>2. k \in Reach(RestUnits(p, cuts, i), x, from)
              BY <4>4, <7>1
            <7>3. cuts \in SUBSET Dirs(p, i, FALSE)
              BY <4>2
            <7>4. QED
              BY <7>2, <7>3
          <6>3. QED
            BY <4>5, <5>1, <6>1, <6>2
        <5>2. ASSUME NEW all \in SUBSET Dirs(p, i, FALSE), k \in Reach(RestUnits(p, all, i), x, from)
              PROVE  k \in Reach(U(i), x, from)
          <6>1. CASE i \in all
            <7> DEFINE cuts == all \ {i}
            <7>1. cuts \in SUBSET D /\ cuts \cup {i} = all
              BY <4>2, <6>1
            <7> HIDE DEF cuts
            <7>2. k \in Reach(RestUnits(p, cuts, next), x, from)
              BY <4>4, <5>2, <7>1
            <7>3. QED
              BY <4>5, <4>6, <7>1, <7>2
          <6>2. CASE i \notin all
            <7>1. all \in SUBSET D
              BY <4>2, <6>2
            <7>2. k \in Reach(RestUnits(p, all, next), x, slashed(from))
              BY <4>4, <5>2, <7>1
            <7>3. QED
              BY <4>3, <4>5, <4>6, <7>1, <7>2
          <6>3. QED
            BY <6>1, <6>2
        <5>3. QED
          BY <5>1, <5>2
      <4>8. Covered(p, x, i)
        BY <4>7 DEF Covered, P, U
      <4>9. QED
        BY <4>8
    <3>7. QED
      BY <3>4, <3>5, <3>6
  <2>3. i > Len(p) \/ i <= Len(p)
    BY <1>1
  <2>4. QED
    BY <2>1, <2>2, <2>3
<1>4. \A i \in 1..n : i \in T
  <2> HIDE DEF T, n
  <2>1. QED
    BY <1>1, <1>3, Downwards
<1>5. QED
  BY <1>4

\* The globs that compileAll makes of a pattern match what the documents say the
\* pattern matches: "**/" is zero or more directories.
THEOREM PatternMeans ==
    ASSUME NEW p \in Seq(Signs), NEW x \in Seq(Signs), x # <<>>
    PROVE  Means(p, x) <=> MatchAny({p}, x)
<1> DEFINE from == {1}
           last == Len(x) + 1
<1>1. Len(x) \in Nat /\ Len(p) \in Nat /\ last # 1 /\ 1 \in 1..(Len(p) + 3)
      /\ from \in SUBSET Positions(x)
  BY EmptySeq DEF Positions
<1>2. Means(p, x) <=> last \in Reach(UnitsFrom(p, TRUE)[1], x, from)
  BY DEF Means, MatchesUnits, Reach, Units
<1>3. \A v : Matches(v, x) <=> last \in Reach(Units(v, FALSE), x, from)
  BY DEF Matches, MatchesUnits, Reach
<1>4. \A cuts : Cut(p, cuts) = Rest(p, cuts, 1)
  BY DEF Cut, Rest
<1>5. DoubleStarDirs(p) = Dirs(p, 1, FALSE)
  BY DEF DoubleStarDirs, Dirs
<1>6. Reach(Units(<<>>, FALSE), x, from) = {1}
  BY <1>1, UnitsOfNone, ReachOfNone
<1> HIDE DEF from, last
<1>7. last \in Reach(UnitsFrom(p, TRUE)[1], x, from)
        <=> \E cuts \in SUBSET Dirs(p, 1, FALSE) : last \in Reach(RestUnits(p, cuts, 1), x, from)
  BY <1>1, AllCovered DEF Covered
<1>8. (\E cuts \in SUBSET Dirs(p, 1, FALSE) : last \in Reach(RestUnits(p, cuts, 1), x, from))
        <=> \E cuts \in SUBSET DoubleStarDirs(p) : Matches(Cut(p, cuts), x)
  BY <1>3, <1>4, <1>5 DEF RestUnits
<1>9. ~Matches(<<>>, x)
  BY <1>1, <1>3, <1>6
<1>10. (\E cuts \in SUBSET DoubleStarDirs(p) : Matches(Cut(p, cuts), x)) <=> MatchAny({p}, x)
  BY <1>9 DEF MatchAny, Expanded
<1>11. QED
  BY <1>2, <1>7, <1>8, <1>10


===============================================================================
