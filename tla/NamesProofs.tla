------------------------------ MODULE NamesProofs -----------------------------
(***************************************************************************)
(* Facts about Names: what a fold computes, what Segments, Joined and      *)
(* Parent make of a name, and that NameLess is a strict order.             *)
(***************************************************************************)
EXTENDS Names, FiniteSetTheorems, SequenceTheorems, WellFoundedInduction, TLAPS

-------------------------------------------------------------------------------
(* Induction, as the least counterexample.                                 *)

LEMMA Least ==
    ASSUME NEW T \in SUBSET Nat, T # {}
    PROVE  \E n \in T : \A m \in T : n <= m
<1>1. OpToRel(<, Nat) = {ss \in Nat \X Nat : ss[1] < ss[2]}
  BY DEF OpToRel
<1>2. \E n \in T : \A m \in T : ~(<<m, n>> \in {ss \in Nat \X Nat : ss[1] < ss[2]})
  <2> DEFINE R == {ss \in Nat \X Nat : ss[1] < ss[2]}
  <2>1. IsWellFoundedOn(R, Nat)
    BY <1>1, NatLessThanWellFounded
  <2> HIDE DEF R
  <2>2. \E n \in T : \A m \in T : ~(<<m, n>> \in R)
    BY <2>1, WFMin
  <2>3. QED
    BY <2>2 DEF R
<1>3. PICK n \in T : \A m \in T : ~(<<m, n>> \in {ss \in Nat \X Nat : ss[1] < ss[2]})
  BY <1>2
<1>4. ASSUME NEW m \in T PROVE n <= m
  <2>1. ~(<<m, n>> \in {ss \in Nat \X Nat : ss[1] < ss[2]})
    BY <1>3
  <2>2. m \in Nat /\ n \in Nat
    OBVIOUS
  <2>3. QED
    BY <2>1, <2>2
<1>5. QED
  BY <1>4

\* Everything up to n belongs to T, if 0 does and T is closed under successors.
LEMMA Upwards ==
    ASSUME NEW n \in Nat, NEW T, 0 \in T, \A k \in 1..n : k - 1 \in T => k \in T
    PROVE  \A k \in 0..n : k \in T
<1> DEFINE U == {i \in 0..n : i \notin T}
<1> SUFFICES ASSUME U # {} PROVE FALSE
  OBVIOUS
<1>1. PICK k \in U : \A m \in U : k <= m
  <2>1. U \in SUBSET Nat
    OBVIOUS
  <2> HIDE DEF U
  <2>2. QED
    BY <2>1, Least
<1>2. k # 0 /\ k - 1 \in 0..n /\ k \in 1..n
  BY <1>1
<1>3. QED
  BY <1>1, <1>2

-------------------------------------------------------------------------------
(* Folds.                                                                  *)

LEMMA MaxOfInterval ==
    ASSUME NEW n \in Nat, NEW s \in SUBSET (1..n), n \in s
    PROVE  Max(s) = n
<1>1. \A y \in s : n >= y
  OBVIOUS
<1>2. \A x \in s : (\A y \in s : x >= y) => x = n
  OBVIOUS
<1>3. QED
  BY <1>1, <1>2 DEF Max

\* The recursive function that a fold is made of exists.
IsFold(g, op, base, q, n) ==
    \A s \in SUBSET (1..n) :
        g[s] = IF s = {} THEN base ELSE op[<<g[s \ {Max(s)}], q[Max(s)]>>]

LEMMA FoldExists ==
    ASSUME NEW V, NEW E, NEW op \in [V \X E -> V], NEW base \in V,
           NEW q \in Seq(E), NEW n \in 0..Len(q)
    PROVE  \E g \in [SUBSET (1..n) -> V] : IsFold(g, op, base, q, n)
<1> DEFINE Good(m, g) == IsFold(g, op, base, q, m)
<1> USE DEF IsFold
<1> DEFINE T == {m \in 0..Len(q) : \E g \in [SUBSET (1..m) -> V] : Good(m, g)}
<1>1. 0 \in T
  <2> DEFINE g == [s \in SUBSET (1..0) |-> base]
  <2>1. g \in [SUBSET (1..0) -> V] /\ \A s \in SUBSET (1..0) : s = {} /\ g[s] = base
    OBVIOUS
  <2>2. Good(0, g)
    BY <2>1
  <2> HIDE DEF Good, g, IsFold
  <2>3. QED
    BY <2>1, <2>2
<1>2. ASSUME NEW k \in 1..Len(q), k - 1 \in T PROVE k \in T
  <2>1. PICK g \in [SUBSET (1..(k - 1)) -> V] : Good(k - 1, g)
    BY <1>2
  <2> DEFINE h == [s \in SUBSET (1..k) |-> IF k \in s THEN op[<<g[s \ {k}], q[k]>>] ELSE g[s]]
  <2> HIDE DEF Good, IsFold
  <2>2. \A s \in SUBSET (1..k) : /\ s \ {k} \in SUBSET (1..(k - 1))
                                 /\ k \notin s => s \in SUBSET (1..(k - 1))
    OBVIOUS
  <2>3. h \in [SUBSET (1..k) -> V]
    BY <2>2
  <2>4. ASSUME NEW s \in SUBSET (1..k)
        PROVE  h[s] = IF s = {} THEN base ELSE op[<<h[s \ {Max(s)}], q[Max(s)]>>]
    <3>1. CASE k \in s
      <4>1. Max(s) = k
        BY <3>1, MaxOfInterval
      <4>2. h[s] = op[<<g[s \ {k}], q[k]>>] /\ h[s \ {k}] = g[s \ {k}]
        BY <2>2, <3>1
      <4>3. QED
        BY <3>1, <4>1, <4>2
    <3>2. CASE k \notin s
      <4>1. s \in SUBSET (1..(k - 1)) /\ s \ {Max(s)} \in SUBSET (1..k) /\ k \notin s \ {Max(s)}
        BY <2>2, <3>2
      <4>2. h[s] = g[s] /\ h[s \ {Max(s)}] = g[s \ {Max(s)}]
        BY <3>2, <4>1
      <4>3. QED
        BY <2>1, <4>1, <4>2 DEF Good, IsFold
    <3>3. QED
      BY <3>1, <3>2
  <2>5. Good(k, h)
    BY <2>4 DEF Good, IsFold
  <2> HIDE DEF h
  <2>6. QED
    BY <2>3, <2>5
<1>3. Len(q) \in Nat /\ n \in 0..Len(q)
  OBVIOUS
<1> HIDE DEF T
<1>4. n \in T
  BY <1>1, <1>2, <1>3, Upwards
<1>5. QED
  BY <1>4 DEF T, Good

\* The values a fold goes through.
IsRun(F, op, base, q) ==
    /\ F[0] = base
    /\ \A k \in 1..Len(q) : F[k] = op[<<F[k - 1], q[k]>>]

LEMMA RunType ==
    ASSUME NEW V, NEW E, NEW op \in [V \X E -> V], NEW base \in V, NEW q \in Seq(E),
           NEW F, IsRun(F, op, base, q)
    PROVE  \A k \in 0..Len(q) : F[k] \in V
<1> DEFINE T == {k \in 0..Len(q) : F[k] \in V}
<1>0. Len(q) \in Nat
  OBVIOUS
<1>1. 0 \in T
  BY DEF IsRun
<1>2. ASSUME NEW k \in 1..Len(q), k - 1 \in T PROVE k \in T
  <2>1. F[k - 1] \in V /\ q[k] \in E /\ F[k] = op[<<F[k - 1], q[k]>>]
    BY <1>2 DEF IsRun
  <2>2. QED
    BY <2>1
<1> HIDE DEF T
<1>3. \A k \in 0..Len(q) : k \in T
  BY <1>0, <1>1, <1>2, Upwards
<1>4. QED
  BY <1>3 DEF T

\* Two runs over sequences that begin alike agree so far.
LEMMA RunUnique ==
    ASSUME NEW q, NEW r, Len(q) \in Nat, Len(r) \in Nat, NEW op, NEW base, NEW F, NEW G,
           IsRun(F, op, base, q), IsRun(G, op, base, r), NEW n \in 0..Len(q), n <= Len(r),
           \A k \in 1..n : q[k] = r[k]
    PROVE  \A k \in 0..n : F[k] = G[k]
<1> DEFINE T == {k \in 0..n : F[k] = G[k]}
<1>0. n \in Nat /\ Len(q) \in Nat /\ Len(r) \in Nat
  OBVIOUS
<1>1. 0 \in T
  BY DEF IsRun
<1>2. ASSUME NEW k \in 1..n, k - 1 \in T PROVE k \in T
  <2>1. k - 1 \in 0..n /\ k \in 0..n /\ k \in 1..Len(q) /\ k \in 1..Len(r) /\ q[k] = r[k]
    BY <1>0
  <2>2. F[k] = op[<<F[k - 1], q[k]>>] /\ G[k] = op[<<G[k - 1], r[k]>>]
    BY <2>1 DEF IsRun
  <2>3. QED
    BY <1>2, <2>1, <2>2
<1> HIDE DEF T
<1>3. \A k \in 0..n : k \in T
  BY <1>0, <1>1, <1>2, Upwards
<1>4. QED
  BY <1>3 DEF T

\* One element more is one step more.
LEMMA RunAppend ==
    ASSUME NEW E, NEW q \in Seq(E), NEW e \in E, NEW op, NEW base, NEW F, NEW G,
           IsRun(F, op, base, q), IsRun(G, op, base, Append(q, e))
    PROVE  G[Len(Append(q, e))] = op[<<F[Len(q)], e>>]
<1> DEFINE more == Append(q, e)
<1>1. /\ more \in Seq(E) /\ Len(more) = Len(q) + 1 /\ Len(q) \in Nat
      /\ more[Len(more)] = e /\ \A k \in 1..Len(q) : q[k] = more[k]
  OBVIOUS
<1>2. IsRun(G, op, base, more)
  OBVIOUS
<1> HIDE DEF more
<1>3. G[Len(q)] = F[Len(q)]
  <2>1. Len(q) \in 0..Len(q) /\ Len(q) <= Len(more) /\ Len(more) \in Nat
    BY <1>1
  <2>2. \A k \in 0..Len(q) : F[k] = G[k]
    BY <1>1, <1>2, <2>1, RunUnique
  <2>3. QED
    BY <2>1, <2>2
<1>4. G[Len(more)] = op[<<G[Len(q)], e>>]
  <2>1. Len(more) \in 1..Len(more) /\ Len(more) - 1 = Len(q)
    BY <1>1
  <2>2. QED
    BY <1>1, <1>2, <2>1 DEF IsRun
<1>5. QED
  BY <1>3, <1>4 DEF more

\* A sequence of values that makes the steps of op, as long as the values are of
\* its type, is a run.
LEMMA RunByTypes ==
    ASSUME NEW V, NEW E, NEW op \in [V \X E -> V], NEW base \in V, NEW q \in Seq(E),
           NEW F, F[0] = base,
           \A k \in 1..Len(q) : F[k - 1] \in V => F[k] = op[<<F[k - 1], q[k]>>]
    PROVE  IsRun(F, op, base, q)
<1> DEFINE T == {k \in 0..Len(q) : F[k] \in V}
<1>0. Len(q) \in Nat
  OBVIOUS
<1>1. 0 \in T
  OBVIOUS
<1>2. ASSUME NEW k \in 1..Len(q), k - 1 \in T PROVE k \in T
  <2>1. F[k - 1] \in V /\ q[k] \in E /\ F[k] = op[<<F[k - 1], q[k]>>]
    BY <1>2
  <2>2. QED
    BY <2>1
<1> HIDE DEF T
<1>3. \A k \in 0..Len(q) : k \in T
  BY <1>0, <1>1, <1>2, Upwards
<1>4. QED
  BY <1>3 DEF T, IsRun

LEMMA MaxIsIn ==
    ASSUME NEW n \in Nat, NEW s \in SUBSET (1..n), s # {}
    PROVE  Max(s) \in s /\ \A y \in s : Max(s) >= y
<1> DEFINE IsMax(t) == Max(t) \in t /\ \A y \in t : Max(t) >= y
<1> DEFINE T == {k \in 0..n : \A t \in SUBSET (1..k) : t # {} => IsMax(t)}
<1>1. 0 \in T
  <2>1. 1..0 = {}
    OBVIOUS
  <2>2. 0 \in 0..n
    OBVIOUS
  <2>3. QED
    BY <2>1, <2>2
<1>2. ASSUME NEW k \in 1..n, k - 1 \in T PROVE k \in T
  <2>1. ASSUME NEW t \in SUBSET (1..k), t # {} PROVE IsMax(t)
    <3>1. CASE k \in t
      <4>1. Max(t) = k
        BY <3>1, MaxOfInterval
      <4>2. \A y \in t : k >= y
        OBVIOUS
      <4>3. QED
        BY <3>1, <4>1, <4>2
    <3>2. CASE k \notin t
      <4>1. t \in SUBSET (1..(k - 1))
        BY <3>2
      <4>2. QED
        BY <1>2, <2>1, <4>1
    <3>3. QED
      BY <3>1, <3>2
  <2>2. QED
    BY <2>1
<1> HIDE DEF T
<1>3. n \in T
  BY <1>1, <1>2, Upwards
<1>4. IsMax(s)
  BY <1>3 DEF T
<1>5. QED
  BY <1>4

LEMMA Intervals ==
    ASSUME NEW n \in Nat, NEW k \in 1..n
    PROVE  /\ 1..k \in SUBSET (1..n) /\ 1..k # {}
           /\ Max(1..k) = k /\ (1..k) \ {k} = 1..(k - 1)
<1>1. k \in Nat /\ 1..k \in SUBSET (1..k) /\ k \in 1..k
  OBVIOUS
<1>2. Max(1..k) = k
  BY <1>1, MaxOfInterval
<1>3. (1..k) \ {k} = 1..(k - 1)
  OBVIOUS
<1>4. 1..k # {}
  BY <1>1
<1>5. 1..k \in SUBSET (1..n)
  OBVIOUS
<1>6. QED
  BY <1>2, <1>3, <1>4, <1>5

-------------------------------------------------------------------------------
(* Segments.                                                               *)

\* The step of Segments, as a function.
SegOp(C) ==
    [p \in (Seq(Seq(C)) \ {<<>>}) \X C |->
        IF p[2] = "/" THEN Append(p[1], <<>>)
                      ELSE [p[1] EXCEPT ![Len(p[1])] = Append(@, p[2])]]

LEMMA SegOpType ==
    ASSUME NEW C
    PROVE  SegOp(C) \in [(Seq(Seq(C)) \ {<<>>}) \X C -> Seq(Seq(C)) \ {<<>>}]
<1> SUFFICES ASSUME NEW segs \in Seq(Seq(C)) \ {<<>>}, NEW c \in C
             PROVE  /\ Append(segs, <<>>) \in Seq(Seq(C)) \ {<<>>}
                    /\ [segs EXCEPT ![Len(segs)] = Append(@, c)] \in Seq(Seq(C)) \ {<<>>}
  BY DEF SegOp
<1>1. Append(segs, <<>>) \in Seq(Seq(C)) \ {<<>>}
  OBVIOUS
<1>2. Len(segs) \in DOMAIN segs /\ segs[Len(segs)] \in Seq(C)
  OBVIOUS
<1>3. [segs EXCEPT ![Len(segs)] = Append(@, c)] \in Seq(Seq(C)) \ {<<>>}
  BY <1>2
<1>4. QED
  BY <1>1, <1>3

LEMMA SegmentsRun ==
    ASSUME NEW C, NEW x \in Seq(C)
    PROVE  \E F : IsRun(F, SegOp(C), << <<>> >>, x) /\ Segments(x) = F[Len(x)]
<1> DEFINE V == Seq(Seq(C)) \ {<<>>}
<1> DEFINE Step(segs, c) ==
      IF c = "/" THEN Append(segs, <<>>) ELSE [segs EXCEPT ![Len(segs)] = Append(@, c)]
<1> DEFINE Rec(h) ==
      h = [s \in SUBSET DOMAIN x |->
             IF s = {} THEN << <<>> >> ELSE Step(h[s \ {Max(s)}], x[Max(s)])]
<1>1. Segments(x) = (CHOOSE h : Rec(h))[DOMAIN x]
  BY DEF Segments, FoldLeft, MapThenFoldSet
<1>2. << <<>> >> \in V /\ DOMAIN x = 1..Len(x) /\ Len(x) \in Nat
  OBVIOUS
<1>3. \A v \in V, c \in C : SegOp(C)[<<v, c>>] = Step(v, c)
  BY DEF SegOp
<1> HIDE DEF V, Step
<1>4. \E h : Rec(h)
  <2>1. PICK g \in [SUBSET (1..Len(x)) -> V] : IsFold(g, SegOp(C), << <<>> >>, x, Len(x))
    <3>1. SegOp(C) \in [V \X C -> V]
      BY SegOpType DEF V
    <3>2. Len(x) \in 0..Len(x)
      BY <1>2
    <3>3. QED
      BY <1>2, <3>1, <3>2, FoldExists
  <2>2. ASSUME NEW s \in SUBSET (1..Len(x)), s # {}
        PROVE  g[s \ {Max(s)}] \in V /\ x[Max(s)] \in C
    <3>1. Max(s) \in 1..Len(x)
      BY <1>2, <2>2, MaxIsIn
    <3>2. s \ {Max(s)} \in SUBSET (1..Len(x))
      OBVIOUS
    <3>3. QED
      BY <3>1, <3>2
  <2>3. \A s \in SUBSET (1..Len(x)) :
             g[s] = IF s = {} THEN << <<>> >> ELSE Step(g[s \ {Max(s)}], x[Max(s)])
    BY <1>3, <2>1, <2>2 DEF IsFold
  <2>4. Rec(g)
    BY <1>2, <2>3
  <2>5. QED
    BY <2>4
<1>5. PICK h : Rec(h) /\ Segments(x) = h[DOMAIN x]
  BY <1>1, <1>4
<1> DEFINE F == [k \in 0..Len(x) |-> h[1..k]]
<1>6. F[0] = << <<>> >>
  BY <1>2, <1>5
<1>7. ASSUME NEW k \in 1..Len(x) PROVE F[k] = Step(F[k - 1], x[k])
  <2>1. h[1..k] = Step(h[1..(k - 1)], x[k])
    <3>1. 1..k \in SUBSET (1..Len(x)) /\ 1..k # {} /\ Max(1..k) = k
          /\ (1..k) \ {k} = 1..(k - 1)
      BY <1>2, Intervals
    <3>2. QED
      BY <1>2, <1>5, <3>1
  <2>2. QED
    BY <2>1
<1>8. IsRun(F, SegOp(C), << <<>> >>, x)
  <2>1. SegOp(C) \in [V \X C -> V]
    BY SegOpType DEF V
  <2>2. ASSUME NEW k \in 1..Len(x), F[k - 1] \in V
        PROVE  F[k] = SegOp(C)[<<F[k - 1], x[k]>>]
    <3>1. x[k] \in C
      OBVIOUS
    <3>2. QED
      BY <1>3, <1>7, <2>2, <3>1
  <2> HIDE DEF F
  <2>3. QED
    BY <1>2, <1>6, <2>1, <2>2, RunByTypes
<1>9. Segments(x) = F[Len(x)]
  BY <1>2, <1>5
<1>10. QED
  BY <1>8, <1>9

-------------------------------------------------------------------------------
(* Joined.                                                                 *)

JoinOp(C) ==
    [p \in Seq(C) \X Seq(C) |-> IF p[1] = <<>> THEN p[2] ELSE p[1] \o <<"/">> \o p[2]]

LEMMA JoinOpType ==
    ASSUME NEW C, "/" \in C
    PROVE  JoinOp(C) \in [Seq(C) \X Seq(C) -> Seq(C)]
  BY DEF JoinOp

LEMMA JoinedRun ==
    ASSUME NEW C, "/" \in C, NEW segs \in Seq(Seq(C))
    PROVE  \E F : IsRun(F, JoinOp(C), <<>>, segs) /\ Joined(segs) = F[Len(segs)]
<1> DEFINE V == Seq(C)
<1> DEFINE Step(x, seg) == IF x = <<>> THEN seg ELSE x \o <<"/">> \o seg
<1> DEFINE Rec(h) ==
      h = [s \in SUBSET DOMAIN segs |->
             IF s = {} THEN <<>> ELSE Step(h[s \ {Max(s)}], segs[Max(s)])]
<1>1. Joined(segs) = (CHOOSE h : Rec(h))[DOMAIN segs]
  BY DEF Joined, FoldLeft, MapThenFoldSet
<1>2. <<>> \in V /\ DOMAIN segs = 1..Len(segs) /\ Len(segs) \in Nat /\ segs \in Seq(V)
  OBVIOUS
<1>3. \A v \in V, c \in V : JoinOp(C)[<<v, c>>] = Step(v, c)
  BY DEF JoinOp
<1>4. JoinOp(C) \in [V \X V -> V]
  BY JoinOpType
<1> HIDE DEF V, Step
<1>5. \E h : Rec(h)
  <2>1. PICK g \in [SUBSET (1..Len(segs)) -> V] : IsFold(g, JoinOp(C), <<>>, segs, Len(segs))
    <3>1. Len(segs) \in 0..Len(segs)
      BY <1>2
    <3>2. QED
      BY <1>2, <1>4, <3>1, FoldExists
  <2>2. ASSUME NEW s \in SUBSET (1..Len(segs)), s # {}
        PROVE  g[s \ {Max(s)}] \in V /\ segs[Max(s)] \in V
    <3>1. Max(s) \in 1..Len(segs)
      BY <1>2, <2>2, MaxIsIn
    <3>2. s \ {Max(s)} \in SUBSET (1..Len(segs))
      OBVIOUS
    <3>3. QED
      BY <1>2, <3>1, <3>2
  <2>3. \A s \in SUBSET (1..Len(segs)) :
             g[s] = IF s = {} THEN <<>> ELSE Step(g[s \ {Max(s)}], segs[Max(s)])
    BY <1>3, <2>1, <2>2 DEF IsFold
  <2>4. Rec(g)
    BY <1>2, <2>3
  <2>5. QED
    BY <2>4
<1>6. PICK h : Rec(h) /\ Joined(segs) = h[DOMAIN segs]
  BY <1>1, <1>5
<1> DEFINE F == [k \in 0..Len(segs) |-> h[1..k]]
<1>7. F[0] = <<>>
  BY <1>2, <1>6
<1>8. ASSUME NEW k \in 1..Len(segs) PROVE F[k] = Step(F[k - 1], segs[k])
  <2>1. h[1..k] = Step(h[1..(k - 1)], segs[k])
    <3>1. 1..k \in SUBSET (1..Len(segs)) /\ 1..k # {} /\ Max(1..k) = k
          /\ (1..k) \ {k} = 1..(k - 1)
      BY <1>2, Intervals
    <3>2. QED
      BY <1>2, <1>6, <3>1
  <2>2. QED
    BY <2>1
<1>9. IsRun(F, JoinOp(C), <<>>, segs)
  <2>1. ASSUME NEW k \in 1..Len(segs), F[k - 1] \in V
        PROVE  F[k] = JoinOp(C)[<<F[k - 1], segs[k]>>]
    <3>1. segs[k] \in V
      BY <1>2
    <3>2. QED
      BY <1>3, <1>8, <2>1, <3>1
  <2> HIDE DEF F
  <2>2. QED
    BY <1>2, <1>4, <1>7, <2>1, RunByTypes
<1>10. Joined(segs) = F[Len(segs)]
  BY <1>2, <1>6
<1>11. QED
  BY <1>9, <1>10

LEMMA JoinedType ==
    ASSUME NEW C, "/" \in C, NEW segs \in Seq(Seq(C))
    PROVE  Joined(segs) \in Seq(C)
<1> DEFINE V == Seq(C)
<1>1. PICK F : IsRun(F, JoinOp(C), <<>>, segs) /\ Joined(segs) = F[Len(segs)]
  BY JoinedRun
<1>2. <<>> \in V /\ Len(segs) \in 0..Len(segs) /\ segs \in Seq(V)
  OBVIOUS
<1>3. JoinOp(C) \in [V \X V -> V]
  BY JoinOpType
<1> HIDE DEF V
<1>4. F[Len(segs)] \in V
  BY <1>1, <1>2, <1>3, RunType
<1>5. QED
  BY <1>1, <1>4 DEF V

LEMMA JoinedOfNone ==
    ASSUME NEW C, "/" \in C
    PROVE  Joined(<<>>) = <<>>
<1>1. <<>> \in Seq(Seq(C)) /\ Len(<<>>) = 0
  OBVIOUS
<1>2. QED
  BY <1>1, JoinedRun DEF IsRun

LEMMA JoinedAppend ==
    ASSUME NEW C, "/" \in C, NEW segs \in Seq(Seq(C)), NEW seg \in Seq(C)
    PROVE  Joined(Append(segs, seg)) = IF Joined(segs) = <<>> THEN seg
                                       ELSE Joined(segs) \o <<"/">> \o seg
<1> DEFINE more == Append(segs, seg)
<1>1. more \in Seq(Seq(C))
  OBVIOUS
<1>2. PICK F : IsRun(F, JoinOp(C), <<>>, segs) /\ Joined(segs) = F[Len(segs)]
  BY JoinedRun
<1>3. PICK G : IsRun(G, JoinOp(C), <<>>, more) /\ Joined(more) = G[Len(more)]
  BY <1>1, JoinedRun
<1>4. Joined(more) = JoinOp(C)[<<Joined(segs), seg>>]
  <2> DEFINE V == Seq(C)
  <2> DEFINE none == <<>>
  <2>1. segs \in Seq(V) /\ seg \in V
    OBVIOUS
  <2>2. IsRun(F, JoinOp(C), none, segs) /\ IsRun(G, JoinOp(C), none, Append(segs, seg))
    BY <1>2, <1>3
  <2> HIDE DEF V, none
  <2>3. G[Len(Append(segs, seg))] = JoinOp(C)[<<F[Len(segs)], seg>>]
    BY <2>1, <2>2, RunAppend
  <2>4. QED
    BY <1>2, <1>3, <2>3
<1>5. Joined(segs) \in Seq(C)
  BY JoinedType
<1>6. QED
  BY <1>4, <1>5 DEF JoinOp

LEMMA SegmentsType ==
    ASSUME NEW C, NEW x \in Seq(C)
    PROVE  Segments(x) \in Seq(Seq(C)) \ {<<>>}
<1> DEFINE V == Seq(Seq(C)) \ {<<>>}
<1>1. PICK F : IsRun(F, SegOp(C), << <<>> >>, x) /\ Segments(x) = F[Len(x)]
  BY SegmentsRun
<1>2. << <<>> >> \in V /\ Len(x) \in 0..Len(x)
  OBVIOUS
<1>3. SegOp(C) \in [V \X C -> V]
  BY SegOpType
<1> HIDE DEF V
<1>4. F[Len(x)] \in V
  BY <1>1, <1>2, <1>3, RunType
<1>5. QED
  BY <1>1, <1>4 DEF V

LEMMA SegmentsOfNone == Segments(<<>>) = << <<>> >>
<1>1. <<>> \in Seq({"/"}) /\ Len(<<>>) = 0
  OBVIOUS
<1>2. QED
  BY <1>1, SegmentsRun DEF IsRun

LEMMA SegmentsAppend ==
    ASSUME NEW C, NEW x \in Seq(C), NEW c \in C
    PROVE  Segments(Append(x, c)) =
               IF c = "/" THEN Append(Segments(x), <<>>)
               ELSE [Segments(x) EXCEPT ![Len(Segments(x))] = Append(@, c)]
<1>1. Append(x, c) \in Seq(C)
  OBVIOUS
<1>2. PICK F : IsRun(F, SegOp(C), << <<>> >>, x) /\ Segments(x) = F[Len(x)]
  BY SegmentsRun
<1>3. PICK G : IsRun(G, SegOp(C), << <<>> >>, Append(x, c))
               /\ Segments(Append(x, c)) = G[Len(Append(x, c))]
  BY <1>1, SegmentsRun
<1>4. Segments(Append(x, c)) = SegOp(C)[<<Segments(x), c>>]
  BY <1>2, <1>3, RunAppend
<1>5. Segments(x) \in Seq(Seq(C)) \ {<<>>}
  BY SegmentsType
<1>6. QED
  BY <1>4, <1>5 DEF SegOp

\* What holds of the empty sequence, and of a longer one if it does of the one that
\* is an element shorter, holds of all.
LEMMA SequencesGrow ==
    ASSUME NEW C, NEW T, <<>> \in T,
           \A x \in Seq(C), c \in C : x \in T => Append(x, c) \in T
    PROVE  \A x \in Seq(C) : x \in T
<1> SUFFICES ASSUME NEW x \in Seq(C) PROVE x \in T
  OBVIOUS
<1> DEFINE U == {k \in 0..Len(x) : SubSeq(x, 1, k) \in T}
<1>0. Len(x) \in Nat
  OBVIOUS
<1>1. 0 \in U
  <2>1. SubSeq(x, 1, 0) = <<>>
    OBVIOUS
  <2>2. 0 \in 0..Len(x)
    BY <1>0
  <2>3. QED
    BY <2>1, <2>2
<1>2. ASSUME NEW k \in 1..Len(x), k - 1 \in U PROVE k \in U
  <2>1. /\ SubSeq(x, 1, k) = Append(SubSeq(x, 1, k - 1), x[k])
        /\ SubSeq(x, 1, k - 1) \in Seq(C) /\ x[k] \in C
    OBVIOUS
  <2>2. SubSeq(x, 1, k) \in T
    BY <1>2, <2>1
  <2>3. QED
    BY <2>2
<1> HIDE DEF U
<1>3. Len(x) \in U
  <2>1. Len(x) \in 0..Len(x)
    BY <1>0
  <2>2. QED
    BY <1>0, <1>1, <1>2, <2>1, Upwards
<1>4. SubSeq(x, 1, Len(x)) = x
  OBVIOUS
<1>5. QED
  BY <1>3, <1>4 DEF U

-------------------------------------------------------------------------------
(* A name is its segments.                                                 *)

Plain(seg) == ~Contains(seg, "/")

\* No segment has a slash in it.
LEMMA SegmentsArePlain ==
    ASSUME NEW C, NEW x \in Seq(C)
    PROVE  \A i \in 1..Len(Segments(x)) : Plain(Segments(x)[i])
<1> DEFINE P(segs) == \A i \in 1..Len(segs) : Plain(segs[i])
<1> DEFINE T == {y \in Seq(C) : P(Segments(y))}
<1>1. <<>> \in T
  <2>1. \A i \in 1..Len(<< <<>> >>) : << <<>> >>[i] = <<>>
    OBVIOUS
  <2>2. P(<< <<>> >>)
    BY <2>1 DEF Plain, Contains
  <2>3. <<>> \in Seq(C)
    OBVIOUS
  <2>4. QED
    BY <2>2, <2>3, SegmentsOfNone
<1>2. ASSUME NEW y \in Seq(C), NEW c \in C, y \in T PROVE Append(y, c) \in T
  <2> DEFINE segs == Segments(y)
  <2>0. Append(y, c) \in Seq(C)
    OBVIOUS
  <2>1. segs \in Seq(Seq(C)) \ {<<>>} /\ P(segs)
    BY <1>2, SegmentsType
  <2> HIDE DEF segs, P
  <2>2. CASE c = "/"
    <3>1. Segments(Append(y, c)) = Append(segs, <<>>)
      BY <2>2, SegmentsAppend DEF segs
    <3>2. P(Append(segs, <<>>))
      BY <2>1 DEF P, Plain, Contains
    <3>3. QED
      BY <2>0, <3>1, <3>2
  <2>3. CASE c # "/"
    <3>1. Segments(Append(y, c)) = [segs EXCEPT ![Len(segs)] = Append(@, c)]
      BY <2>3, SegmentsAppend DEF segs
    <3>2. Len(segs) \in 1..Len(segs) /\ segs[Len(segs)] \in Seq(C)
      BY <2>1
    <3>3. Plain(Append(segs[Len(segs)], c))
      <4> DEFINE seg == segs[Len(segs)]
      <4>1. seg \in Seq(C) /\ Plain(seg)
        BY <2>1, <3>2 DEF P
      <4> HIDE DEF seg
      <4>2. QED
        BY <2>3, <4>1 DEF Plain, Contains, seg
    <3>4. P([segs EXCEPT ![Len(segs)] = Append(@, c)])
      BY <2>1, <3>2, <3>3 DEF P
    <3>5. QED
      BY <2>0, <3>1, <3>4
  <2>4. QED
    BY <2>2, <2>3
<1> HIDE DEF T
<1>3. x \in T
  BY <1>1, <1>2, SequencesGrow
<1>4. QED
  BY <1>3 DEF T

LEMMA FrontAndLast ==
    ASSUME NEW E, NEW q \in Seq(E) \ {<<>>}
    PROVE  Front(q) \in Seq(E) /\ Last(q) \in E /\ q = Append(Front(q), Last(q))
           /\ Len(Front(q)) = Len(q) - 1
<1>1. Len(q) \in Nat \ {0}
  OBVIOUS
<1>2. Front(q) \in Seq(E) /\ Len(Front(q)) = Len(q) - 1
      /\ \A i \in 1..(Len(q) - 1) : Front(q)[i] = q[i]
  <2> DEFINE n == Len(q) - 1
  <2>1. n \in 0..Len(q) /\ n \in Nat
    BY <1>1
  <2> HIDE DEF n
  <2>2. SubSeq(q, 1, n) \in Seq(E)
    BY <2>1
  <2>3. Len(SubSeq(q, 1, n)) = n /\ \A i \in 1..n : SubSeq(q, 1, n)[i] = q[i]
    BY <2>1
  <2>4. QED
    BY <2>2, <2>3 DEF Front, n
<1>3. Last(q) \in E /\ Last(q) = q[Len(q)]
  BY <1>1 DEF Last
<1>4. q = Append(Front(q), Last(q))
  BY <1>1, <1>2, <1>3
<1>5. QED
  BY <1>2, <1>3, <1>4

\* Relative names: they do not begin with a slash.
Relative(x) == x = <<>> \/ x[1] # "/"

\* The segments of a relative name, put together, are the name.
LEMMA JoinedSegments ==
    ASSUME NEW C, "/" \in C, NEW x \in Seq(C), Relative(x)
    PROVE  Joined(Segments(x)) = x
<1> DEFINE T == {y \in Seq(C) : Relative(y) => Joined(Segments(y)) = y}
<1>1. <<>> \in T
  <2>1. <<>> \in Seq(Seq(C)) /\ <<>> \in Seq(C) /\ << <<>> >> = Append(<<>>, <<>>)
    OBVIOUS
  <2>2. Joined(Append(<<>>, <<>>)) = <<>>
    BY <2>1, JoinedOfNone, JoinedAppend
  <2>3. QED
    BY <2>1, <2>2, SegmentsOfNone
<1>2. ASSUME NEW y \in Seq(C), NEW c \in C, y \in T PROVE Append(y, c) \in T
  <2> SUFFICES ASSUME Relative(Append(y, c)) PROVE Joined(Segments(Append(y, c))) = Append(y, c)
    OBVIOUS
  <2> DEFINE segs == Segments(y)
  <2>1. segs \in Seq(Seq(C)) \ {<<>>}
    BY SegmentsType
  <2>2. Relative(y) /\ (y = <<>> => c # "/")
    <3>1. y # <<>> => Append(y, c)[1] = y[1] /\ Append(y, c) # <<>>
      OBVIOUS
    <3>2. y = <<>> => Append(y, c)[1] = c /\ Append(y, c) # <<>>
      OBVIOUS
    <3>3. QED
      BY <3>1, <3>2 DEF Relative
  <2>3. Joined(segs) = y
    BY <1>2, <2>2
  <2> HIDE DEF segs, T
  <2>4. CASE c = "/"
    <3>1. Segments(Append(y, c)) = Append(segs, <<>>)
      BY <2>4, SegmentsAppend DEF segs
    <3>2. Joined(Append(segs, <<>>)) = y \o <<"/">> \o <<>>
      <4>1. <<>> \in Seq(C) /\ y # <<>>
        BY <2>2, <2>4
      <4>2. QED
        BY <2>1, <2>3, <4>1, JoinedAppend
    <3>3. y \o <<"/">> \o <<>> = Append(y, c)
      BY <2>4
    <3>4. QED
      BY <3>1, <3>2, <3>3
  <2>5. CASE c # "/"
    <3> DEFINE front == Front(segs)
               last == Last(segs)
    <3>1. front \in Seq(Seq(C)) /\ last \in Seq(C) /\ segs = Append(front, last)
      BY <2>1, FrontAndLast
    <3>2. Segments(Append(y, c)) = [segs EXCEPT ![Len(segs)] = Append(@, c)]
      BY <2>5, SegmentsAppend DEF segs
    <3>3. [segs EXCEPT ![Len(segs)] = Append(@, c)] = Append(front, Append(last, c))
      <4> HIDE DEF front, last
      <4> DEFINE V == Seq(C)
                 longer == Append(last, c)
                 n == Len(segs)
                 lhs == [segs EXCEPT ![n] = longer]
                 rhs == Append(front, longer)
      <4>1. longer \in V /\ last \in V /\ front \in Seq(V) /\ segs \in Seq(V)
        BY <2>1, <3>1
      <4> HIDE DEF V, longer
      <4>2. /\ n = Len(front) + 1 /\ n \in Nat \ {0} /\ Len(front) \in Nat
            /\ segs[n] = last
            /\ \A i \in 1..Len(front) : segs[i] = front[i]
        BY <3>1, <4>1, AppendProperties
      <4>3. lhs \in Seq(V) /\ Len(lhs) = n /\ lhs[n] = longer
            /\ \A i \in 1..Len(front) : lhs[i] = front[i]
        BY <4>1, <4>2, ExceptSeq
      <4>4. rhs \in Seq(V) /\ Len(rhs) = n /\ rhs[n] = longer
            /\ \A i \in 1..Len(front) : rhs[i] = front[i]
        BY <4>1, <4>2, AppendProperties
      <4>5. [segs EXCEPT ![Len(segs)] = Append(@, c)] = lhs
        BY <4>2 DEF longer
      <4> HIDE DEF lhs, rhs, n
      <4>6. \A i \in 1..Len(lhs) : lhs[i] = rhs[i]
        <5>1. \A i \in 1..n : i = n \/ i \in 1..Len(front)
          BY <4>2
        <5>2. QED
          BY <4>3, <4>4, <5>1
      <4>7. lhs = rhs
        BY <4>3, <4>4, <4>6, SeqEqual
      <4>8. QED
        BY <4>5, <4>7 DEF rhs, longer
    <3>4. Append(last, c) \in Seq(C)
      BY <3>1
    <3> HIDE DEF front, last
    <3>5. y = IF Joined(front) = <<>> THEN last ELSE Joined(front) \o <<"/">> \o last
      BY <2>3, <3>1, JoinedAppend
    <3>6. Joined(Append(front, Append(last, c))) =
              IF Joined(front) = <<>> THEN Append(last, c)
              ELSE Joined(front) \o <<"/">> \o Append(last, c)
      BY <3>1, <3>4, JoinedAppend
    <3>7. Joined(front) \o <<"/">> \o Append(last, c) = Append(Joined(front) \o <<"/">> \o last, c)
      <4>1. Joined(front) \in Seq(C)
        BY <3>1, JoinedType
      <4> DEFINE z == Joined(front) \o <<"/">>
      <4>2. z \in Seq(C)
        BY <4>1
      <4> HIDE DEF z
      <4>3. z \o Append(last, c) = Append(z \o last, c)
        BY <3>1, <4>2
      <4>4. QED
        BY <4>3 DEF z
    <3>8. QED
      BY <3>2, <3>3, <3>5, <3>6, <3>7
  <2>6. QED
    BY <2>4, <2>5
<1> HIDE DEF T
<1>3. x \in T
  BY <1>1, <1>2, SequencesGrow
<1>4. QED
  BY <1>3 DEF T

\* A relative name is its parent, a slash and a segment.
LEMMA ParentSplits ==
    ASSUME NEW C, "/" \in C, NEW x \in Seq(C), Relative(x)
    PROVE  /\ Parent(x) \in Seq(C)
           /\ \E last \in Seq(C) :
                 /\ Plain(last)
                 /\ x = IF Parent(x) = <<>> THEN last ELSE Parent(x) \o <<"/">> \o last
<1> DEFINE segs == Segments(x)
<1> DEFINE last == Last(segs)
<1>1. segs \in Seq(Seq(C)) \ {<<>>} /\ \A i \in 1..Len(segs) : Plain(segs[i])
  BY SegmentsType, SegmentsArePlain
<1>2. Parent(x) = Joined(Front(segs)) /\ Joined(segs) = x
  BY JoinedSegments DEF Parent
<1> HIDE DEF segs
<1>3. Front(segs) \in Seq(Seq(C)) /\ last \in Seq(C) /\ segs = Append(Front(segs), last)
  BY <1>1, FrontAndLast
<1>4. Plain(last)
  BY <1>1 DEF Last
<1> HIDE DEF last
<1>5. Parent(x) \in Seq(C)
  BY <1>2, <1>3, JoinedType
<1>6. x = IF Parent(x) = <<>> THEN last ELSE Parent(x) \o <<"/">> \o last
  BY <1>2, <1>3, JoinedAppend
<1>7. QED
  BY <1>3, <1>4, <1>5, <1>6

-------------------------------------------------------------------------------
(* What is under what.                                                     *)

\* A name under y: y, a slash, and more.
LEMMA UnderMeans ==
    ASSUME NEW C, "/" \in C, NEW x \in Seq(C), NEW y \in Seq(C), y # <<>>
    PROVE  Under(x, y) <=> /\ Len(y) < Len(x) /\ x[Len(y) + 1] = "/"
                           /\ \A i \in 1..Len(y) : x[i] = y[i]
<1>1. Append(y, "/") \in Seq(C) /\ Len(Append(y, "/")) = Len(y) + 1
  OBVIOUS
<1>2. IsPrefix(Append(y, "/"), x) <=>
          /\ Len(y) + 1 <= Len(x)
          /\ \A i \in 1..(Len(y) + 1) : x[i] = Append(y, "/")[i]
  BY <1>1 DEF IsPrefix
<1>3. (\A i \in 1..(Len(y) + 1) : x[i] = Append(y, "/")[i]) <=>
          x[Len(y) + 1] = "/" /\ \A i \in 1..Len(y) : x[i] = y[i]
  BY <1>1
<1>4. Len(y) + 1 <= Len(x) => x # y
  OBVIOUS
<1>5. QED
  BY <1>2, <1>3, <1>4 DEF Under

LEMMA UnderIsLonger ==
    ASSUME NEW C, "/" \in C, NEW x \in Seq(C), NEW y \in Seq(C), Under(x, y)
    PROVE  Len(y) < Len(x)
<1>1. CASE y = <<>>
  BY <1>1 DEF Under
<1>2. CASE y # <<>>
  BY <1>2, UnderMeans
<1>3. QED
  BY <1>1, <1>2

LEMMA UnderTransitive ==
    ASSUME NEW C, "/" \in C, NEW x \in Seq(C), NEW y \in Seq(C), NEW z \in Seq(C),
           Under(x, y), Under(y, z)
    PROVE  Under(x, z)
<1>1. Len(z) < Len(y) /\ Len(y) < Len(x)
  BY UnderIsLonger
<1>2. CASE z = <<>>
  BY <1>1, <1>2 DEF Under
<1>3. CASE z # <<>>
  <2>1. y # <<>>
    BY <1>1
  <2>2. /\ x[Len(y) + 1] = "/" /\ \A i \in 1..Len(y) : x[i] = y[i]
        /\ y[Len(z) + 1] = "/" /\ \A i \in 1..Len(z) : y[i] = z[i]
    BY <1>3, <2>1, UnderMeans
  <2>3. x[Len(z) + 1] = "/" /\ \A i \in 1..Len(z) : x[i] = z[i]
    BY <1>1, <2>2
  <2>4. QED
    BY <1>1, <1>3, <2>3, UnderMeans
<1>4. QED
  BY <1>2, <1>3

LEMMA UnderParent ==
    ASSUME NEW C, "/" \in C, NEW x \in Seq(C), Relative(x), x # <<>>
    PROVE  Under(x, Parent(x))
<1>1. Parent(x) \in Seq(C)
  BY ParentSplits
<1>2. PICK last \in Seq(C) : x = IF Parent(x) = <<>> THEN last ELSE Parent(x) \o <<"/">> \o last
  BY ParentSplits
<1>3. CASE Parent(x) = <<>>
  BY <1>3 DEF Under
<1>4. CASE Parent(x) # <<>>
  <2> DEFINE p == Parent(x)
  <2>1. p \in Seq(C) /\ p # <<>> /\ x = p \o <<"/">> \o last
    BY <1>1, <1>2, <1>4
  <2> HIDE DEF p
  <2>2. Len(p) < Len(x) /\ x[Len(p) + 1] = "/" /\ \A i \in 1..Len(p) : x[i] = p[i]
    BY <2>1
  <2>3. Under(x, p)
    BY <2>1, <2>2, UnderMeans
  <2>4. QED
    BY <2>3 DEF p
<1>5. QED
  BY <1>3, <1>4

\* Nothing is between a name and its parent.
LEMMA UnderMeansParent ==
    ASSUME NEW C, "/" \in C, NEW x \in Seq(C), Relative(x), NEW d \in Seq(C), Under(x, d)
    PROVE  Parent(x) = d \/ Under(Parent(x), d)
<1> DEFINE p == Parent(x)
<1>1. p \in Seq(C)
  BY ParentSplits
<1>2. PICK last \in Seq(C) : Plain(last) /\ x = IF p = <<>> THEN last ELSE p \o <<"/">> \o last
  BY ParentSplits
<1> HIDE DEF p
<1>3. CASE d = <<>>
  BY <1>1, <1>3 DEF Under, p
<1>4. CASE d # <<>>
  <2>1. Len(d) < Len(x) /\ x[Len(d) + 1] = "/" /\ \A i \in 1..Len(d) : x[i] = d[i]
    BY <1>4, UnderMeans
  <2>2. p # <<>>
    <3> SUFFICES ASSUME p = <<>> PROVE FALSE
      OBVIOUS
    <3>1. x = last
      BY <1>2
    <3>2. QED
      BY <1>2, <2>1, <3>1 DEF Plain, Contains
  <2>3. x = p \o <<"/">> \o last
    BY <1>2, <2>2
  <2>4. Len(d) <= Len(p)
    <3> SUFFICES ASSUME Len(d) > Len(p) PROVE FALSE
      BY <1>1
    <3> DEFINE i == Len(d) - Len(p)
    <3>1. i \in 1..Len(last) /\ x[Len(d) + 1] = last[i]
      BY <1>1, <2>1, <2>3
    <3>2. QED
      BY <1>2, <2>1, <3>1 DEF Plain, Contains
  <2>5. \A i \in 1..Len(p) : x[i] = p[i]
    BY <1>1, <2>3
  <2>6. CASE Len(d) = Len(p)
    <3>1. d = p
      BY <1>1, <2>1, <2>5, <2>6
    <3>2. QED
      BY <3>1 DEF p
  <2>7. CASE Len(d) < Len(p)
    <3>1. p[Len(d) + 1] = "/" /\ \A i \in 1..Len(d) : p[i] = d[i]
      <4>1. Len(d) \in Nat /\ Len(p) \in Nat
        BY <1>1
      <4>2. Len(d) + 1 \in 1..Len(p) /\ \A i \in 1..Len(d) : i \in 1..Len(p)
        BY <2>7, <4>1
      <4>3. QED
        BY <2>1, <2>5, <4>2
    <3>2. Under(p, d)
      BY <1>1, <1>4, <2>7, <3>1, UnderMeans
    <3>3. QED
      BY <3>2 DEF p
  <2>8. QED
    BY <1>1, <2>4, <2>6, <2>7
<1>5. QED
  BY <1>3, <1>4

-------------------------------------------------------------------------------
(* What the operating system calls a file, and what Clean makes of a name.     *)

LEMMA SlashedSegments ==
    ASSUME NEW C, NEW x \in Seq(C), x # <<>>, x[1] = "/"
    PROVE  Segments(x)[1] = <<>>
<1> DEFINE T == {y \in Seq(C) : y # <<>> /\ y[1] = "/" =>
                                    Len(Segments(y)) > 1 /\ Segments(y)[1] = <<>>}
<1>1. <<>> \in T
  OBVIOUS
<1>2. ASSUME NEW y \in Seq(C), NEW c \in C, y \in T PROVE Append(y, c) \in T
  <2> DEFINE segs == Segments(y)
             V == Seq(C)
  <2>1. segs \in Seq(V) \ {<<>>} /\ <<>> \in V
    BY SegmentsType
  <2>2. /\ Segments(Append(y, c)) = IF c = "/" THEN Append(segs, <<>>)
                                    ELSE [segs EXCEPT ![Len(segs)] = Append(segs[Len(segs)], c)]
        /\ Append(y, c) \in Seq(C)
    BY SegmentsAppend
  <2>3. y = <<>> => segs = << <<>> >>
    BY SegmentsOfNone
  <2>4. y # <<>> => Append(y, c)[1] = y[1]
    OBVIOUS
  <2>5. y = <<>> => Append(y, c)[1] = c
    OBVIOUS
  <2>6. y # <<>> /\ y[1] = "/" => Len(segs) > 1 /\ segs[1] = <<>>
    BY <1>2
  <2> HIDE DEF segs, V
  <2>7. Len(Append(segs, <<>>)) = Len(segs) + 1 /\ Append(segs, <<>>)[1] = segs[1]
        /\ Len(segs) \in Nat \ {0}
    BY <2>1
  <2> SUFFICES ASSUME Append(y, c)[1] = "/"
               PROVE  Len(Segments(Append(y, c))) > 1 /\ Segments(Append(y, c))[1] = <<>>
    BY <2>2
  <2>8. CASE y = <<>>
    <3>1. c = "/" /\ segs[1] = <<>>
      BY <2>3, <2>5, <2>8
    <3>2. QED
      BY <2>2, <2>7, <3>1
  <2>9. CASE y # <<>>
    <3>1. Len(segs) > 1 /\ segs[1] = <<>>
      BY <2>4, <2>6, <2>9
    <3>2. CASE c = "/"
      BY <2>2, <2>7, <3>1, <3>2
    <3>3. CASE c # "/"
      <4> DEFINE e == Append(segs[Len(segs)], c)
      <4>1. e \in V /\ Len(segs) \in 1..Len(segs) /\ 1 \in 1..Len(segs) /\ Len(segs) # 1
        BY <2>1, <2>7, <3>1 DEF V
      <4>2. Segments(Append(y, c)) = [segs EXCEPT ![Len(segs)] = e]
        BY <2>2, <3>3
      <4> HIDE DEF e
      <4>3. /\ Len([segs EXCEPT ![Len(segs)] = e]) = Len(segs)
            /\ [segs EXCEPT ![Len(segs)] = e][1] = segs[1]
        BY <2>1, <4>1, ExceptSeq
      <4>4. QED
        BY <3>1, <4>2, <4>3
    <3>4. QED
      BY <3>2, <3>3
  <2>10. QED
    BY <2>8, <2>9
<1> HIDE DEF T
<1>3. x \in T
  BY <1>1, <1>2, SequencesGrow
<1>4. QED
  BY <1>3 DEF T

\* What has no empty segment is relative, and not empty.
LEMMA WithoutEmptySegments ==
    ASSUME NEW C, NEW x \in Seq(C), \A i \in DOMAIN Segments(x) : Segments(x)[i] # <<>>
    PROVE  x # <<>> /\ Relative(x)
<1>1. Segments(x) \in Seq(Seq(C)) \ {<<>>}
  BY SegmentsType
<1>2. 1 \in DOMAIN Segments(x)
  BY <1>1
<1>3. Segments(x)[1] # <<>>
  BY <1>2
<1>4. x # <<>>
  BY <1>3, SegmentsOfNone
<1>5. x[1] # "/"
  BY <1>3, <1>4, SlashedSegments
<1>6. QED
  BY <1>4, <1>5 DEF Relative

CleanStep(segs, seg) ==
    CASE seg \in {<<>>, Dot} -> segs
      [] seg = DotDot /\ segs # <<>> /\ Last(segs) # DotDot -> Front(segs)
      [] OTHER -> Append(segs, seg)

CleanOp(C) == [p \in Seq(Seq(C)) \X Seq(C) |-> CleanStep(p[1], p[2])]

LEMMA CleanOpType ==
    ASSUME NEW C
    PROVE  CleanOp(C) \in [Seq(Seq(C)) \X Seq(C) -> Seq(Seq(C))]
<1> DEFINE V == Seq(C)
<1> SUFFICES ASSUME NEW segs \in Seq(V), NEW seg \in V PROVE CleanStep(segs, seg) \in Seq(V)
  BY DEF CleanOp
<1> HIDE DEF V
<1>1. Append(segs, seg) \in Seq(V)
  OBVIOUS
<1>2. segs # <<>> => Front(segs) \in Seq(V)
  BY FrontAndLast
<1>3. QED
  BY <1>1, <1>2 DEF CleanStep

LEMMA CleanRun ==
    ASSUME NEW C, "/" \in C, "." \in C, NEW x \in Seq(C)
    PROVE  \E F : /\ IsRun(F, CleanOp(C), <<>>, Segments(x))
                  /\ Clean(x) = IF Joined(F[Len(Segments(x))]) = <<>> THEN Dot
                                ELSE Joined(F[Len(Segments(x))])
<1> DEFINE segs == Segments(x)
           V == Seq(Seq(C))
           E == Seq(C)
           Rec(h) == h = [s \in SUBSET DOMAIN segs |->
                             IF s = {} THEN <<>> ELSE CleanStep(h[s \ {Max(s)}], segs[Max(s)])]
           folded == (CHOOSE h : Rec(h))[DOMAIN segs]
<1>1. Clean(x) = IF Joined(folded) = <<>> THEN Dot ELSE Joined(folded)
  BY DEF Clean, FoldLeft, MapThenFoldSet, CleanStep
<1>2. <<>> \in V /\ DOMAIN segs = 1..Len(segs) /\ Len(segs) \in Nat /\ segs \in Seq(E)
  BY SegmentsType
<1>3. \A v \in V, e \in E : CleanOp(C)[<<v, e>>] = CleanStep(v, e)
  BY DEF CleanOp
<1>4. CleanOp(C) \in [V \X E -> V]
  BY CleanOpType
<1> HIDE DEF V, E, segs
<1>5. \E h : Rec(h)
  <2>1. PICK g \in [SUBSET (1..Len(segs)) -> V] : IsFold(g, CleanOp(C), <<>>, segs, Len(segs))
    <3>1. Len(segs) \in 0..Len(segs)
      BY <1>2
    <3>2. QED
      BY <1>2, <1>4, <3>1, FoldExists
  <2>2. ASSUME NEW s \in SUBSET (1..Len(segs)), s # {}
        PROVE  g[s \ {Max(s)}] \in V /\ segs[Max(s)] \in E
    <3>1. Max(s) \in 1..Len(segs)
      BY <1>2, <2>2, MaxIsIn
    <3>2. s \ {Max(s)} \in SUBSET (1..Len(segs))
      OBVIOUS
    <3>3. QED
      BY <1>2, <3>1, <3>2
  <2>3. \A s \in SUBSET (1..Len(segs)) :
             g[s] = IF s = {} THEN <<>> ELSE CleanStep(g[s \ {Max(s)}], segs[Max(s)])
    BY <1>3, <2>1, <2>2 DEF IsFold
  <2>4. Rec(g)
    BY <1>2, <2>3
  <2>5. QED
    BY <2>4
<1>6. Rec(CHOOSE h : Rec(h))
  BY <1>5
<1>7. PICK h : Rec(h) /\ folded = h[DOMAIN segs]
  BY <1>6
<1> DEFINE F == [k \in 0..Len(segs) |-> h[1..k]]
<1>8. F[0] = <<>>
  BY <1>2, <1>7
<1>9. ASSUME NEW k \in 1..Len(segs) PROVE F[k] = CleanStep(F[k - 1], segs[k])
  <2>1. h[1..k] = CleanStep(h[1..(k - 1)], segs[k])
    <3>1. 1..k \in SUBSET (1..Len(segs)) /\ 1..k # {} /\ Max(1..k) = k
          /\ (1..k) \ {k} = 1..(k - 1)
      BY <1>2, Intervals
    <3>2. QED
      BY <1>2, <1>7, <3>1
  <2>2. QED
    BY <2>1
<1>10. IsRun(F, CleanOp(C), <<>>, segs)
  <2>1. ASSUME NEW k \in 1..Len(segs), F[k - 1] \in V
        PROVE  F[k] = CleanOp(C)[<<F[k - 1], segs[k]>>]
    <3>1. segs[k] \in E
      BY <1>2
    <3>2. QED
      BY <1>3, <1>9, <2>1, <3>1
  <2> HIDE DEF F
  <2>2. QED
    BY <1>2, <1>4, <1>8, <2>1, RunByTypes
<1>11. folded = F[Len(segs)]
  BY <1>2, <1>7
<1> HIDE DEF F, folded
<1>12. QED
  BY <1>1, <1>10, <1>11 DEF segs

LEMMA CleanType ==
    ASSUME NEW C, "/" \in C, "." \in C, NEW y \in Seq(C)
    PROVE  Clean(y) \in Seq(C)
<1> DEFINE V == Seq(Seq(C))
<1>1. Dot \in Seq(C)
  BY DEF Dot
<1>3. PICK F : /\ IsRun(F, CleanOp(C), <<>>, Segments(y))
               /\ Clean(y) = IF Joined(F[Len(Segments(y))]) = <<>> THEN Dot
                             ELSE Joined(F[Len(Segments(y))])
  BY CleanRun
<1> DEFINE E == Seq(C)
<1>4. Segments(y) \in Seq(E) /\ CleanOp(C) \in [V \X E -> V] /\ <<>> \in V
  <2>1. Segments(y) \in Seq(E)
    BY SegmentsType
  <2>2. CleanOp(C) \in [V \X E -> V]
    BY CleanOpType
  <2>3. QED
    BY <2>1, <2>2
<1>5. Len(Segments(y)) \in 0..Len(Segments(y))
  BY <1>4
<1> HIDE DEF V, E
<1>6. F[Len(Segments(y))] \in V
  BY <1>3, <1>4, <1>5, RunType
<1>7. Joined(F[Len(Segments(y))]) \in Seq(C)
  BY <1>6, JoinedType DEF V
<1>8. QED
  BY <1>1, <1>3, <1>7

LEMMA ArchiveNameType ==
    ASSUME NEW C, "/" \in C, "." \in C, NEW x \in Seq(C)
    PROVE  ArchiveName(x) \in Seq(C)
<1>1. Slashed(x) \in Seq(C)
  BY DEF Slashed, ReplaceAll
<1>2. QED
  BY <1>1, CleanType DEF ArchiveName

-------------------------------------------------------------------------------
(* Names are their segments.                                                *)

LEMMA LastReplaced ==
    ASSUME NEW V, NEW s \in Seq(V), NEW a \in V, NEW b \in V
    PROVE  /\ Len(Append(s, a)) = Len(s) + 1 /\ Append(s, a)[Len(s) + 1] = a
           /\ [Append(s, a) EXCEPT ![Len(s) + 1] = b] = Append(s, b)
<1> DEFINE n == Len(s) + 1
           lhs == [Append(s, a) EXCEPT ![n] = b]
           rhs == Append(s, b)
<1>1. Len(s) \in Nat /\ n \in Nat \ {0}
  OBVIOUS
<1>2. /\ Append(s, a) \in Seq(V) /\ Len(Append(s, a)) = n /\ Append(s, a)[n] = a
      /\ \A i \in 1..Len(s) : Append(s, a)[i] = s[i]
  BY AppendProperties
<1>3. /\ rhs \in Seq(V) /\ Len(rhs) = n /\ rhs[n] = b /\ \A i \in 1..Len(s) : rhs[i] = s[i]
  BY AppendProperties
<1>4. lhs \in Seq(V) /\ Len(lhs) = n /\ \A i \in 1..n : lhs[i] = IF i = n THEN b ELSE Append(s, a)[i]
  <2> DEFINE q == Append(s, a)
  <2>1. q \in Seq(V) /\ Len(q) = n /\ n \in 1..Len(q)
    BY <1>1, <1>2
  <2> HIDE DEF q, n
  <2>2. /\ [q EXCEPT ![n] = b] \in Seq(V) /\ Len([q EXCEPT ![n] = b]) = Len(q)
        /\ \A i \in 1..Len(q) : [q EXCEPT ![n] = b][i] = IF i = n THEN b ELSE q[i]
    BY <2>1, ExceptSeq
  <2>3. QED
    BY <2>1, <2>2 DEF q
<1>5. \A i \in 1..n : i = n \/ (i # n /\ i \in 1..Len(s))
  BY <1>1
<1> HIDE DEF lhs, rhs, n
<1>6. \A i \in 1..n : lhs[i] = rhs[i]
  BY <1>2, <1>3, <1>4, <1>5
<1>7. lhs = rhs
  BY <1>3, <1>4, <1>6, SeqEqual
<1>8. QED
  BY <1>2, <1>7 DEF lhs, rhs, n

LEMMA PlainAppend ==
    ASSUME NEW C, NEW y \in Seq(C), NEW c \in C, Plain(Append(y, c))
    PROVE  Plain(y) /\ c # "/"
<1>1. /\ Len(Append(y, c)) = Len(y) + 1 /\ Len(y) \in Nat
      /\ \A i \in 1..Len(y) : i \in 1..(Len(y) + 1) /\ Append(y, c)[i] = y[i]
      /\ Append(y, c)[Len(y) + 1] = c /\ Len(y) + 1 \in 1..(Len(y) + 1)
  BY AppendProperties
<1>2. QED
  BY <1>1 DEF Plain, Contains

LEMMA SegmentsOfPlain ==
    ASSUME NEW C, NEW seg \in Seq(C), Plain(seg)
    PROVE  Segments(seg) = <<seg>>
<1> DEFINE T == {y \in Seq(C) : Plain(y) => Segments(y) = <<y>>}
<1>1. <<>> \in T
  BY SegmentsOfNone
<1>2. ASSUME NEW y \in Seq(C), NEW c \in C, y \in T PROVE Append(y, c) \in T
  <2> SUFFICES ASSUME Plain(Append(y, c)) PROVE Segments(Append(y, c)) = <<Append(y, c)>>
    OBVIOUS
  <2>1. Segments(y) = <<y>> /\ c # "/"
    BY <1>2, PlainAppend
  <2>2. Segments(Append(y, c)) = [<<y>> EXCEPT ![Len(<<y>>)] = Append(<<y>>[Len(<<y>>)], c)]
    <3> DEFINE w == Segments(y)
    <3>1. Segments(Append(y, c)) = IF c = "/" THEN Append(w, <<>>)
                                   ELSE [w EXCEPT ![Len(w)] = Append(w[Len(w)], c)]
      BY SegmentsAppend
    <3>2. QED
      BY <2>1, <3>1
  <2> DEFINE e == Append(y, c)
  <2>3. Len(<<y>>) = 1 /\ <<y>>[1] = y
    OBVIOUS
  <2>4. Segments(Append(y, c)) = [<<y>> EXCEPT ![1] = e]
    BY <2>2, <2>3
  <2> HIDE DEF e
  <2>5. [<<y>> EXCEPT ![1] = e] = <<e>>
    OBVIOUS
  <2>6. QED
    BY <2>4, <2>5 DEF e
<1> HIDE DEF T
<1>3. seg \in T
  BY <1>1, <1>2, SequencesGrow
<1>4. QED
  BY <1>3 DEF T

LEMMA SegmentsMore ==
    ASSUME NEW C, "/" \in C, NEW x \in Seq(C), NEW seg \in Seq(C), Plain(seg)
    PROVE  Segments(x \o <<"/">> \o seg) = Append(Segments(x), seg)
<1> DEFINE T == {y \in Seq(C) : Plain(y) => Segments(x \o <<"/">> \o y) = Append(Segments(x), y)}
           V == Seq(C)
           segs == Segments(x)
<1>1. <<>> \in T
  <2>1. x \o <<"/">> \o <<>> = Append(x, "/")
    OBVIOUS
  <2>2. Segments(Append(x, "/")) = Append(Segments(x), <<>>)
    BY SegmentsAppend
  <2>3. Segments(x \o <<"/">> \o <<>>) = Append(Segments(x), <<>>)
    BY <2>1, <2>2
  <2>4. <<>> \in Seq(C)
    OBVIOUS
  <2>5. QED
    BY <2>3, <2>4
<1>2. ASSUME NEW y \in Seq(C), NEW c \in C, y \in T PROVE Append(y, c) \in T
  <2> SUFFICES ASSUME Plain(Append(y, c))
               PROVE  Segments(x \o <<"/">> \o Append(y, c)) = Append(Segments(x), Append(y, c))
    OBVIOUS
  <2>1. Segments(x \o <<"/">> \o y) = Append(segs, y) /\ c # "/"
    BY <1>2, PlainAppend
  <2> DEFINE z == x \o <<"/">>
             e == Append(y, c)
  <2>2. z \in Seq(C) /\ z \o y \in Seq(C)
    OBVIOUS
  <2>3. segs \in Seq(V) /\ y \in V /\ e \in V
    BY SegmentsType
  <2> HIDE DEF z, segs, V
  <2>4. z \o Append(y, c) = Append(z \o y, c)
    BY <2>2
  <2>5. Segments(Append(z \o y, c)) =
            [Append(segs, y) EXCEPT ![Len(Append(segs, y))] =
                                        Append(Append(segs, y)[Len(Append(segs, y))], c)]
    <3> DEFINE zy == z \o y
               w == Segments(zy)
    <3>0. zy \in Seq(C)
      BY <2>2
    <3> HIDE DEF zy
    <3>1. Segments(Append(zy, c)) = IF c = "/" THEN Append(w, <<>>)
                                    ELSE [w EXCEPT ![Len(w)] = Append(w[Len(w)], c)]
      BY <3>0, SegmentsAppend
    <3>2. w = Append(segs, y)
      BY <2>1 DEF z, zy
    <3>3. QED
      BY <2>1, <3>1, <3>2 DEF zy
  <2>6. Len(Append(segs, y)) = Len(segs) + 1 /\ Append(segs, y)[Len(segs) + 1] = y
    BY <2>3, LastReplaced
  <2>7. Segments(Append(z \o y, c)) = [Append(segs, y) EXCEPT ![Len(segs) + 1] = e]
    BY <2>5, <2>6
  <2> HIDE DEF e
  <2>8. [Append(segs, y) EXCEPT ![Len(segs) + 1] = e] = Append(segs, e)
    BY <2>3, LastReplaced
  <2>9. QED
    BY <2>4, <2>7, <2>8 DEF z, e, segs
<1> HIDE DEF T
<1>3. seg \in T
  BY <1>1, <1>2, SequencesGrow
<1>4. QED
  BY <1>3 DEF T

Segment(C) == {seg \in Seq(C) : Plain(seg) /\ seg # <<>>}

LEMMA SegmentsJoined ==
    ASSUME NEW C, "/" \in C, NEW segs \in Seq(Segment(C)), segs # <<>>
    PROVE  Joined(segs) \in Seq(C) /\ Joined(segs) # <<>> /\ Segments(Joined(segs)) = segs
<1> DEFINE E == Segment(C)
           V == Seq(C)
           T == {q \in Seq(E) : q \in Seq(V) /\ (q # <<>> =>
                    Joined(q) \in V /\ Joined(q) # <<>> /\ Segments(Joined(q)) = q)}
<1>1. <<>> \in T
  OBVIOUS
<1>2. ASSUME NEW q \in Seq(E), NEW e \in E, q \in T PROVE Append(q, e) \in T
  <2>1. e \in V /\ Plain(e) /\ e # <<>>
    BY DEF Segment
  <2>2. q \in Seq(V) /\ (q # <<>> =>
             Joined(q) \in V /\ Joined(q) # <<>> /\ Segments(Joined(q)) = q)
    BY <1>2
  <2>3. Joined(Append(q, e)) = IF Joined(q) = <<>> THEN e ELSE Joined(q) \o <<"/">> \o e
    BY <2>1, <2>2, JoinedAppend
  <2>4. CASE q = <<>>
    <3>1. Joined(Append(q, e)) = e
      BY <2>3, <2>4, JoinedOfNone
    <3>2. Segments(e) = <<e>>
      BY <2>1, SegmentsOfPlain
    <3> HIDE DEF V, E
    <3>3. Append(q, e) = <<e>> /\ Append(q, e) \in Seq(E) /\ Append(q, e) \in Seq(V)
      BY <2>1, <2>2, <2>4
    <3>4. QED
      BY <2>1, <3>1, <3>2, <3>3
  <2>5. CASE q # <<>>
    <3> DEFINE x == Joined(q)
    <3>1. x \in V /\ x # <<>> /\ Segments(x) = q
      BY <2>2, <2>5
    <3>2. Joined(Append(q, e)) = x \o <<"/">> \o e
      BY <2>3, <3>1
    <3> HIDE DEF x
    <3>3. Segments(x \o <<"/">> \o e) = Append(q, e)
      BY <2>1, <3>1, SegmentsMore
    <3>4. x \o <<"/">> \o e \in V /\ x \o <<"/">> \o e # <<>>
      BY <2>1, <3>1
    <3> HIDE DEF V, E
    <3>5. Append(q, e) \in Seq(E) /\ Append(q, e) \in Seq(V)
      BY <2>1, <2>2
    <3>6. QED
      BY <3>2, <3>3, <3>4, <3>5
  <2>6. QED
    BY <2>4, <2>5
<1> HIDE DEF T
<1>3. segs \in T
  BY <1>1, <1>2, SequencesGrow
<1>4. QED
  BY <1>3 DEF T

\* The segments of a file name, and the name they make.
LEMMA FileNameSegments ==
    ASSUME NEW C, "/" \in C, NEW x \in Seq(C), IsFileName(x)
    PROVE  /\ Segments(x) \in Seq(Segment(C)) /\ Segments(x) \in Seq(Seq(C)) /\ Segments(x) # <<>>
           /\ Joined(Segments(x)) = x /\ x # <<>> /\ Relative(x)
<1> DEFINE V == Seq(C)
           segs == Segments(x)
<1>1. segs \in Seq(V) /\ segs # <<>>
  BY SegmentsType
<1>2. \A i \in 1..Len(segs) : Plain(segs[i])
  BY SegmentsArePlain
<1> HIDE DEF V
<1>3. DOMAIN segs = 1..Len(segs) /\ \A i \in 1..Len(segs) : segs[i] \in V
  BY <1>1
<1>4. \A i \in DOMAIN segs : segs[i] # <<>>
  BY DEF IsFileName
<1>5. \A i \in 1..Len(segs) : segs[i] \in Segment(C)
  BY <1>2, <1>3, <1>4 DEF Segment, V
<1>6. segs \in Seq(Segment(C))
  BY <1>1, <1>3, <1>5
<1>7. x # <<>> /\ Relative(x)
  BY <1>4, WithoutEmptySegments
<1>8. QED
  BY <1>1, <1>6, <1>7, JoinedSegments DEF V

\* Clean leaves a file name as it is.
LEMMA CleanOfFileName ==
    ASSUME NEW C, "/" \in C, "." \in C, NEW x \in Seq(C), IsFileName(x)
    PROVE  Clean(x) = x
<1> DEFINE V == Seq(C)
           segs == Segments(x)
           n == Len(segs)
<1>1. segs \in Seq(V) /\ segs # <<>> /\ Joined(segs) = x /\ x # <<>>
  BY FileNameSegments
<1>2. PICK F : /\ IsRun(F, CleanOp(C), <<>>, segs)
               /\ Clean(x) = IF Joined(F[n]) = <<>> THEN Dot ELSE Joined(F[n])
  BY CleanRun
<1>3. \A s \in Seq(V), e \in V : CleanOp(C)[<<s, e>>] = CleanStep(s, e)
  BY DEF CleanOp
<1>4. \A i \in 1..n : segs[i] \notin {<<>>, Dot, DotDot}
  <2>1. DOMAIN segs = 1..n
    BY <1>1
  <2>2. QED
    BY <2>1 DEF IsFileName
<1>5. n \in Nat
  BY <1>1
<1> HIDE DEF V, segs, n
<1> DEFINE T == {k \in 0..n : F[k] = SubSeq(segs, 1, k)}
<1>6. 0 \in T
  <2>1. 0 \in 0..n /\ F[0] = <<>>
    BY <1>2, <1>5 DEF IsRun
  <2>2. SubSeq(segs, 1, 0) = <<>>
    BY <1>1
  <2>3. QED
    BY <2>1, <2>2
<1>7. ASSUME NEW k \in 1..n, k - 1 \in T PROVE k \in T
  <2>1. segs[k] \in V /\ n = Len(segs)
    BY <1>1 DEF n
  <2>2. SubSeq(segs, 1, k - 1) \in Seq(V) /\ SubSeq(segs, 1, k) = Append(SubSeq(segs, 1, k - 1), segs[k])
    <3>1. n \in Nat /\ n = Len(segs) /\ k - 1 \in 0..n
      BY <1>5, <2>1
    <3>2. SubSeq(segs, 1, k - 1) \in Seq(V) /\ Len(SubSeq(segs, 1, k - 1)) = k - 1
          /\ \A i \in 1..(k - 1) : SubSeq(segs, 1, k - 1)[i] = segs[i]
      BY <1>1, <3>1
    <3>3. SubSeq(segs, 1, k) \in Seq(V) /\ Len(SubSeq(segs, 1, k)) = k
          /\ \A i \in 1..k : SubSeq(segs, 1, k)[i] = segs[i]
      BY <1>1, <3>1
    <3> DEFINE a == SubSeq(segs, 1, k - 1)
               b == SubSeq(segs, 1, k)
    <3> HIDE DEF a, b
    <3>4. Append(a, segs[k]) \in Seq(V) /\ Len(Append(a, segs[k])) = k
          /\ (\A i \in 1..(k - 1) : Append(a, segs[k])[i] = a[i]) /\ Append(a, segs[k])[k] = segs[k]
      BY <2>1, <3>2, AppendProperties DEF a
    <3>5. \A i \in 1..k : b[i] = Append(a, segs[k])[i]
      <4>1. \A i \in 1..k : i = k \/ i \in 1..(k - 1)
        OBVIOUS
      <4>2. QED
        BY <3>2, <3>3, <3>4, <4>1 DEF a, b
    <3>6. b = Append(a, segs[k])
      BY <3>3, <3>4, <3>5, SeqEqual DEF b
    <3>7. QED
      BY <3>2, <3>6 DEF a, b
  <2>3. F[k - 1] = SubSeq(segs, 1, k - 1)
    BY <1>7
  <2>4. F[k] = CleanOp(C)[<<F[k - 1], segs[k]>>]
    BY <1>2 DEF IsRun, n
  <2>5. F[k] = CleanStep(F[k - 1], segs[k])
    BY <1>3, <2>1, <2>2, <2>3, <2>4
  <2>6. CleanStep(F[k - 1], segs[k]) = Append(F[k - 1], segs[k])
    BY <1>4 DEF CleanStep
  <2>7. k \in 0..n
    BY <1>5
  <2>8. QED
    BY <2>2, <2>3, <2>5, <2>6, <2>7
<1>8. n \in T
  <2>1. \A k \in 0..n : k \in T
    <3> HIDE DEF T
    <3>1. QED
      BY <1>5, <1>6, <1>7, Upwards
  <2>2. n \in 0..n
    BY <1>5
  <2>3. QED
    BY <2>1, <2>2
<1>9. F[n] = segs
  BY <1>1, <1>8 DEF n
<1>10. QED
  BY <1>1, <1>2, <1>9

\* Clean gives a file name, unless it gives "." or something with a ".." in it.
LEMMA CleanedIsFileName ==
    ASSUME NEW C, "/" \in C, "." \in C, NEW x \in Seq(C),
           Clean(x) # Dot, ~Contains(Segments(Clean(x)), DotDot)
    PROVE  IsFileName(Clean(x))
<1> DEFINE V == Seq(C)
           P == Segment(C) \ {Dot}
           segs == Segments(x)
           n == Len(segs)
<1>1. segs \in Seq(V) /\ n \in Nat /\ DOMAIN segs = 1..n
  BY SegmentsType
<1>2. PICK F : /\ IsRun(F, CleanOp(C), <<>>, segs)
               /\ Clean(x) = IF Joined(F[n]) = <<>> THEN Dot ELSE Joined(F[n])
  BY CleanRun
<1>3. \A s \in Seq(V), e \in V : CleanOp(C)[<<s, e>>] = CleanStep(s, e)
  BY DEF CleanOp
<1>4. \A i \in 1..n : segs[i] \in V /\ Plain(segs[i])
  <2>1. \A i \in DOMAIN segs : Plain(segs[i])
    BY SegmentsArePlain
  <2> HIDE DEF V, segs
  <2>2. \A i \in 1..n : segs[i] \in V
    BY <1>1
  <2>3. QED
    BY <1>1, <2>1, <2>2
<1>5. P \subseteq V /\ P \subseteq Segment(C)
  BY DEF Segment
<1>6. \A i \in 1..n : segs[i] \notin {<<>>, Dot} => segs[i] \in P
  BY <1>4 DEF Segment
<1> HIDE DEF V, P, segs, n
<1> DEFINE T == {k \in 0..n : F[k] \in Seq(P)}
<1>7. 0 \in T
  <2>1. 0 \in 0..n /\ F[0] = <<>>
    BY <1>1, <1>2 DEF IsRun
  <2>2. <<>> \in Seq(P)
    OBVIOUS
  <2>3. QED
    BY <2>1, <2>2
<1>8. ASSUME NEW k \in 1..n, k - 1 \in T PROVE k \in T
  <2>1. F[k - 1] \in Seq(P) /\ F[k - 1] \in Seq(V)
    BY <1>5, <1>8
  <2>2. F[k] = CleanStep(F[k - 1], segs[k])
    BY <1>2, <1>3, <1>4, <2>1 DEF IsRun, n
  <2>3. F[k - 1] # <<>> => Front(F[k - 1]) \in Seq(P)
    BY <2>1, FrontAndLast
  <2>4. segs[k] \notin {<<>>, Dot} => Append(F[k - 1], segs[k]) \in Seq(P)
    BY <1>6, <2>1
  <2>5. F[k] \in Seq(P)
    BY <2>1, <2>2, <2>3, <2>4 DEF CleanStep
  <2>6. k \in 0..n
    BY <1>1
  <2>7. QED
    BY <2>5, <2>6
<1>9. F[n] \in Seq(P)
  <2>1. \A k \in 0..n : k \in T
    <3> HIDE DEF T
    <3>1. QED
      BY <1>1, <1>7, <1>8, Upwards
  <2>2. n \in 0..n
    BY <1>1
  <2>3. QED
    BY <2>1, <2>2
<1>10. F[n] # <<>>
  <2>1. Joined(<<>>) = <<>>
    BY JoinedOfNone
  <2>2. QED
    BY <1>2, <2>1
<1>11. Joined(F[n]) # <<>> /\ Segments(Joined(F[n])) = F[n]
  <2>1. F[n] \in Seq(Segment(C))
    BY <1>5, <1>9
  <2>2. QED
    BY <1>10, <2>1, SegmentsJoined
<1>12. Segments(Clean(x)) = F[n]
  BY <1>2, <1>11
<1>13. ASSUME NEW i \in DOMAIN F[n] PROVE F[n][i] \notin {<<>>, Dot, DotDot}
  <2>1. F[n][i] \in P /\ i \in 1..Len(F[n])
    BY <1>9
  <2>2. F[n][i] # DotDot
    BY <1>12, <2>1 DEF Contains
  <2>3. QED
    BY <2>1, <2>2 DEF P, Segment
<1>14. QED
  BY <1>12, <1>13 DEF IsFileName

\* What is over a file name.
LEMMA AncestorsAreAbove ==
    ASSUME NEW C, "/" \in C, NEW x \in Seq(C), IsFileName(x), NEW a \in Ancestors(x)
    PROVE  a \in Seq(C) /\ a # <<>> /\ Under(x, a)
<1> DEFINE E == Segment(C)
           segs == Segments(x)
           m == Len(segs)
           V == Seq(C)
<1>1. segs \in Seq(E) /\ segs \in Seq(V) /\ segs # <<>> /\ Joined(segs) = x
  BY FileNameSegments
<1>2. PICK n \in 1..(m - 1) : a = Joined(SubSeq(segs, 1, n))
  BY DEF Ancestors
<1> HIDE DEF segs, E, V
<1>3. m \in Nat /\ n \in 1..m /\ n < m
  BY <1>1, <1>2
<1> DEFINE Up(k) == SubSeq(segs, 1, k)
<1>4. ASSUME NEW k \in 1..m
      PROVE  Up(k) \in Seq(E) /\ Up(k) \in Seq(V) /\ Up(k) # <<>> /\ segs[k] \in V
             /\ (k + 1 \in 1..m => segs[k + 1] \in V /\ Up(k + 1) = Append(Up(k), segs[k + 1]))
  <2>1. Up(k) \in Seq(E) /\ Up(k) \in Seq(V) /\ Up(k) # <<>> /\ Len(Up(k)) = k
        /\ \A i \in 1..k : Up(k)[i] = segs[i]
    BY <1>1, <1>3
  <2>2. segs[k] \in V
    BY <1>1
  <2>3. ASSUME k + 1 \in 1..m PROVE segs[k + 1] \in V /\ Up(k + 1) = Append(Up(k), segs[k + 1])
    <3>1. segs[k + 1] \in V
      BY <1>1, <2>3
    <3>2. Up(k + 1) \in Seq(V) /\ Len(Up(k + 1)) = k + 1
          /\ \A i \in 1..(k + 1) : Up(k + 1)[i] = segs[i]
      BY <1>1, <1>3, <2>3
    <3> DEFINE b == Append(Up(k), segs[k + 1])
    <3>3. b \in Seq(V) /\ Len(b) = k + 1 /\ b[k + 1] = segs[k + 1]
          /\ \A i \in 1..k : b[i] = Up(k)[i]
      <4> HIDE DEF Up
      <4>1. QED
        BY <2>1, <3>1, AppendProperties
    <3> HIDE DEF b, Up
    <3>4. \A i \in 1..(k + 1) : Up(k + 1)[i] = b[i]
      <4>1. \A i \in 1..(k + 1) : i = k + 1 \/ i \in 1..k
        OBVIOUS
      <4>2. QED
        BY <2>1, <3>2, <3>3, <4>1
    <3>5. Up(k + 1) = b
      BY <3>2, <3>3, <3>4, SeqEqual
    <3>6. QED
      BY <3>1, <3>5 DEF b
  <2>4. QED
    BY <2>1, <2>2, <2>3
<1>5. Up(m) = segs
  BY <1>1
<1> HIDE DEF Up
<1>6. \A k \in 1..m : Joined(Up(k)) \in V /\ Joined(Up(k)) # <<>>
  BY <1>4, SegmentsJoined DEF E, V
<1>7. ASSUME NEW k \in 1..m, k + 1 \in 1..m PROVE Under(Joined(Up(k + 1)), Joined(Up(k)))
  <2> DEFINE y == Joined(Up(k))
             e == segs[k + 1]
  <2>1. y \in Seq(C) /\ y # <<>> /\ e \in Seq(C)
    BY <1>4, <1>6, <1>7 DEF V
  <2>2. Joined(Up(k + 1)) = y \o <<"/">> \o e
    BY <1>4, <1>7, <2>1, JoinedAppend DEF V
  <2> HIDE DEF y, e
  <2> DEFINE z == y \o <<"/">> \o e
  <2>3. z \in Seq(C) /\ Len(z) = Len(y) + 1 + Len(e) /\ Len(y) \in Nat /\ Len(e) \in Nat
        /\ z[Len(y) + 1] = "/" /\ \A i \in 1..Len(y) : z[i] = y[i]
    BY <2>1
  <2> HIDE DEF z
  <2>4. Under(z, y)
    <3>1. Len(y) < Len(z)
      BY <2>3
    <3>2. QED
      BY <2>1, <2>3, <3>1, UnderMeans
  <2>5. QED
    BY <2>2, <2>4 DEF y, z
<1> DEFINE T == {k \in Nat : n + k <= m - 1 => Under(Joined(Up(n + 1 + k)), Joined(Up(n)))}
<1>8. 0 \in T
  BY <1>3, <1>7
<1>9. ASSUME NEW k \in 1..(m - 1 - n), k - 1 \in T PROVE k \in T
  <2>1. n + k \in 1..m /\ n + k + 1 \in 1..m /\ k \in Nat /\ n + 1 + k = n + k + 1
        /\ n + 1 + (k - 1) = n + k /\ n + (k - 1) <= m - 1
    BY <1>3
  <2>2. Under(Joined(Up(n + k)), Joined(Up(n)))
    BY <1>9, <2>1
  <2>3. Under(Joined(Up(n + k + 1)), Joined(Up(n + k)))
    BY <1>7, <2>1
  <2>4. Under(Joined(Up(n + k + 1)), Joined(Up(n)))
    BY <1>3, <1>6, <2>1, <2>2, <2>3, UnderTransitive DEF V
  <2>5. QED
    BY <2>1, <2>4
<1>10. Under(Joined(Up(m)), Joined(Up(n)))
  <2>1. m - 1 - n \in Nat
    BY <1>3
  <2>2. \A k \in 0..(m - 1 - n) : k \in T
    <3> HIDE DEF T
    <3>1. QED
      BY <1>8, <1>9, <2>1, Upwards
  <2> DEFINE k == m - 1 - n
  <2>3. k \in 0..k /\ n + 1 + k = m /\ n + k <= m - 1
    BY <1>3, <2>1
  <2> HIDE DEF k
  <2>4. k \in T
    BY <2>2, <2>3 DEF k
  <2>5. QED
    BY <2>3, <2>4
<1>11. QED
  BY <1>1, <1>2, <1>3, <1>5, <1>6, <1>10 DEF Up, V

LEMMA SlashedFacts ==
    ASSUME NEW C, "/" \in C, NEW x \in Seq(C)
    PROVE  /\ Slashed(x) \in Seq(C \ {"\\"}) /\ Len(Slashed(x)) = Len(x)
           /\ ~Contains(x, "\\") => Slashed(x) = x
           /\ x # <<>> /\ x[1] = "/" => Slashed(x)[1] = "/"
<1> DEFINE y == Slashed(x)
<1>1. y = [i \in 1..Len(x) |-> IF x[i] = "\\" THEN "/" ELSE x[i]]
  BY DEF Slashed, ReplaceAll
<1>2. \A i \in 1..Len(x) : x[i] \in C
  OBVIOUS
<1>3. \A i \in 1..Len(x) : (IF x[i] = "\\" THEN "/" ELSE x[i]) \in C \ {"\\"}
  BY <1>2
<1>4. y \in Seq(C \ {"\\"}) /\ Len(y) = Len(x)
  BY <1>1, <1>3
<1>5. ASSUME ~Contains(x, "\\") PROVE y = x
  <2>1. \A i \in 1..Len(x) : x[i] # "\\"
    BY <1>5 DEF Contains
  <2>2. \A i \in 1..Len(x) : y[i] = x[i]
    BY <1>1, <2>1
  <2>3. y \in Seq(C)
    BY <1>1, <1>3
  <2> HIDE DEF y
  <2>4. QED
    BY <1>4, <2>2, <2>3, SeqEqual
<1>6. x # <<>> /\ x[1] = "/" => y[1] = "/"
  BY <1>1
<1>7. QED
  BY <1>4, <1>5, <1>6

\* A file name without a backslash is its own name in the archive.
LEMMA PlainArchiveName ==
    ASSUME NEW C, "/" \in C, "." \in C, NEW x \in Seq(C), IsFileName(x), ~Contains(x, "\\")
    PROVE  ArchiveName(x) = x
  BY SlashedFacts, CleanOfFileName DEF ArchiveName

\* A name that is not refused becomes a file name, which is archived as it is.
LEMMA SafeArchiveName ==
    ASSUME NEW C, "/" \in C, "." \in C, NEW x \in Seq(C), ~Unsafe(x)
    PROVE  /\ ArchiveName(x) \in Seq(C) /\ IsFileName(ArchiveName(x)) /\ ArchiveName(x) # <<>>
           /\ ArchiveName(ArchiveName(x)) = ArchiveName(x) /\ ~Unsafe(ArchiveName(x))
<1> DEFINE D == C \ {"\\"}
           y == ArchiveName(x)
<1>1. Slashed(x) \in Seq(D) /\ "/" \in D /\ "." \in D
  BY SlashedFacts
<1>2. y # Dot /\ ~Contains(Segments(y), DotDot)
  BY DEF Unsafe
<1>3. IsFileName(y)
  BY <1>1, <1>2, CleanedIsFileName DEF ArchiveName
<1>4. y \in Seq(C)
  BY ArchiveNameType
<1>5. y \in Seq(D)
  <2>1. Slashed(x) \in Seq(D) /\ y = Clean(Slashed(x))
    BY <1>1 DEF ArchiveName
  <2> HIDE DEF D, y
  <2>2. QED
    BY <1>1, <2>1, CleanType
<1> HIDE DEF y
<1>6. ~Contains(y, "\\") /\ y # <<>> /\ Relative(y)
  <2>1. \A i \in 1..Len(y) : y[i] \in D /\ DOMAIN y = 1..Len(y)
    BY <1>5
  <2>2. ~Contains(y, "\\")
    BY <2>1 DEF Contains
  <2>3. QED
    BY <1>1, <1>3, <1>4, <2>2, FileNameSegments
<1>7. ArchiveName(y) = y
  BY <1>3, <1>4, <1>6, PlainArchiveName
<1>8. Slashed(y) = y /\ Head(y) = y[1]
  <2>1. Slashed(y) = y
    BY <1>4, <1>6, SlashedFacts
  <2>2. QED
    BY <1>4, <1>6, <2>1
<1>9. ~Unsafe(y)
  BY <1>6, <1>7, <1>8 DEF Unsafe, Relative, y
<1>10. QED
  BY <1>3, <1>4, <1>6, <1>7, <1>9 DEF y

-------------------------------------------------------------------------------
(* The byte order.  A name is less than another if, at the first place where   *)
(* they differ, it has ended or has the smaller character.                   *)

Code(c) == CHOOSE n \in DOMAIN Character : Character[n] = c

LEMMA CodeType ==
    ASSUME NEW c \in Range(Character)
    PROVE  Code(c) \in Nat /\ Character[Code(c)] = c
<1>1. DOMAIN Character \subseteq Nat
  BY DEF Character
<1>2. \E n \in DOMAIN Character : Character[n] = c
  BY DEF Range
<1>3. QED
  BY <1>1, <1>2 DEF Code

LessAt(x, y, i) ==
    /\ i <= Len(y) /\ \A j \in 1..(i - 1) : x[j] = y[j]
    /\ i = Len(x) + 1 \/ (i <= Len(x) /\ Code(x[i]) < Code(y[i]))

LEMMA NameLessMeans ==
    ASSUME NEW x \in Seq(Range(Character)), NEW y \in Seq(Range(Character))
    PROVE  NameLess(x, y) <=> \E i \in 1..(Len(x) + 1) : LessAt(x, y, i)
<1> DEFINE C == Range(Character)
<1>1. x \in Seq(C) /\ y \in Seq(C) /\ Len(x) \in Nat /\ Len(y) \in Nat
  OBVIOUS
<1>2. NameLess(x, y) <=>
          \/ IsStrictPrefix(x, y)
          \/ \E i \in DOMAIN x \cap DOMAIN y :
                SubSeq(x, 1, i - 1) = SubSeq(y, 1, i - 1) /\ Code(x[i]) < Code(y[i])
  BY DEF NameLess, Code
<1> HIDE DEF C
<1>3. IsStrictPrefix(x, y) <=> LessAt(x, y, Len(x) + 1)
  <2>1. IsPrefix(x, y) <=> Len(x) <= Len(y) /\ \A j \in 1..Len(x) : x[j] = y[j]
    BY <1>1 DEF IsPrefix
  <2>2. ASSUME Len(x) <= Len(y), \A j \in 1..Len(x) : x[j] = y[j]
        PROVE  x # y <=> Len(x) + 1 <= Len(y)
    <3>1. Len(x) = Len(y) => x = y
      BY <1>1, <2>2, SeqEqual
    <3>2. QED
      BY <1>1, <2>2, <3>1
  <2>3. LessAt(x, y, Len(x) + 1) <=> Len(x) + 1 <= Len(y) /\ \A j \in 1..Len(x) : x[j] = y[j]
    <3>1. Len(x) + 1 - 1 = Len(x)
      BY <1>1
    <3>2. QED
      BY <3>1 DEF LessAt
  <2>4. Len(x) + 1 <= Len(y) => Len(x) <= Len(y)
    BY <1>1
  <2>5. IsStrictPrefix(x, y) <=> IsPrefix(x, y) /\ x # y
    BY DEF IsStrictPrefix
  <2>6. QED
    BY <2>1, <2>2, <2>3, <2>4, <2>5
<1>4. ASSUME NEW i \in DOMAIN x \cap DOMAIN y
      PROVE  SubSeq(x, 1, i - 1) = SubSeq(y, 1, i - 1) <=> \A j \in 1..(i - 1) : x[j] = y[j]
  <2>1. i \in 1..Len(x) /\ i \in 1..Len(y)
    BY <1>1
  <2>2. /\ SubSeq(x, 1, i - 1) = [j \in 1..(i - 1) |-> x[j]]
        /\ SubSeq(y, 1, i - 1) = [j \in 1..(i - 1) |-> y[j]]
    BY <1>1, <2>1
  <2>3. QED
    BY <2>2
<1>5. \A i \in DOMAIN x \cap DOMAIN y :
          LessAt(x, y, i) <=> SubSeq(x, 1, i - 1) = SubSeq(y, 1, i - 1) /\ Code(x[i]) < Code(y[i])
  <2>1. \A i \in DOMAIN x \cap DOMAIN y : i <= Len(x) /\ i <= Len(y) /\ i # Len(x) + 1
    BY <1>1
  <2>2. QED
    BY <1>4, <2>1 DEF LessAt
<1>6. ASSUME NEW i \in 1..(Len(x) + 1), LessAt(x, y, i)
      PROVE  i = Len(x) + 1 \/ i \in DOMAIN x \cap DOMAIN y
  BY <1>1, <1>6 DEF LessAt
<1>7. \A i \in DOMAIN x \cap DOMAIN y : i \in 1..(Len(x) + 1)
  BY <1>1
<1>8. Len(x) + 1 \in 1..(Len(x) + 1)
  BY <1>1
<1>9. QED
  BY <1>2, <1>3, <1>5, <1>6, <1>7, <1>8

LEMMA NameLessTransitive ==
    ASSUME NEW x \in Seq(Range(Character)), NEW y \in Seq(Range(Character)),
           NEW z \in Seq(Range(Character)), NameLess(x, y), NameLess(y, z)
    PROVE  NameLess(x, z)
<1> DEFINE C == Range(Character)
<1>1. /\ x \in Seq(C) /\ y \in Seq(C) /\ z \in Seq(C)
      /\ Len(x) \in Nat /\ Len(y) \in Nat /\ Len(z) \in Nat
  OBVIOUS
<1>2. PICK i \in 1..(Len(x) + 1) : LessAt(x, y, i)
  BY NameLessMeans
<1>3. PICK j \in 1..(Len(y) + 1) : LessAt(y, z, j)
  BY NameLessMeans
<1>4. \A c \in C : Code(c) \in Nat
  BY CodeType
<1> HIDE DEF C
<1>5. \E k \in 1..(Len(x) + 1) : LessAt(x, z, k)
  <2>1. CASE i < j
    <3>1. y[i] = z[i] /\ i <= Len(z) /\ \A l \in 1..(i - 1) : x[l] = z[l]
      BY <1>1, <1>2, <1>3, <2>1 DEF LessAt
    <3>2. QED
      BY <1>2, <3>1 DEF LessAt
  <2>2. CASE j < i
    <3>1. /\ j \in 1..(Len(x) + 1) /\ j <= Len(x) /\ j # Len(y) + 1 /\ x[j] = y[j]
          /\ \A l \in 1..(j - 1) : x[l] = z[l]
      BY <1>1, <1>2, <1>3, <2>2 DEF LessAt
    <3>2. QED
      BY <1>3, <3>1 DEF LessAt
  <2>3. CASE i = j
    <3>1. i <= Len(y) /\ i <= Len(z) /\ \A l \in 1..(i - 1) : x[l] = z[l]
      BY <1>1, <1>2, <1>3, <2>3 DEF LessAt
    <3>2. Code(y[i]) < Code(z[i])
      BY <1>1, <1>3, <2>3, <3>1 DEF LessAt
    <3>3. i <= Len(x) => Code(x[i]) < Code(z[i])
      <4>1. SUFFICES ASSUME i <= Len(x) PROVE Code(x[i]) < Code(z[i])
        OBVIOUS
      <4>2. Code(x[i]) < Code(y[i])
        BY <1>1, <1>2, <4>1 DEF LessAt
      <4>3. x[i] \in C /\ y[i] \in C /\ z[i] \in C
        <5>1. i \in 1..Len(x) /\ i \in 1..Len(y) /\ i \in 1..Len(z)
          BY <1>1, <3>1, <4>1
        <5>2. QED
          BY <1>1, <5>1, ElementOfSeq
      <4>4. Code(x[i]) \in Nat /\ Code(y[i]) \in Nat /\ Code(z[i]) \in Nat
        BY <1>4, <4>3
      <4>5. QED
        BY <3>2, <4>2, <4>4
    <3>4. i = Len(x) + 1 \/ i <= Len(x)
      BY <1>1
    <3>5. LessAt(x, z, i)
      BY <3>1, <3>3, <3>4 DEF LessAt
    <3>6. QED
      BY <3>5
  <2>4. QED
    BY <1>1, <2>1, <2>2, <2>3
<1>6. QED
  BY <1>5, NameLessMeans

LEMMA NameLessIrreflexive ==
    ASSUME NEW x \in Seq(Range(Character))
    PROVE  ~NameLess(x, x)
<1>1. ASSUME NEW i \in 1..(Len(x) + 1), LessAt(x, x, i) PROVE FALSE
  <2>1. i <= Len(x) /\ Code(x[i]) < Code(x[i])
    BY <1>1 DEF LessAt
  <2>2. Code(x[i]) \in Nat
    BY <2>1, CodeType
  <2>3. QED
    BY <2>1, <2>2
<1>2. QED
  BY <1>1, NameLessMeans

LEMMA NameLessTotal ==
    ASSUME NEW x \in Seq(Range(Character)), NEW y \in Seq(Range(Character)), x # y
    PROVE  NameLess(x, y) \/ NameLess(y, x)
<1> DEFINE C == Range(Character)
           T == {i \in Nat \ {0} : i > Len(x) \/ i > Len(y) \/ x[i] # y[i]}
<1>1. /\ x \in Seq(C) /\ y \in Seq(C) /\ Len(x) \in Nat /\ Len(y) \in Nat
  OBVIOUS
<1>2. PICK i \in T : \A m \in T : i <= m
  <2>1. Len(x) + 1 \in T /\ T \in SUBSET Nat
    BY <1>1
  <2> HIDE DEF T
  <2>2. QED
    BY <2>1, Least
<1>3. i \in Nat \ {0} /\ \A j \in 1..(i - 1) : j <= Len(x) /\ j <= Len(y) /\ x[j] = y[j]
  <2>1. i \in Nat \ {0}
    OBVIOUS
  <2>2. ASSUME NEW j \in 1..(i - 1) PROVE j <= Len(x) /\ j <= Len(y) /\ x[j] = y[j]
    <3>1. j \in Nat \ {0} /\ ~(i <= j)
      BY <2>1
    <3>2. j \notin T
      BY <1>2, <3>1
    <3>3. QED
      BY <1>1, <3>1, <3>2
  <2>3. QED
    BY <2>1, <2>2
<1>4. i <= Len(x) + 1 /\ i <= Len(y) + 1
  BY <1>1, <1>3
<1>5. i > Len(x) \/ i > Len(y) \/ x[i] # y[i]
  BY <1>2
<1> HIDE DEF C, T
<1>6. ~(i > Len(x) /\ i > Len(y))
  <2>1. SUFFICES ASSUME i > Len(x), i > Len(y) PROVE FALSE
    OBVIOUS
  <2>2. Len(x) = i - 1 /\ Len(y) = i - 1
    BY <1>1, <1>3, <1>4, <2>1
  <2>3. x = y
    BY <1>1, <1>3, <2>2, SeqEqual
  <2>4. QED
    BY <2>3
<1>7. LessAt(x, y, i) \/ LessAt(y, x, i)
  <2>1. CASE i > Len(x)
    <3>1. i = Len(x) + 1 /\ i <= Len(y)
      BY <1>1, <1>3, <1>4, <1>6, <2>1
    <3>2. LessAt(x, y, i)
      BY <1>3, <3>1 DEF LessAt
    <3>3. QED
      BY <3>2
  <2>2. CASE i > Len(y)
    <3>1. i = Len(y) + 1 /\ i <= Len(x)
      BY <1>1, <1>3, <1>4, <1>6, <2>2
    <3>2. LessAt(y, x, i)
      BY <1>3, <3>1 DEF LessAt
    <3>3. QED
      BY <3>2
  <2>3. CASE i <= Len(x) /\ i <= Len(y)
    <3>1. x[i] # y[i] /\ x[i] \in C /\ y[i] \in C
      BY <1>1, <1>3, <1>5, <2>3
    <3>2. /\ Code(x[i]) \in Nat /\ Code(y[i]) \in Nat
          /\ Character[Code(x[i])] = x[i] /\ Character[Code(y[i])] = y[i]
      BY <3>1, CodeType DEF C
    <3>3. Code(x[i]) < Code(y[i]) \/ Code(y[i]) < Code(x[i])
      BY <3>1, <3>2
    <3>4. QED
      BY <1>3, <2>3, <3>3 DEF LessAt
  <2>4. QED
    BY <1>1, <1>3, <2>1, <2>2, <2>3
<1>8. i \in 1..(Len(x) + 1) /\ i \in 1..(Len(y) + 1)
  BY <1>1, <1>3, <1>4
<1>9. QED
  BY <1>7, <1>8, NameLessMeans

===============================================================================
