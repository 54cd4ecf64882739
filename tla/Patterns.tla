------------------------------- MODULE Patterns -------------------------------
(***************************************************************************)
(* The globs of internal/scan: compileAll, expandDoubleStar and            *)
(* doubleStarDirs over an external matcher (github.com/gobwas/glob with    *)
(* "/" as separator), and what the documents say a pattern means.          *)
(*                                                                         *)
(* A pattern is a sequence of characters, without white space around it;   *)
(* the empty one stands for a blank line.  Alternatives ({a,b}), ranges,   *)
(* negated classes and "?" are left out.                                   *)
(***************************************************************************)
EXTENDS Names, FiniteSets

CONSTANT MaxDoubleStarDirs   \* maxDoubleStarDirs

ASSUME PatternAssumption == MaxDoubleStarDirs \in Nat

-------------------------------------------------------------------------------
(* The matcher.  A pattern is a sequence of units, each of which matches a    *)
(* part of the name.                                                        *)

One(set) == [kind |-> "one", of |-> set]        \* one character of the set
Star == [kind |-> "star", of |-> {}]            \* any characters but "/"
Super == [kind |-> "super", of |-> {}]          \* any characters
Directories == [kind |-> "directories", of |-> {}]  \* zero or more directories
Bad == [kind |-> "bad", of |-> {}]              \* a syntax error

\* A whole "**/" segment begins at i.
StarsAt(p, i) == i + 2 <= Len(p) /\ SubSeq(p, i, i + 2) = <<"*", "*", "/">>
DoubleStarDir(p, i) == StarsAt(p, i) /\ (i = 1 \/ p[i - 1] = "/")

\* Classes(p)[i]: what a class of which p[i] is the next character still has in it,
\* and where its "]" is.
Classes(p) ==
    LET class[i \in 1..(Len(p) + 2)] ==
          CASE i > Len(p) -> [end |-> i, of |-> {}]
            [] i <= Len(p) /\ p[i] = "]" -> [end |-> i, of |-> {}]
            [] i < Len(p) /\ p[i] = "\\" -> [class[i + 2] EXCEPT !.of = @ \cup {p[i + 1]}]
            [] OTHER -> [class[i + 1] EXCEPT !.of = @ \cup {p[i]}]
    IN class

\* UnitsFrom(p, withDirectories)[i]: the units of p from i on; the matcher knows no
\* Directories.
UnitsFrom(p, withDirectories) ==
    LET class == Classes(p)
        from[i \in 1..(Len(p) + 3)] ==
          IF i > Len(p) THEN <<>>
          ELSE CASE p[i] = "\\" -> IF i = Len(p) THEN <<Bad>> ELSE <<One({p[i + 1]})>> \o from[i + 2]
                 [] p[i] = "[" ->
                      IF class[i + 1].end > Len(p) \/ class[i + 1].of = {} THEN <<Bad>>
                      ELSE <<One(class[i + 1].of)>> \o from[class[i + 1].end + 1]
                 [] withDirectories /\ DoubleStarDir(p, i) -> <<Directories>> \o from[i + 3]
                 [] p[i] = "*" /\ ~(withDirectories /\ DoubleStarDir(p, i)) ->
                      IF i < Len(p) /\ p[i + 1] = "*" THEN <<Super>> \o from[i + 2]
                                                     ELSE <<Star>> \o from[i + 1]
                 [] OTHER -> <<One({p[i]})>> \o from[i + 1]
    IN from

Units(p, withDirectories) == UnitsFrom(p, withDirectories)[1]

\* Where in x a match of the unit can end that begins at one of the positions.
After(unit, x, positions) ==
    {k \in 1..(Len(x) + 1) : \E j \in positions :
        CASE unit.kind = "one" -> k = j + 1 /\ x[j] \in unit.of
          [] unit.kind = "star" -> k >= j /\ ~Contains(SubSeq(x, j, k - 1), "/")
          [] unit.kind = "super" -> k >= j
          [] unit.kind = "directories" -> k = j \/ (k > j /\ x[k - 1] = "/")
          [] OTHER -> FALSE}

MatchesUnits(units, x) ==
    Len(x) + 1 \in FoldLeft(LAMBDA positions, unit : After(unit, x, positions), {1}, units)

\* glob.Compile and Match.
Malformed(p) == Contains(Units(p, FALSE), Bad)
Matches(p, x) == MatchesUnits(Units(p, FALSE), x)

\* README.md:509-514: a whole "**/" segment matches zero or more directories.
Means(p, x) == MatchesUnits(Units(p, TRUE), x)

-------------------------------------------------------------------------------
(* doubleStarDirs and expandDoubleStar.                                     *)

\* Mutant: any "**/" counts, also the end of "a**/".
DoubleStarDirsAnywhere(p) == {i \in DOMAIN p : StarsAt(p, i)}

\* DirsFrom(p)[i][inClass]: where p has a whole "**/" segment from i on, outside of
\* escapes and classes.
DirsFrom(p) ==
    LET from[i \in 1..(Len(p) + 3)] == [inClass \in BOOLEAN |->
          IF i > Len(p) THEN {}
          ELSE CASE p[i] = "\\" -> from[i + 2][inClass]
                 [] inClass /\ p[i] # "\\" -> from[i + 1][p[i] # "]"]
                 [] ~inClass /\ p[i] = "[" -> from[i + 1][TRUE]
                 [] ~inClass /\ DoubleStarDir(p, i) -> {i} \cup from[i + 3][FALSE]
                 [] OTHER -> from[i + 1][inClass]]
    IN from

DoubleStarDirs(p) == DirsFrom(p)[1][FALSE]

\* CutFrom(p, cuts)[i]: p from i on, without the "**/" that begin at the given
\* places.
CutFrom(p, cuts) ==
    LET from[i \in 1..(Len(p) + 3)] ==
          IF i > Len(p) THEN <<>>
          ELSE IF i \in cuts THEN from[i + 3] ELSE <<p[i]>> \o from[i + 1]
    IN from

Cut(p, cuts) == CutFrom(p, cuts)[1]

\* Mutant: the segments are cut out one by one, never two of them.
ExpandedOnce(p) ==
    ({p} \cup {Cut(p, {c}) : c \in DoubleStarDirs(p)}) \ {<<>>}

\* p, and every variant with some of the segments removed.
Expanded(p) == {Cut(p, cuts) : cuts \in SUBSET DoubleStarDirs(p)} \ {<<>>}

\* compileAll fails.
Invalid(p) ==
    /\ p # <<>>
    /\ \/ Cardinality(DoubleStarDirs(p)) > MaxDoubleStarDirs
       \/ \E v \in Expanded(p) : Malformed(v)

\* matchAny, over the globs that compileAll made of the patterns.
MatchAny(patterns, x) == \E p \in patterns : \E v \in Expanded(p) : Matches(v, x)

===============================================================================
