------------------------------ MODULE MCRoundTrip -----------------------------
(***************************************************************************)
(* Small instances of RoundTrip: sources with two files of every kind of   *)
(* name, and a plain source whose snapshot decays and is unpacked with     *)
(* other passphrases and configurations.                                   *)
(***************************************************************************)
EXTENDS RoundTrip

CONSTANTS d1, d2, d3, m1, m2, pw1, pw2

F(d, m) == [data |-> d, mode |-> m]

OddNames == {
    <<"e">>, <<".", "e">>, <<".", ".", "e">>, <<".", ".", ".">>,
    <<"a", "\\", "e">>, <<"\\", "e">>, <<"e", "\\">>, <<"a", "\\", "\\", "e">>,
    <<".", "\\", "e">>, <<".", ".", "\\", "e">>, <<"a", "\\", ".", ".", "\\", "e">>,
    <<"e", "\\", "a">>, <<"e", "\\", "*">>, <<"e", "\\", "\\">>, <<"\\">>, <<"a", ".", "e">>}
Folder == <<"a">>
Inner == <<"a", "/", "e">>
MCPlace == OddNames \cup {Folder, Inner}

Tree(first, second, inner) ==
    [x \in MCPlace \cup {Root} |->
        CASE x \in {Root, Folder} -> Directory
          [] x = first -> F(d1, m1)
          [] x = second /\ x # first -> F(d2, m2)
          [] x = Inner /\ inner -> F(d2, m1)
          [] OTHER -> Missing]

\* The input of n unpacks, with v visits of another program.
In(t, b, h, o, n, v) ==
    [tree |-> t, include |-> {<<"*", "*">>}, exclude |-> {}, edits |-> 0,
     block |-> b, hostile |-> h, runs |-> n, out |-> o, visits |-> v]

P(m, t, n) == [memory |-> m, time |-> t, threads |-> n]
MCDefault == P(19, 2, 1)
SomeParams == {Unset, P(16, 1, 2), P(8, 1, 1), P(8, 1, 2), P(8, 0, 1), P(8, 1, 0), P(0, 2, 1)}
MCDecayed == SomeParams \cup {P(99, 1, 1)}
B(p) == [params |-> p, misspelt |-> FALSE]
MCBlocks == {B(p) : p \in SomeParams} \cup {[params |-> Unset, misspelt |-> TRUE]}

Empty == [x \in {} |-> Missing]
Plain == Tree(<<"e">>, <<"e">>, TRUE)
Occupied == {(<<"e">> :> F(d3, m1)), (<<"a">> :> F(d3, m1)), (<<"e">> :> Directory)}

MCShared == {<<"e">>, <<"a">>, Inner}
MCAppearing == {F(d3, m1), Directory}

MCInputs ==
    {In(Tree(x, y, FALSE), B(Unset), FALSE, Empty, 1, 0) : x, y \in OddNames}
    \cup {In(Tree(x, x, TRUE), B(Unset), FALSE, Empty, 2, 0) : x \in OddNames}
    \cup {In(Plain, B(Unset), FALSE, o, 3, 0) : o \in Occupied}
    \cup {In(Plain, B(Unset), FALSE, Empty, 2, 2)}
    \cup {In(Plain, b, TRUE, Empty, 2, 0) : b \in MCBlocks}

===============================================================================
