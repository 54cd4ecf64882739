------------------------------- MODULE MCGather -------------------------------
(***************************************************************************)
(* Small instances of Gather: one source directory that stands still and   *)
(* many patterns, and the same directory with few patterns while another   *)
(* program changes it.                                                     *)
(***************************************************************************)
EXTENDS Gather

CONSTANTS old, new, outside, m1, m2

F(d, m) == [data |-> d, mode |-> m]
Old == F(old, m1)

\* A directory with a file and a directory in it, files beside it whose names
\* begin alike, a file named "*" and one with a
\* backslash, a link and a device.
MCTree ==
    [x \in {Root, <<"a">>, <<"a", "/", "a">>} |-> Directory]
    @@ [x \in {<<"a", "/", "b">>, <<"a", "/", "a", "/", "b">>, <<"b">>, <<"*">>} |-> Old]
    @@ (<<"a", "\\", "b">> :> Old)
    @@ (<<"a", ".", "b">> :> F(old, m2))
    @@ (<<"e">> :> [to |-> F(outside, m1)])
    @@ (<<"e", "b">> :> Special)
MCPlace == DOMAIN MCTree \ {Root}

ShortPatterns == UNION {[1..n -> {"*", "/", "\\", "[", "]", "b"}] : n \in 0..5}

Dirs == <<"*", "*", "/">>
LongPatterns == {
    Dirs \o Dirs \o <<"b">>,
    <<"a", "/">> \o Dirs \o Dirs \o <<"b">>,
    <<"a", "/">> \o Dirs \o <<"b">>,
    Dirs \o <<"a", "/">> \o Dirs \o <<"b">>,
    Dirs \o <<"[", "*", "b", "]">>,
    <<"a", "[", "/", "]">> \o Dirs \o <<"b">>,
    <<"[">> \o Dirs \o <<"]", "b">>,
    <<"\\">> \o Dirs \o <<"b">>,
    <<"a">> \o Dirs \o <<"b">>,
    Dirs \o <<"*", "b">>,
    Dirs \o Dirs \o Dirs \o <<"b">>}

Everything == <<"*", "*">>

In(i, e, n) == [tree |-> MCTree, include |-> i, exclude |-> e, edits |-> n]

MCInputs ==
    {In({p}, {}, 0) : p \in ShortPatterns \cup LongPatterns}
    \cup {In({Everything}, {p}, 0) : p \in LongPatterns}
    \cup {In({Everything}, {<<"\\", "*">>}, 2)}

MCEditable == {<<"a">>, <<"a", "/", "b">>, <<"b">>, <<"a", "/", "a">>}
MCEdited == {F(new, m2), [to |-> F(outside, m1)], [to |-> Directory], Missing, Directory}

===============================================================================
