--------------------------------- MODULE Names --------------------------------
(***************************************************************************)
(* File names, and what internal/archive does to them: the name a file is  *)
(* given in an archive (sanitizeArchivePath), and the test of the place it *)
(* is extracted to (pathIsContained).                                      *)
(*                                                                         *)
(* A name is a sequence of characters, as both turn on single ones.        *)
(***************************************************************************)
EXTENDS Naturals, Sequences, SequencesExt

\* The characters names and patterns are made of here, in byte order.
Character == <<"*", ".", "/", "[", "\\", "]", "a", "b", "e">>

Dot == <<".">>
DotDot == <<".", ".">>

\* The byte order of strings.
NameLess(x, y) ==
    LET code(c) == CHOOSE n \in DOMAIN Character : Character[n] = c IN
    \/ IsStrictPrefix(x, y)
    \/ \E i \in DOMAIN x \cap DOMAIN y :
          /\ SubSeq(x, 1, i - 1) = SubSeq(y, 1, i - 1)
          /\ code(x[i]) < code(y[i])

Segments(x) ==
    FoldLeft(LAMBDA segs, c :
                 IF c = "/" THEN Append(segs, <<>>)
                            ELSE [segs EXCEPT ![Len(segs)] = Append(@, c)],
             << <<>> >>, x)

Joined(segs) ==
    FoldLeft(LAMBDA x, seg : IF x = <<>> THEN seg ELSE x \o <<"/">> \o seg, <<>>, segs)

Ancestors(x) ==
    LET segs == Segments(x) IN {Joined(SubSeq(segs, 1, n)) : n \in 1..(Len(segs) - 1)}

\* The directory of a relative name; <<>> is the directory the name is relative to.
Parent(x) == Joined(Front(Segments(x)))

\* What the operating system calls a file: every segment names an entry of a
\* directory.
IsFileName(x) == \A i \in DOMAIN Segments(x) : Segments(x)[i] \notin {<<>>, Dot, DotDot}

Under(x, y) == x # y /\ (y = <<>> \/ IsPrefix(Append(y, "/"), x))

-------------------------------------------------------------------------------
(* path.Clean, on a relative name that is not empty.                        *)

Clean(x) ==
    LET step(segs, seg) ==
          CASE seg \in {<<>>, Dot} -> segs
            [] seg = DotDot /\ segs # <<>> /\ Last(segs) # DotDot -> Front(segs)
            [] OTHER -> Append(segs, seg)
        cleaned == Joined(FoldLeft(step, <<>>, Segments(x)))
    IN IF cleaned = <<>> THEN Dot ELSE cleaned

-------------------------------------------------------------------------------
(* sanitizeArchivePath: the name in the archive, unless it is refused.       *)

Slashed(x) == ReplaceAll(x, "\\", "/")

ArchiveName(x) == Clean(Slashed(x))

Unsafe(x) ==
    \/ x = <<>>
    \/ Head(Slashed(x)) = "/"
    \/ ArchiveName(x) \in {Dot, DotDot}
    \/ IsPrefix(Append(DotDot, "/"), ArchiveName(x))
    \/ Contains(Segments(ArchiveName(x)), DotDot)

\* Mutant: hidden files are taken for a way out.
ContainedIfVisible(x) == x = Dot \/ ~IsPrefix(Dot, x)

\* pathIsContained, for the place that a clean name has in the output directory:
\* filepath.Rel gives the name back.
Contained(x) == x = Dot \/ ~IsPrefix(DotDot, x)

===============================================================================
