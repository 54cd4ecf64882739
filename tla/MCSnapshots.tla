------------------------------ MODULE MCSnapshots -----------------------------
(***************************************************************************)
(* A small instance of Snapshots: two packs and one reader of project "p", *)
(* in a bucket that already holds an old snapshot of "p", one of the       *)
(* nested project "p/q", a directory placeholder and one of the sibling    *)
(* "pq".                                                                   *)
(***************************************************************************)
EXTENDS Snapshots, TLC

CONSTANTS p1, p2, u1, old, nested, folder, sibling

\* Letters sort after digits, as in ASCII.
LetterP == 8
LetterQ == 9
ProjectP == <<LetterP>>
ProjectPQ == <<LetterP, LetterQ>>

MCName == [c \in Client |-> ProjectP]
MCPayload == [c \in Client |-> c]
MCBody == Client \cup {old, nested, folder, sibling}

\* p2's clock is one second behind the store's, so that its key sorts before
\* those of snapshots packed earlier.
MCSkew == [p \in Packs |-> IF p = p2 THEN -1 ELSE 0]
DistinctRand4 == [p \in Packs |-> IF p = p2 THEN {2} ELSE {1}]

OldKey == KeyForName(ProjectP, 0, 1)
FolderKey == Append(ProjectP, Slash)
SiblingKey == KeyForName(ProjectPQ, 1, 1)
NestedKey == KeyForName(<<LetterP, Slash, LetterQ>>, 0, 1)
PackKeys == {KeyForName(ProjectP, t, r) : t \in 0..MaxTime, r \in 1..2}
MCKey == PackKeys \cup {OldKey, NestedKey, FolderKey, SiblingKey}

MCPreexisting ==
    [k \in MCKey |->
        CASE k = OldKey -> [body |-> old, mtime |-> 0]
          [] k = NestedKey -> [body |-> nested, mtime |-> 0]
          [] k = FolderKey -> [body |-> folder, mtime |-> 1]
          [] k = SiblingKey -> [body |-> sibling, mtime |-> 1]
          [] OTHER -> Absent]

\* What the retention rule may delete: the old snapshot and what p1 packs at
\* once, or nothing.
SomeKeys == {OldKey, KeyForName(ProjectP, 1, 1)}
NoKeys == {}

Flaky == {"Unknown"}
Hostile == {"Unknown", "PermissionDenied", "OpenFailed"}
Honest == {"PermissionDenied", "OpenFailed"}
SteadyForAll == [c \in Client |-> {}]
HostileForP1 == [c \in Client |-> IF c = p1 THEN Hostile ELSE Flaky]
FlakyForU1 == [c \in Client |-> IF c = u1 THEN Flaky ELSE {}]
\* Only packs are answered with transient errors.
HostileForPacks == [c \in Client |-> IF c \in Packs THEN Hostile ELSE Honest]

Newest == [by |-> "newest"]
SelectNewestOrAt == [u \in Readers |-> {Newest, [by |-> "at", time |-> 1]}]
SelectAny ==
    [u \in Readers |-> {Newest, [by |-> "list"], [by |-> "key", key |-> SiblingKey]}]

===============================================================================
