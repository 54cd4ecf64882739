----------------------------- MODULE CommandsProofs ----------------------------
(***************************************************************************)
(* What is sealed was typed twice, and no secret outlives the command.     *)
(*                                                                         *)
(* The inductive invariant is Inv.  Its half about Prompter.Get (GetInv)   *)
(* is shown for the steps of src.Get in OwnStepKept and AnswerKept; the    *)
(* steps of the command either succeed (ProceededKept) or end it           *)
(* (EndedKept).                                                            *)
(***************************************************************************)
EXTENDS Commands, TLAPS

Inv == TypeOK /\ SecretInv /\ SecretsWiped

\* The positions in Plan that the invariant speaks of.
LEMMA PlanPositions ==
    ASSUME TypeOK
    PROVE  /\ step \in Nat
           /\ InCall("source") => step = 5 /\ command # "list"
           /\ InCall("password") => step = 6 /\ command # "list"
           /\ InCall("config") => step = 1
           /\ InCall("scan") => step = 2
           /\ InCall("archive") => step = 3
           /\ InCall("client") => step \in {2, 4}
           /\ InCall("seal") => step = 7
           /\ InCall("put") => step = 8 /\ command = "pack"
           /\ InCall("pick") => step \in {2, 3}
           /\ InCall("get") => step = 4
           /\ InCall("open") => step = 7
           /\ InCall("extract") => step = 8
           /\ exit = Running /\ step = Len(Plan[command]) + 1 => step \in {4, 9}
<1>1. CASE command = "pack"
  <2>1. Len(Plan[command]) = 8 /\ step \in 1..9
    BY <1>1 DEF TypeOK, Plan
  <2>2. QED
    BY <1>1, <2>1 DEF InCall, Plan
<1>2. CASE command = "unpack"
  <2>1. Len(Plan[command]) = 8 /\ step \in 1..9
    BY <1>2 DEF TypeOK, Plan
  <2>2. QED
    BY <1>2, <2>1 DEF InCall, Plan
<1>3. CASE command = "list"
  <2>1. Len(Plan[command]) = 3 /\ step \in 1..4
    BY <1>3 DEF TypeOK, Plan
  <2>2. QED
    BY <1>3, <2>1 DEF InCall, Plan
<1>4. QED
  BY <1>1, <1>2, <1>3 DEF TypeOK

\* The chain has at most three sources, and the flag is asked only if it is there.
LEMMA SourcesType ==
    ASSUME input \in Input
    PROVE  /\ Len(Sources) \in 1..3
           /\ \A i \in 1..Len(Sources) :
                Sources[i] = "flag" => input.given \in Phrase \/ input.source = "flag"
<1>1. CASE input.source # "unset"
  BY <1>1 DEF Sources, Input
<1>2. CASE input.source = "unset" /\ input.given \in Phrase
  <2>1. Sources = <<"flag", "env", "prompt">>
    BY <1>2 DEF Sources
  <2>2. QED
    BY <2>1, <1>2
<1>3. CASE input.source = "unset" /\ input.given \notin Phrase
  <2>1. Sources = <<"env", "prompt">>
    BY <1>3 DEF Sources
  <2>2. QED
    BY <2>1, <1>3
<1>4. QED
  BY <1>1, <1>2, <1>3

LEMMA InitInv == Init => Inv
<1> SUFFICES ASSUME Init PROVE Inv
  OBVIOUS
<1>0. PhraseInit
  BY DEF Init
<1>1. PhraseTypeOK
  <2>1. lines \in Seq(Phrase \cup {Blank}) /\ Len(lines) <= 2
    BY <1>0 DEF PhraseInit
  <2>2. 0 \in 0..Attempts
    BY PhraseAssumption DEF PhraseAssumption
  <2>3. attempt \in 0..Attempts
    BY <1>0, <2>2 DEF PhraseInit
  <2>4. pos \in 1..3 /\ secrets \subseteq Buffer /\ fault \in Fault
    BY <1>0 DEF PhraseInit, Fault
  <2>5. /\ input \in Input /\ stage = "idle"
        /\ first \in Phrase \cup {Nothing} /\ pw \in Phrase \cup {Nothing}
        /\ second \in Phrase \cup {Blank, Nothing}
    BY <1>0 DEF PhraseInit
  <2>6. cancelled \in BOOLEAN
    BY <1>0 DEF PhraseInit
  <2>7. QED
    BY <2>1, <2>3, <2>4, <2>5, <2>6 DEF PhraseTypeOK
<1>2. TypeOK
  <2>1. step \in 1..(Len(Plan[command]) + 1)
    BY DEF Init, Plan
  <2>2. QED
    BY <1>1, <2>1 DEF Init, TypeOK
<1>3. PromptInv
  <2>1. pos = 1 /\ Len(Sources) \in 1..3
    BY <1>0, SourcesType DEF PhraseInit
  <2>2. pos <= Len(Sources)
    BY <2>1
  <2>3. /\ stage = "idle" /\ lines = <<>> /\ secrets = {}
        /\ fault = "none" /\ pw = Nothing
    BY <1>0 DEF PhraseInit
  <2>4. QED
    BY <2>2, <2>3 DEF PromptInv
<1>4. QED
  BY <1>2, <1>3 DEF Init, PhraseInit, Inv, SecretInv, RunInv, SecretsWiped, Running

-------------------------------------------------------------------------------
(* The steps of src.Get.                                                   *)

GetInv == PhraseTypeOK /\ PromptInv

\* What the command may rely on.
Kept ==
    /\ GetInv'
    /\ UNCHANGED <<input, cancelled>>
    /\ stage # "done"
    /\ stage' # "idle"
    /\ secrets' \cap {"plaintext", "writer"} \subseteq secrets

\* A source fails, and what it has read is gone, but for what it had read in part.
Refused(e) ==
    /\ stage \notin {"idle", "done", "compare"}
    /\ Refuse(e)
    /\ e \in Fault \ {"none"}
    /\ e = "empty" => lines = <<>>
    /\ first' \in {first, Nothing}
    /\ secrets' \subseteq
         (secrets \ {"first"}) \cup (IF e \in {"read", "exec"} THEN {"partial"} ELSE {})
    /\ UNCHANGED <<input, attempt, second, lines, cancelled>>

LEMMA RefusedKept ==
    ASSUME GetInv, NEW e, Refused(e)
    PROVE  Kept
<1> USE DEF GetInv
<1>1. pw' = Nothing /\ fault = "none"
  BY DEF Refused, Refuse, PromptInv
<1>2. Len(Sources) \in 1..3 /\ Sources' = Sources
  BY SourcesType DEF PhraseTypeOK, Refused, Sources
<1>3. CASE stage' = "source" /\ pos' = pos + 1 /\ pos < Len(Sources) /\ e = "empty" /\ fault' = fault
  <2>1. PhraseTypeOK'
    <3>0. pos \in 1..3
      BY DEF PhraseTypeOK
    <3>1. pos' \in 1..3
      <4>1. PICK n \in 1..3 : pos < n
        BY <1>2, <1>3
      <4>2. QED
        BY <3>0, <4>1, <1>3
    <3>2. secrets' \subseteq Buffer /\ first' \in Phrase \cup {Nothing}
      BY DEF Refused, PhraseTypeOK, Buffer
    <3>3. QED
      BY <1>1, <1>3, <3>1, <3>2 DEF Refused, PhraseTypeOK
  <2>2. lines' = <<>>
    BY <1>3 DEF Refused
  <2>3. PromptInv'
    BY <1>1, <1>2, <1>3, <2>2 DEF Refused, PromptInv, PhraseTypeOK
  <2>4. QED
    BY <2>1, <2>3, <1>3 DEF Kept, Refused
<1>4. CASE stage' = "done" /\ pos' = pos /\ fault' = e
  <2>1. PhraseTypeOK'
    BY <1>1, <1>4 DEF Refused, PhraseTypeOK, Buffer
  <2>2. PromptInv'
    BY <1>1, <1>2, <1>4 DEF Refused, PromptInv, PhraseTypeOK
  <2>3. QED
    BY <2>1, <2>2, <1>4 DEF Kept, Refused
<1>5. QED
  BY <1>3, <1>4 DEF Refused, Refuse

\* A source that asked nobody has a passphrase.
Answered(phrase) ==
    /\ stage \in {"source", "child"}
    /\ Yield(phrase)
    /\ phrase \in Phrase
    /\ secrets' = secrets \cup {"pw"}
    /\ UNCHANGED <<input, attempt, first, second, lines, cancelled>>

LEMMA AnsweredKept ==
    ASSUME GetInv, NEW phrase, Answered(phrase)
    PROVE  Kept
<1> USE DEF GetInv
<1>1. phrase # Nothing /\ fault' = "none" /\ lines' = <<>>
  BY PhraseAssumption DEF PhraseAssumption, Answered, Yield, PromptInv
<1>2. Sources' = Sources
  BY DEF Answered, Sources
<1>3. PhraseTypeOK'
  BY DEF Answered, Yield, PhraseTypeOK, Buffer
<1>4. PromptInv'
  BY <1>1, <1>2 DEF Answered, Yield, PromptInv
<1>5. QED
  BY <1>3, <1>4 DEF Kept, Answered, Yield

\* The process moves on inside a source, and nothing is known that was not before.
LEMMA MovedKept ==
    ASSUME GetInv, stage \in {"source", "ask"}, stage' \in {"ask", "line", "child"},
           stage' = "child" => lines = <<>>, stage' = "line" => attempt < Attempts,
           UNCHANGED <<input, pos, attempt, first, second, pw, fault, secrets, lines, cancelled>>
    PROVE  Kept
<1> USE DEF GetInv
<1>1. Sources' = Sources
  BY DEF Sources
<1>2. PhraseTypeOK'
  BY DEF PhraseTypeOK
<1>3. PromptInv'
  BY <1>1 DEF PromptInv
<1>4. QED
  BY <1>2, <1>3 DEF Kept

LEMMA TypedLines ==
    ASSUME NEW line \in Phrase \cup {Blank}, PhraseTypeOK, Typed(line)
    PROVE  /\ lines' \in Seq(Phrase \cup {Blank})
           /\ Len(lines') <= 2
           /\ lines' # <<>>
           /\ lines'[Len(lines')] = line
           /\ lines # <<>> => lines' = <<lines[Len(lines)], line>>
<1>1. CASE lines = <<>>
  <2>1. lines' = <<line>>
    BY <1>1 DEF Typed
  <2>2. QED
    BY <1>1, <2>1
<1>2. CASE lines # <<>>
  <2>1. lines' = <<lines[Len(lines)], line>>
    BY <1>2 DEF Typed
  <2>2. lines[Len(lines)] \in Phrase \cup {Blank}
    BY <1>2 DEF PhraseTypeOK
  <2>3. QED
    BY <1>2, <2>1, <2>2
<1>3. QED
  BY <1>1, <1>2

\* What was typed is not accepted.
LEMMA AskAgainKept ==
    ASSUME GetInv, AskAgain, stage \in {"line", "compare"}, UNCHANGED <<input, cancelled>>,
           lines' = lines \/ \E line \in Phrase \cup {Blank} : Typed(line)
    PROVE  Kept
<1> USE DEF GetInv
<1>1. Sources' = Sources
  BY DEF Sources
<1>2. lines' \in Seq(Phrase \cup {Blank}) /\ Len(lines') <= 2
  BY TypedLines DEF PhraseTypeOK
<1>3. attempt' \in 0..Attempts
  <2>1. attempt \in 0..Attempts /\ attempt < Attempts /\ attempt' = attempt + 1
    BY DEF AskAgain, PhraseTypeOK, PromptInv
  <2>2. QED
    BY <2>1, PhraseAssumption DEF PhraseAssumption
<1>4. /\ secrets' = secrets \ {"first", "confirm"} /\ first' = Nothing /\ second' = Nothing
      /\ stage' = "ask" /\ UNCHANGED <<pos, pw, fault>>
  BY DEF AskAgain, Forget, Wipe
<1>5. PhraseTypeOK'
  BY <1>2, <1>3, <1>4 DEF PhraseTypeOK
<1>6. PromptInv'
  BY <1>1, <1>4 DEF PromptInv
<1>7. QED
  BY <1>4, <1>5, <1>6 DEF Kept

\* The prompt has a passphrase.
LEMMA PromptedKept ==
    ASSUME GetInv, NEW phrase \in Phrase, Yield(phrase), stage \in {"line", "compare"},
           UNCHANGED <<input, attempt, cancelled>>,
           first' = Nothing \/ first' = first, second' = Nothing \/ second' = second,
           lines' \in Seq(Phrase \cup {Blank}), Len(lines') <= 2,
           input.confirm => lines' = <<phrase, phrase>>,
           secrets' = (secrets \ {"first", "confirm"}) \cup {"pw"}
    PROVE  Kept
<1> USE DEF GetInv
<1>1. Sources' = Sources /\ phrase # Nothing /\ fault' = "none"
  BY PhraseAssumption DEF Sources, PhraseAssumption, Yield, PromptInv
<1>2. PhraseTypeOK'
  BY <1>1 DEF Yield, PhraseTypeOK, Buffer
<1>3. PromptInv'
  BY <1>1 DEF Yield, PromptInv
<1>4. QED
  BY <1>2, <1>3 DEF Kept, Yield

\* The passphrase is typed once, and will have to be typed again.
LEMMA ConfirmKept ==
    ASSUME GetInv, NEW line \in Phrase, Typed(line), stage = "line", stage' = "confirm",
           input.confirm, first' = line, secrets' = secrets \cup {"first"},
           UNCHANGED <<input, pos, attempt, second, pw, fault, cancelled>>
    PROVE  Kept
<1> USE DEF GetInv
<1>1. Sources' = Sources
  BY DEF Sources
<1>2. /\ lines' \in Seq(Phrase \cup {Blank}) /\ Len(lines') <= 2
      /\ lines' # <<>> /\ lines'[Len(lines')] = line
  BY TypedLines
<1>3. PhraseTypeOK'
  BY <1>2 DEF PhraseTypeOK, Buffer
<1>4. PromptInv'
  BY <1>1, <1>2 DEF PromptInv
<1>5. QED
  BY <1>3, <1>4 DEF Kept

\* It is typed again, rightly or not.
LEMMA ReadConfirmKept ==
    ASSUME GetInv, ReadConfirm
    PROVE  Kept
<1> USE DEF GetInv
<1>1. PICK line \in Phrase \cup {Blank} :
        /\ Typed(line)
        /\ second' = line
        /\ secrets' = IF line = Blank THEN secrets ELSE secrets \cup {"confirm"}
  BY DEF ReadConfirm
<1>2. /\ stage = "confirm" /\ stage' = "compare"
      /\ UNCHANGED <<input, pos, attempt, first, pw, fault, cancelled>>
  BY DEF ReadConfirm, At
<1>3. Sources' = Sources
  BY <1>2 DEF Sources
<1>4. lines' \in Seq(Phrase \cup {Blank}) /\ Len(lines') <= 2
  BY <1>1, TypedLines
<1>5. lines' = <<first, second'>>
  <2>1. lines # <<>> /\ lines[Len(lines)] = first
    BY <1>2 DEF PromptInv
  <2>2. QED
    BY <1>1, <2>1, TypedLines
<1>6. PhraseTypeOK'
  BY <1>1, <1>2, <1>4 DEF PhraseTypeOK, Buffer
<1>7. PromptInv'
  BY <1>1, <1>2, <1>3, <1>5 DEF PromptInv
<1>8. QED
  BY <1>1, <1>2, <1>6, <1>7 DEF Kept

\* The two lines are compared.
LEMMA CompareKept ==
    ASSUME GetInv, Compare
    PROVE  Kept
<1> USE DEF GetInv
<1>1. /\ stage = "compare" /\ first \in Phrase /\ lines = <<first, second>>
      /\ UNCHANGED <<input, lines, cancelled>>
  BY DEF Compare, At, PromptInv
<1>2. CASE AskAgain
  BY <1>1, <1>2, AskAgainKept
<1>3. CASE /\ second = first /\ Yield(first) /\ first' = Nothing /\ second' = Nothing
           /\ secrets' = Wipe \cup {"pw"} /\ UNCHANGED attempt
  <2>1. lines' \in Seq(Phrase \cup {Blank}) /\ Len(lines') <= 2
    BY <1>1 DEF PhraseTypeOK
  <2>2. lines' = <<first, first>>
    BY <1>1, <1>3
  <2>3. QED
    BY <1>1, <1>3, <2>1, <2>2, PromptedKept DEF Wipe
<1>4. QED
  BY <1>2, <1>3 DEF Compare, Matches

LEMMA OwnStepKept ==
    ASSUME GetInv, stage # "idle", ~SourceMissing, OwnStep
    PROVE  Kept
<1> USE DEF GetInv
<1>0. stage = "source" => lines = <<>> /\ "first" \notin secrets
  BY DEF PromptInv
<1>1. CASE GetFlag
  <2>1. pos \in 1..Len(Sources)
    BY SourcesType DEF PhraseTypeOK, PromptInv
  <2>2. input.given \in Phrase
    BY <1>1, <2>1, SourcesType DEF GetFlag, Consulting, SourceMissing, PhraseTypeOK
  <2>3. Answered(input.given)
    BY <1>1, <2>2 DEF GetFlag, Consulting, At, Answered
  <2>4. QED
    BY <2>3, AnsweredKept
<1>2. CASE GetEnv
  <2>1. CASE input.env \in Phrase
    <3>1. Answered(input.env)
      BY <1>2, <2>1 DEF GetEnv, Consulting, At, Answered
    <3>2. QED
      BY <3>1, AnsweredKept
  <2>2. CASE input.env \notin Phrase
    <3>1. Refused("empty")
      BY <1>0, <1>2, <2>2 DEF GetEnv, Consulting, At, Refused, Fault
    <3>2. QED
      BY <3>1, RefusedKept
  <2>3. QED
    BY <2>1, <2>2
<1>3. CASE GetPrompt
  <2>1. stage = "source" /\ stage' = "ask"
    BY <1>3 DEF GetPrompt, Consulting, At
  <2>2. QED
    BY <1>3, <2>1, MovedKept DEF GetPrompt
<1>4. CASE Ask
  <2>0. stage = "ask" /\ "first" \notin secrets
    BY <1>4 DEF Ask, At, PromptInv
  <2>1. ASSUME NEW e \in {"exhausted", "cancelled"}, Refuse(e) PROVE Kept
    <3>1. Refused(e)
      BY <1>4, <2>0, <2>1 DEF Ask, Refused, Fault
    <3>2. QED
      BY <3>1, RefusedKept
  <2>2. CASE stage' = "line" /\ UNCHANGED <<pos, pw, fault>>
    <3>1. attempt < Attempts
      BY <1>4, <2>2 DEF Ask, Refuse
    <3>2. QED
      BY <1>4, <2>0, <2>2, <3>1, MovedKept DEF Ask
  <2>3. QED
    BY <1>4, <2>1, <2>2 DEF Ask
<1>5. CASE StartChild
  <2>0. stage = "source"
    BY <1>5 DEF StartChild, Consulting, At
  <2>1. CASE Refuse("exec")
    <3>1. Refused("exec")
      BY <1>0, <1>5, <2>0, <2>1 DEF StartChild, Refused, Fault
    <3>2. QED
      BY <3>1, RefusedKept
  <2>2. CASE stage' = "child" /\ UNCHANGED <<pos, pw, fault>>
    BY <1>0, <1>5, <2>0, <2>2, MovedKept DEF StartChild
  <2>3. QED
    BY <1>5, <2>1, <2>2 DEF StartChild
<1>6. CASE Compare
  BY <1>6, CompareKept
<1>7. QED
  BY <1>1, <1>2, <1>3, <1>4, <1>5, <1>6 DEF OwnStep

LEMMA AnswerKept ==
    ASSUME GetInv, Answer
    PROVE  Kept
<1> USE DEF GetInv
<1>1. CASE ReadLine
  <2>1. PICK line \in Phrase \cup {Blank} :
          /\ Typed(line)
          /\ \/ line = Blank /\ AskAgain
             \/ /\ line # Blank /\ input.confirm
                /\ stage' = "confirm"
                /\ first' = line
                /\ secrets' = secrets \cup {"first"}
                /\ UNCHANGED <<pos, attempt, second, pw, fault>>
             \/ /\ line # Blank /\ ~input.confirm
                /\ Yield(line)
                /\ secrets' = secrets \cup {"pw"}
                /\ UNCHANGED <<attempt, first, second>>
    BY <1>1 DEF ReadLine
  <2>2. stage = "line" /\ UNCHANGED <<input, cancelled>> /\ secrets \cap {"first", "confirm"} = {}
    BY <1>1 DEF ReadLine, At, PromptInv
  <2>3. CASE AskAgain
    BY <2>1, <2>2, <2>3, AskAgainKept
  <2>4. CASE line # Blank /\ input.confirm /\ stage' = "confirm"
    <3>1. /\ first' = line /\ secrets' = secrets \cup {"first"}
          /\ UNCHANGED <<pos, attempt, second, pw, fault>>
      BY <2>1, <2>2, <2>4 DEF AskAgain, Yield
    <3>2. QED
      BY <2>1, <2>2, <2>4, <3>1, ConfirmKept
  <2>5. CASE /\ line # Blank /\ ~input.confirm /\ Yield(line)
             /\ secrets' = secrets \cup {"pw"} /\ UNCHANGED <<attempt, first, second>>
    <3>1. line \in Phrase /\ secrets' = (secrets \ {"first", "confirm"}) \cup {"pw"}
      BY <2>1, <2>2, <2>5
    <3>3. lines' \in Seq(Phrase \cup {Blank}) /\ Len(lines') <= 2
      BY <2>1, TypedLines
    <3>2. QED
      BY <2>1, <2>2, <2>5, <3>1, <3>3, PromptedKept
  <2>6. QED
    BY <2>1, <2>3, <2>4, <2>5
<1>2. CASE ReadConfirm
  BY <1>2, ReadConfirmKept
<1>3. CASE InputEnds
  <2>1. PICK e \in {"eof", "read"} :
          /\ Refuse(e)
          /\ secrets' = Wipe \/ (e = "read" /\ secrets' = Wipe \cup {"partial"})
    BY <1>3 DEF InputEnds
  <2>2. /\ stage \in {"line", "confirm"} /\ first' = Nothing
        /\ UNCHANGED <<input, attempt, second, lines, cancelled>>
    BY <1>3 DEF InputEnds
  <2>3. Refused(e)
    BY <2>1, <2>2 DEF Wipe, Refused, Fault
  <2>4. QED
    BY <2>3, RefusedKept
<1>4. CASE ChildExits
  <2>0. stage = "child" /\ lines = <<>> /\ "first" \notin secrets
    BY <1>4 DEF ChildExits, At, PromptInv
  <2>1. ASSUME NEW phrase \in Phrase, Yield(phrase), secrets' = secrets \cup {"pw"} PROVE Kept
    <3>1. Answered(phrase)
      BY <1>4, <2>0, <2>1 DEF ChildExits, Answered
    <3>2. QED
      BY <3>1, AnsweredKept
  <2>2. CASE Refuse("empty") /\ UNCHANGED secrets
    <3>1. Refused("empty")
      BY <1>4, <2>0, <2>2 DEF ChildExits, Refused, Fault
    <3>2. QED
      BY <3>1, RefusedKept
  <2>3. CASE ChildFails
    <3>1. Refused("exec")
      BY <1>4, <2>0, <2>3 DEF ChildExits, ChildFails, Refused, Fault
    <3>2. QED
      BY <3>1, RefusedKept
  <2>4. QED
    BY <1>4, <2>1, <2>2, <2>3 DEF ChildExits
<1>5. CASE ChildKilled
  <2>0. stage = "child" /\ "first" \notin secrets
    BY <1>5 DEF ChildKilled, At, PromptInv
  <2>1. Refused("exec")
    BY <1>5, <2>0 DEF ChildKilled, ChildFails, Refused, Fault
  <2>2. QED
    BY <2>1, RefusedKept
<1>6. QED
  BY <1>1, <1>2, <1>3, <1>4, <1>5 DEF Answer

-------------------------------------------------------------------------------
(* The steps of the command.                                               *)

\* A step of src.Get.
LEMMA PasswordKept ==
    ASSUME Inv, InCall("password"), Kept, UNCHANGED runVars
    PROVE  Inv'
<1> USE DEF Inv, runVars
<1>1. PhraseTypeOK' /\ PromptInv'
  BY DEF Kept, GetInv
<1>2. step = 6 /\ exit = Running
  BY PlanPositions DEF InCall
<1>3. TypeOK'
  BY <1>1 DEF TypeOK
<1>4. uploaded = Nothing
  BY DEF Kept, SecretInv, PromptInv, RunInv
<1>5. ~SourceMissing'
  BY <1>2 DEF Kept, SecretInv, RunInv, SourceMissing
<1>6. RunInv'
  BY <1>2, <1>4, <1>5 DEF Kept, SecretInv, RunInv
<1>7. QED
  BY <1>1, <1>2, <1>3, <1>6 DEF SecretInv, SecretsWiped

\* Outside src.Get nothing of its state changes, but that BuildSource starts it.
Outside ==
    /\ stage' = stage \/ (stage = "idle" /\ stage' = "source")
    /\ UNCHANGED <<input, pos, attempt, first, second, pw, fault, lines, command>>
    /\ cancelled' \in BOOLEAN
    /\ secrets' \subseteq secrets \cup {"override", "plaintext", "writer"}

LEMMA OutsideKept ==
    ASSUME PhraseTypeOK, PromptInv, Outside
    PROVE  PhraseTypeOK' /\ PromptInv'
<1>1. Sources' = Sources
  BY DEF Outside, Sources
<1>2. PhraseTypeOK'
  BY DEF Outside, PhraseTypeOK, Buffer
<1>3. PromptInv'
  BY <1>1 DEF Outside, PromptInv
<1>4. QED
  BY <1>2, <1>3

\* A call succeeds, which is none of the two that are about the passphrase.
Proceeded ==
    /\ exit = Running
    /\ step <= Len(Plan[command])
    /\ step \notin {5, 6}
    /\ Proceed
    /\ Outside
    /\ UNCHANGED stage
    /\ deferred \subseteq deferred' /\ deferred' \subseteq Buffer
    /\ "plaintext" \in secrets' => "plaintext" \in deferred'
    /\ "writer" \notin secrets'
    /\ uploaded' = uploaded \/ (uploaded' = pw /\ command = "pack")
    /\ extracted' \in BOOLEAN

LEMMA NextStep ==
    ASSUME TypeOK, step <= Len(Plan[command]), Proceed, UNCHANGED command
    PROVE  step' = step + 1 /\ step' \in 1..(Len(Plan[command]) + 1)
<1>1. PICK n \in Nat : n = Len(Plan[command])
  BY DEF TypeOK, Plan
<1>2. step \in 1..(n + 1) /\ step <= n /\ step' = step + 1
  BY <1>1 DEF TypeOK, Proceed
<1>3. QED
  BY <1>1, <1>2

LEMMA ProceededKept ==
    ASSUME Inv, Proceeded
    PROVE  Inv'
<1> USE DEF Inv
<1>1. PhraseTypeOK' /\ PromptInv'
  BY OutsideKept DEF Proceeded, TypeOK, SecretInv
<1>2. step' = step + 1 /\ step' \in 1..(Len(Plan[command]) + 1) /\ command' = command
  BY NextStep DEF Proceeded, Outside
<1>3. TypeOK'
  BY <1>1, <1>2 DEF Proceeded, Proceed, TypeOK, PhraseTypeOK
<1>4. step \in Nat \ {0, 5, 6}
  BY DEF TypeOK, Proceeded
<1>5. exit' = Running
  BY DEF Proceeded, Proceed
<1>6. RunInv'
  BY <1>2, <1>4, <1>5 DEF Proceeded, Outside, SecretInv, RunInv
<1>7. QED
  BY <1>1, <1>3, <1>5, <1>6 DEF SecretInv, SecretsWiped

\* The command ends.
Ended ==
    /\ exit = Running
    /\ exit' \in {0, 1, 2}
    /\ Outside
    /\ UNCHANGED <<stage, step, deferred>>
    /\ stage \notin {"confirm", "compare"}
    /\ "pw" \in secrets => "pw" \in deferred
    /\ secrets' \subseteq
         (secrets \ deferred) \cup {"override"}
         \cup (IF FailedIn("archive")' THEN {"writer"} ELSE {})
    /\ "partial" \in secrets => FailedIn("password")'
    /\ cause' \in {"none"} \cup ConfigCause \cup RunCause \cup Fault
    /\ uploaded' = uploaded \/ uploaded' = Nothing \/ (uploaded' = pw /\ command = "pack")
    /\ extracted' \in BOOLEAN

LEMMA EndedKept ==
    ASSUME Inv, Ended
    PROVE  Inv'
<1> USE DEF Inv
<1>1. PhraseTypeOK' /\ PromptInv'
  BY OutsideKept DEF Ended, TypeOK, SecretInv
<1>2. TypeOK'
  BY <1>1 DEF Ended, Outside, TypeOK, PhraseTypeOK
<1>3. exit' # Running
  BY DEF Ended, Running
<1>4. ("plaintext" \in secrets => "plaintext" \in deferred) /\ "writer" \notin secrets
  BY DEF Ended, SecretInv, RunInv
<1>5. RunInv'
  <2>1. "partial" \in secrets' => FailedIn("password")'
    BY DEF Ended
  <2>2. "writer" \in secrets' => FailedIn("archive")'
    BY <1>4 DEF Ended
  <2>3. QED
    BY <1>3, <1>4, <2>1, <2>2 DEF Ended, Outside, SecretInv, RunInv
<1>6. SecretsWiped'
  <2>1. secrets \cap {"first", "confirm"} = {}
    BY DEF Ended, SecretInv, PromptInv
  <2>2. secrets \subseteq {"override", "first", "confirm", "partial", "pw", "writer", "plaintext"}
    BY DEF TypeOK, PhraseTypeOK, Buffer
  <2>3. "partial" \in secrets => fault' \in {"read", "exec"} /\ FailedIn("password")'
    BY DEF Ended, Outside, SecretInv, PromptInv
  <2>4. QED
    BY <1>4, <2>1, <2>2, <2>3 DEF Ended, SecretsWiped
<1>7. QED
  BY <1>1, <1>2, <1>5, <1>6 DEF SecretInv

\* Where a command may end, the passphrase is nowhere but in the buffer whose wipe
\* is deferred.
LEMMA EndsClean ==
    ASSUME Inv, exit = Running, step # 6 \/ stage = "done"
    PROVE  stage \notin {"confirm", "compare"} /\ (pw # Nothing => stage = "done")
           /\ (step # 6 => "partial" \notin secrets)
           /\ (step # 6 => ("pw" \in secrets => "pw" \in deferred))
           /\ (fault # "none" => "pw" \notin secrets)
<1>1. step \in Nat
  BY PlanPositions DEF Inv
<1>2. CASE step # 6
  BY <1>1, <1>2 DEF Inv, SecretInv, PromptInv, RunInv
<1>3. CASE step = 6
  BY <1>3 DEF Inv, SecretInv, PromptInv
<1>4. QED
  BY <1>2, <1>3

\* The calls that may fail at any place but the sixth.
LEMMA FailedKept ==
    ASSUME Inv, exit = Running, step # 6, NEW c \in ConfigCause \cup RunCause, FailWith(c),
           Outside, UNCHANGED <<stage, deferred>>,
           uploaded' = uploaded \/ uploaded' = Nothing \/ (uploaded' = pw /\ command = "pack"),
           extracted' \in BOOLEAN
    PROVE  Inv'
<1>1. exit' \in {0, 1, 2}
  BY DEF FailWith, Finish, ExitCodeFor
<1>2. /\ stage \notin {"confirm", "compare"} /\ "partial" \notin secrets
      /\ "pw" \in secrets => "pw" \in deferred
  BY EndsClean
<1>3. Ended
  BY <1>1, <1>2 DEF FailWith, Finish, Ended
<1>4. QED
  BY <1>3, EndedKept

LEMMA PlainKept ==
    ASSUME Inv, NEW call, NEW causes, causes \subseteq ConfigCause \cup RunCause,
           Plain(call, causes), step \notin {5, 6}
    PROVE  Inv'
<1>1. exit = Running /\ step <= Len(Plan[command]) /\ extracted' \in BOOLEAN
  BY DEF Plain, InCall, Inv, TypeOK
<1>2. CASE Proceed /\ UNCHANGED secrets
  <2>1. Proceeded
    BY <1>1, <1>2 DEF Plain, Proceeded, Outside, Inv, TypeOK, PhraseTypeOK, SecretInv, RunInv
  <2>2. QED
    BY <2>1, ProceededKept
<1>3. ASSUME NEW c \in causes, FailWith(c) PROVE Inv'
  <2>1. Outside
    BY <1>3 DEF Plain, FailWith, Finish, Outside, Inv, TypeOK, PhraseTypeOK
  <2>2. QED
    BY <1>1, <1>3, <2>1, FailedKept DEF Plain
<1>4. QED
  BY <1>2, <1>3 DEF Plain

LEMMA HandOverKept ==
    ASSUME Inv, exit = Running, step <= Len(Plan[command]), step \notin {5, 6}, HandOver,
           UNCHANGED <<input, stage, pos, attempt, first, second, pw, fault, lines, cancelled,
                       command, uploaded, extracted>>
    PROVE  Inv'
<1>1. deferred' \subseteq Buffer /\ deferred \subseteq deferred'
  BY DEF HandOver, Inv, TypeOK, Buffer
<1>2. "writer" \notin secrets'
  BY DEF HandOver, Inv, SecretInv, RunInv
<1>3. Proceeded
  BY <1>1, <1>2 DEF HandOver, Proceeded, Outside, Inv, TypeOK, PhraseTypeOK
<1>4. QED
  BY <1>3, ProceededKept

LEMMA BuildArchiveKept == Inv /\ BuildArchive => Inv'
<1> SUFFICES ASSUME Inv, BuildArchive PROVE Inv'
  OBVIOUS
<1>1. /\ exit = Running /\ step = 3 /\ step <= Len(Plan[command])
      /\ Plan[command][step] = "archive"
  BY PlanPositions DEF BuildArchive, InCall, Inv
<1>2. CASE HandOver
  BY <1>1, <1>2, HandOverKept DEF BuildArchive
<1>3. CASE /\ exit' = ExitCodeFor("io") /\ cause' = "io" /\ UNCHANGED <<step, deferred>>
           /\ secrets' \in {secrets \ deferred, (secrets \cup {"writer"}) \ deferred}
  <2>1. /\ stage \notin {"confirm", "compare"} /\ "partial" \notin secrets
        /\ "pw" \in secrets => "pw" \in deferred
    BY <1>1, EndsClean
  <2>2. FailedIn("archive")'
    BY <1>1, <1>3 DEF BuildArchive, FailedIn
  <2>3. secrets' \subseteq secrets \cup {"writer"} /\ secrets' \subseteq (secrets \ deferred) \cup {"writer"}
    BY <1>3
  <2>4. Outside
    BY <2>3 DEF BuildArchive, Outside, Inv, TypeOK, PhraseTypeOK
  <2>5. exit' \in {0, 1, 2} /\ cause' \in RunCause /\ extracted' \in BOOLEAN
    BY <1>3 DEF BuildArchive, ExitCodeFor, RunCause, Inv, TypeOK
  <2>6. Ended
    BY <1>1, <1>3, <2>1, <2>2, <2>3, <2>4, <2>5 DEF BuildArchive, Ended
  <2>7. QED
    BY <2>6, EndedKept
<1>4. QED
  BY <1>2, <1>3 DEF BuildArchive

LEMMA OpenKept == Inv /\ Open => Inv'
<1> SUFFICES ASSUME Inv, Open PROVE Inv'
  OBVIOUS
<1>1. exit = Running /\ step = 7 /\ step <= Len(Plan[command]) /\ extracted' \in BOOLEAN
  BY PlanPositions DEF Open, InCall, Inv, TypeOK
<1>2. CASE HandOver
  BY <1>1, <1>2, HandOverKept DEF Open
<1>3. CASE FailWith("decryption") /\ UNCHANGED deferred
  <2>1. Outside
    BY <1>3 DEF Open, FailWith, Finish, Outside, Inv, TypeOK, PhraseTypeOK
  <2>2. "decryption" \in RunCause
    BY DEF RunCause
  <2>3. QED
    BY <1>1, <1>3, <2>1, <2>2, FailedKept DEF Open
<1>4. QED
  BY <1>2, <1>3 DEF Open

LEMMA ConfigureKept == Inv /\ Configure => Inv'
<1> SUFFICES ASSUME Inv, Configure PROVE Inv'
  OBVIOUS
<1>1. exit = Running /\ step = 1 /\ step <= Len(Plan[command]) /\ secrets = {} /\ stage = "idle"
  <2>1. exit = Running /\ step = 1 /\ step <= Len(Plan[command])
    BY PlanPositions DEF Configure, InCall, Inv
  <2>2. QED
    BY <2>1 DEF Inv, SecretInv, RunInv
<1>2. Outside /\ secrets' \subseteq {"override"}
  BY <1>1 DEF Configure, Outside, Inv, TypeOK, PhraseTypeOK
<1>3. CASE Proceed
  <2>1. Proceeded
    BY <1>1, <1>2, <1>3 DEF Configure, Proceeded, Inv, TypeOK
  <2>2. QED
    BY <2>1, ProceededKept
<1>4. CASE exit' = ExitCodeFor("badConfig") /\ cause' = "badConfig" /\ UNCHANGED step
  <2>1. exit' \in {0, 1, 2} /\ cause' \in ConfigCause
    BY <1>4 DEF ExitCodeFor, ConfigCause
  <2>2. Ended
    BY <1>1, <1>2, <1>4, <2>1 DEF Configure, Ended, Inv, TypeOK
  <2>3. QED
    BY <2>2, EndedKept
<1>5. QED
  BY <1>3, <1>4 DEF Configure

LEMMA BuildSourceKept == Inv /\ BuildSource => Inv'
<1> SUFFICES ASSUME Inv, BuildSource PROVE Inv'
  OBVIOUS
<1>1. exit = Running /\ step = 5 /\ step <= Len(Plan[command]) /\ stage = "idle"
  <2>1. exit = Running /\ step = 5 /\ step <= Len(Plan[command])
    BY PlanPositions DEF BuildSource, InCall, Inv
  <2>2. QED
    BY <2>1 DEF Inv, SecretInv, RunInv
<1>2. CASE SourceMissing
  <2>1. FailWith("badSource") /\ UNCHANGED stage
    BY <1>2 DEF BuildSource
  <2>2. Outside
    BY <2>1 DEF BuildSource, FailWith, Finish, Outside, Inv, TypeOK, PhraseTypeOK
  <2>3. "badSource" \in ConfigCause /\ extracted' \in BOOLEAN
    BY DEF ConfigCause, BuildSource, Inv, TypeOK
  <2>4. QED
    BY <1>1, <2>1, <2>2, <2>3, FailedKept DEF BuildSource
<1>3. CASE ~SourceMissing
  <2>1. Proceed /\ stage' = "source" /\ UNCHANGED secrets
    BY <1>3 DEF BuildSource
  <2>2. Outside
    BY <1>1, <2>1 DEF BuildSource, Outside, Inv, TypeOK, PhraseTypeOK
  <2>3. PhraseTypeOK' /\ PromptInv'
    BY <2>2, OutsideKept DEF Inv, TypeOK, SecretInv
  <2>4. step' = 6 /\ step' \in 1..(Len(Plan[command]) + 1) /\ exit' = Running
    BY <1>1, <2>1, NextStep DEF BuildSource, Inv, Proceed
  <2>5. TypeOK'
    BY <2>1, <2>3, <2>4 DEF BuildSource, Proceed, Inv, TypeOK
  <2>6. ~SourceMissing'
    BY <1>3 DEF SourceMissing, BuildSource
  <2>7. RunInv'
    BY <1>1, <2>1, <2>4, <2>6 DEF BuildSource, Inv, SecretInv, RunInv
  <2>8. QED
    BY <2>3, <2>4, <2>5, <2>7 DEF Inv, SecretInv, SecretsWiped
<1>4. QED
  BY <1>2, <1>3

LEMMA PasswordReturnedKept == Inv /\ PasswordReturned => Inv'
<1> SUFFICES ASSUME Inv, PasswordReturned PROVE Inv'
  OBVIOUS
<1>1. exit = Running /\ step = 6 /\ step <= Len(Plan[command]) /\ stage = "done"
  BY PlanPositions DEF PasswordReturned, InCall, At, Inv
<1>2. CASE fault = "none"
  <2>1. Proceed /\ deferred' = deferred \cup {"pw"} /\ UNCHANGED secrets
    BY <1>2 DEF PasswordReturned
  <2>2. Outside
    BY <2>1 DEF PasswordReturned, Outside, Inv, TypeOK, PhraseTypeOK
  <2>3. PhraseTypeOK' /\ PromptInv'
    BY <2>2, OutsideKept DEF Inv, TypeOK, SecretInv
  <2>4. step' = 7 /\ step' \in 1..(Len(Plan[command]) + 1) /\ exit' = Running
    BY <1>1, <2>1, NextStep DEF PasswordReturned, Inv, Proceed
  <2>5. TypeOK'
    BY <2>1, <2>3, <2>4 DEF PasswordReturned, Proceed, Inv, TypeOK, Buffer
  <2>6. RunInv'
    BY <1>1, <1>2, <2>1, <2>4 DEF PasswordReturned, Inv, SecretInv, RunInv
  <2>7. QED
    BY <2>3, <2>4, <2>5, <2>6 DEF Inv, SecretInv, SecretsWiped
<1>3. CASE fault # "none"
  <2>1. FailWith(fault) /\ UNCHANGED deferred
    BY <1>3 DEF PasswordReturned
  <2>2. Outside
    BY <2>1 DEF PasswordReturned, FailWith, Finish, Outside, Inv, TypeOK, PhraseTypeOK
  <2>3. exit' \in {0, 1, 2} /\ cause' \in Fault
    BY <2>1 DEF FailWith, Finish, ExitCodeFor, Inv, TypeOK, PhraseTypeOK
  <2>4. stage \notin {"confirm", "compare"} /\ "pw" \notin secrets
    BY <1>1, <1>3, EndsClean
  <2>7. FailedIn("password")'
    BY <1>1, <1>3, <2>1 DEF PasswordReturned, InCall, FailWith, Finish, FailedIn
  <2>5. Ended
    BY <1>1, <2>1, <2>2, <2>3, <2>4, <2>7 DEF PasswordReturned, FailWith, Finish, Ended, Inv, TypeOK
  <2>6. QED
    BY <2>5, EndedKept
<1>4. QED
  BY <1>2, <1>3

LEMMA PutKept == Inv /\ Put => Inv'
<1> SUFFICES ASSUME Inv, Put PROVE Inv'
  OBVIOUS
<1>1. /\ exit = Running /\ step = 8 /\ step <= Len(Plan[command]) /\ command = "pack"
      /\ extracted' \in BOOLEAN
  BY PlanPositions DEF Put, InCall, Inv, TypeOK
<1>2. CASE Proceed /\ uploaded' = pw /\ UNCHANGED secrets
  <2>1. Proceeded
    BY <1>1, <1>2 DEF Put, Proceeded, Outside, Inv, TypeOK, PhraseTypeOK, SecretInv, RunInv
  <2>2. QED
    BY <2>1, ProceededKept
<1>3. ASSUME NEW c \in {"interrupted", "store"}, FailWith(c),
             uploaded' = uploaded \/ uploaded' \in {Nothing, pw}
      PROVE  Inv'
  <2>1. Outside
    BY <1>3 DEF Put, FailWith, Finish, Outside, Inv, TypeOK, PhraseTypeOK
  <2>2. c \in RunCause
    BY DEF RunCause
  <2>3. QED
    BY <1>1, <1>3, <2>1, <2>2, FailedKept DEF Put
<1>4. QED
  BY <1>2, <1>3 DEF Put

LEMMA PickKeyKept == Inv /\ PickKey => Inv'
<1> SUFFICES ASSUME Inv, PickKey PROVE Inv'
  OBVIOUS
<1>1. /\ exit = Running /\ step \in {2, 3} /\ step <= Len(Plan[command])
      /\ extracted' \in BOOLEAN
  BY PlanPositions DEF PickKey, InCall, Inv, TypeOK
<1>2. CASE Proceed /\ UNCHANGED secrets
  <2>1. Proceeded
    BY <1>1, <1>2 DEF PickKey, Proceeded, Outside, Inv, TypeOK, PhraseTypeOK, SecretInv, RunInv
  <2>2. QED
    BY <2>1, ProceededKept
<1>3. ASSUME NEW c \in {"badTime", "store", "noSnapshots", "interrupted"}, FailWith(c) PROVE Inv'
  <2>1. Outside
    BY <1>3 DEF PickKey, FailWith, Finish, Outside, Inv, TypeOK, PhraseTypeOK
  <2>2. c \in ConfigCause \cup RunCause
    BY DEF ConfigCause, RunCause
  <2>3. QED
    BY <1>1, <1>3, <2>1, <2>2, FailedKept DEF PickKey
<1>4. QED
  BY <1>2, <1>3 DEF PickKey

LEMMA GetKept == Inv /\ Get => Inv'
<1> SUFFICES ASSUME Inv, Get PROVE Inv'
  OBVIOUS
<1>1. exit = Running /\ step = 4 /\ step <= Len(Plan[command]) /\ extracted' \in BOOLEAN
  BY PlanPositions DEF Get, InCall, Inv, TypeOK
<1>2. CASE Proceed /\ UNCHANGED secrets
  <2>1. Proceeded
    BY <1>1, <1>2 DEF Get, Proceeded, Outside, Inv, TypeOK, PhraseTypeOK, SecretInv, RunInv
  <2>2. QED
    BY <2>1, ProceededKept
<1>3. ASSUME NEW c \in {"store", "interrupted"}, FailWith(c) PROVE Inv'
  <2>1. Outside
    BY <1>3 DEF Get, FailWith, Finish, Outside, Inv, TypeOK, PhraseTypeOK
  <2>2. c \in RunCause
    BY DEF RunCause
  <2>3. QED
    BY <1>1, <1>3, <2>1, <2>2, FailedKept DEF Get
<1>4. QED
  BY <1>2, <1>3 DEF Get

LEMMA ExtractKept == Inv /\ Extract => Inv'
<1> SUFFICES ASSUME Inv, Extract PROVE Inv'
  OBVIOUS
<1>1. exit = Running /\ step = 8 /\ step <= Len(Plan[command]) /\ extracted' \in BOOLEAN
  BY PlanPositions DEF Extract, InCall, Inv
<1>2. CASE Proceed /\ UNCHANGED secrets
  <2>1. Proceeded
    BY <1>1, <1>2 DEF Extract, Proceeded, Outside, Inv, TypeOK, PhraseTypeOK, SecretInv, RunInv
  <2>2. QED
    BY <2>1, ProceededKept
<1>3. CASE FailWith("io")
  <2>1. Outside
    BY <1>3 DEF Extract, FailWith, Finish, Outside, Inv, TypeOK, PhraseTypeOK
  <2>2. "io" \in RunCause
    BY DEF RunCause
  <2>3. QED
    BY <1>1, <1>3, <2>1, <2>2, FailedKept DEF Extract
<1>4. QED
  BY <1>2, <1>3 DEF Extract

LEMMA SucceedKept == Inv /\ Succeed => Inv'
<1> SUFFICES ASSUME Inv, Succeed PROVE Inv'
  OBVIOUS
<1>1. exit = Running /\ step # 6 /\ extracted' \in BOOLEAN
  BY PlanPositions DEF Succeed, Inv, TypeOK
<1>2. Outside
  BY DEF Succeed, Finish, Outside, Inv, TypeOK, PhraseTypeOK
<1>3. /\ stage \notin {"confirm", "compare"} /\ "partial" \notin secrets
      /\ "pw" \in secrets => "pw" \in deferred
  BY <1>1, EndsClean
<1>4. exit' \in {0, 1, 2}
  BY DEF Succeed, Finish
<1>5. Ended
  BY <1>1, <1>2, <1>3, <1>4 DEF Succeed, Finish, Ended, Inv, TypeOK
<1>6. QED
  BY <1>5, EndedKept

LEMMA SignalKept == Inv /\ Signal => Inv'
<1> SUFFICES ASSUME Inv, Signal PROVE Inv'
  OBVIOUS
<1>1. Outside /\ UNCHANGED <<stage, secrets>> /\ UNCHANGED runVars
  <2>1. cancelled' \in BOOLEAN
    BY DEF Signal, Interrupt
  <2>2. UNCHANGED <<input, stage, pos, attempt, first, second, pw, fault, secrets, lines, command>>
    BY DEF Signal, Interrupt, runVars
  <2>3. QED
    BY <2>1, <2>2 DEF Signal, Outside
<1>2. PhraseTypeOK' /\ PromptInv'
  BY <1>1, OutsideKept DEF Inv, TypeOK, SecretInv
<1>3. TypeOK'
  BY <1>1, <1>2 DEF runVars, Inv, TypeOK
<1>4. ~SourceMissing' = ~SourceMissing
  BY <1>1 DEF Outside, SourceMissing
<1>5. RunInv'
  BY <1>1, <1>4 DEF runVars, Outside, Inv, SecretInv, RunInv, FailedIn
<1>6. SecretsWiped'
  BY <1>1 DEF runVars, Outside, Inv, SecretsWiped, FailedIn
<1>7. QED
  BY <1>2, <1>3, <1>5, <1>6 DEF Inv, SecretInv

-------------------------------------------------------------------------------

LEMMA NextInv == Inv /\ [Next]_vars => Inv'
<1> SUFFICES ASSUME Inv, [Next]_vars PROVE Inv'
  OBVIOUS
<1>1. CASE Work
  <2>1. CASE Scan
    <3>1. step = 2 /\ {"noFiles", "io"} \subseteq ConfigCause \cup RunCause
      BY <2>1, PlanPositions DEF Scan, Plain, Inv, RunCause
    <3>2. QED
      BY <2>1, <3>1, PlainKept DEF Scan
  <2>2. CASE BuildClient
    <3>1. step \in {2, 4} /\ {"badLocation"} \subseteq ConfigCause \cup RunCause
      BY <2>2, PlanPositions DEF BuildClient, Plain, Inv, ConfigCause
    <3>2. QED
      BY <2>2, <3>1, PlainKept DEF BuildClient
  <2>3. CASE Seal
    <3>1. step = 7 /\ {"crypto"} \subseteq ConfigCause \cup RunCause
      BY <2>3, PlanPositions DEF Seal, Plain, Inv, RunCause
    <3>2. QED
      BY <2>3, <3>1, PlainKept DEF Seal
  <2>6. CASE GetPassword
    <3>1. InCall("password") /\ OwnStep /\ UNCHANGED runVars
      BY <2>6 DEF GetPassword
    <3>2. step = 6 /\ exit = Running
      BY <3>1, PlanPositions DEF Inv, InCall
    <3>3. GetInv /\ stage # "idle" /\ ~SourceMissing
      BY <3>2 DEF GetInv, Inv, TypeOK, SecretInv, RunInv
    <3>4. QED
      BY <3>1, <3>3, OwnStepKept, PasswordKept
  <2>7. QED
    BY <1>1, <2>1, <2>2, <2>3, <2>6, ConfigureKept, BuildArchiveKept, OpenKept, BuildSourceKept,
       PasswordReturnedKept, PutKept, PickKeyKept, GetKept, ExtractKept, SucceedKept DEF Work
<1>2. CASE AwaitPassword
  <2>1. GetInv
    BY DEF GetInv, Inv, TypeOK, SecretInv
  <2>2. QED
    BY <1>2, <2>1, AnswerKept, PasswordKept DEF AwaitPassword
<1>3. CASE Signal
  BY <1>3, SignalKept
<1>4. CASE UNCHANGED vars
  <2>1. Inv = Inv'
    BY <1>4 DEF vars, phraseVars, runVars, Inv, TypeOK, PhraseTypeOK, SecretInv, PromptInv, RunInv, FailedIn,
                SecretsWiped, Sources, SourceMissing
  <2>2. QED
    BY <2>1
<1>5. QED
  BY <1>1, <1>2, <1>3, <1>4 DEF Next

LEMMA InvHolds == Spec => []Inv
<1>1. QED
  BY InitInv, NextInv, PTL DEF Spec

\* Every variable of a command and of its passphrase has its type; no more than
\* Attempts lines are counted, and the chain is never left.
THEOREM TypeCorrect == Spec => []TypeOK
<1>1. Inv => TypeOK
  BY DEF Inv
<1>2. QED
  BY <1>1, InvHolds, PTL

\* What the prompt has read belongs to its last attempt, and a buffer that holds a
\* secret has somebody who is bound to wipe it, or belongs to the call that failed,
\* wherever the command is.
THEOREM SecretsAccountedFor == Spec => []SecretInv
<1>1. Inv => SecretInv
  BY DEF Inv
<1>2. QED
  BY <1>1, InvHolds, PTL

\* pack.go seals with a passphrase that was typed twice in a row, if it was typed.
THEOREM SealedAsTypedHolds == Spec => []SealedAsTyped
<1>1. Inv => SealedAsTyped
  <2>1. ASSUME Inv, uploaded # Nothing
        PROVE  uploaded = pw /\ pw \in Phrase /\ (Prompted => lines = <<pw, pw>>)
    <3>1. uploaded = pw /\ command = "pack" /\ pw \in Phrase
      BY <2>1 DEF Inv, TypeOK, PhraseTypeOK, SecretInv, RunInv
    <3>2. pw # Nothing /\ input.confirm
      BY <2>1, <3>1 DEF Inv, SecretInv, RunInv
    <3>3. QED
      BY <2>1, <3>1, <3>2 DEF Inv, SecretInv, PromptInv, Prompted
  <2>2. QED
    BY <2>1 DEF SealedAsTyped
<1>2. QED
  BY <1>1, InvHolds, PTL

\* The deferred wipes of runPack and runUnpack reach every buffer that a call has
\* returned, whichever call fails after it; what buildArchive or Get had read when
\* it failed is all they miss, and the copy of --pass.
THEOREM SecretsWipedHolds == Spec => []SecretsWiped
<1>1. Inv => SecretsWiped
  BY DEF Inv
<1>2. QED
  BY <1>1, InvHolds, PTL

-------------------------------------------------------------------------------
(* Whom the chain of sources has asked before the prompt, and which errors the   *)
(* exit code 2 stands for.                                                  *)

\* The chain has moved on only past sources that had nothing to give, and what is
\* being waited for belongs to the source it is at.
ChainInv ==
    /\ stage = "idle" => pos = 1
    /\ Chained /\ pos > 1 => input.given \notin Phrase /\ input.env \notin Phrase
    /\ stage \in {"ask", "line", "confirm", "compare"} => Sources[pos] = "prompt"
    /\ stage = "child" => ~Chained
    /\ fault = "exhausted" => attempt = Attempts

\* The sources by position.
LEMMA ChainShape ==
    ASSUME Inv
    PROVE  /\ pos \in 1..Len(Sources)
           /\ ~Chained => Len(Sources) = 1 /\ Sources[pos] = input.source
           /\ Chained /\ input.given \in Phrase => Sources = <<"flag", "env", "prompt">>
           /\ Chained /\ input.given \notin Phrase => Sources = <<"env", "prompt">>
<1>1. pos \in 1..3 /\ pos <= Len(Sources)
  BY DEF Inv, TypeOK, PhraseTypeOK, SecretInv, PromptInv
<1>2. Len(Sources) \in 1..3
  BY SourcesType DEF Inv, TypeOK, PhraseTypeOK
<1>3. ~Chained => Sources = <<input.source>>
  BY DEF Chained, Sources
<1>4. ~Chained => Len(Sources) = 1 /\ Sources[pos] = input.source
  <2> SUFFICES ASSUME ~Chained PROVE Len(Sources) = 1 /\ Sources[pos] = input.source
    OBVIOUS
  <2>1. Len(Sources) = 1 /\ Sources[1] = input.source
    BY <1>3
  <2>2. pos = 1
    BY <1>1, <2>1
  <2>3. QED
    BY <2>1, <2>2
<1>5. QED
  BY <1>1, <1>2, <1>4 DEF Chained, Sources

LEMMA ChainSaysSourcesInOrder == Inv /\ ChainInv => SourcesInOrder
<1> SUFFICES ASSUME Inv, ChainInv, stage \in {"ask", "line", "confirm", "compare"}
             PROVE  \/ input.source = "prompt"
                    \/ Chained /\ input.given \notin Phrase /\ input.env \notin Phrase
  BY DEF SourcesInOrder
<1>1. Sources[pos] = "prompt"
  BY DEF ChainInv
<1>2. CASE ~Chained
  BY <1>1, <1>2, ChainShape
<1>3. CASE Chained
  <2>1. pos # 1
    BY <1>1, <1>3, ChainShape
  <2>2. pos > 1
    BY <2>1, ChainShape
  <2>3. QED
    BY <1>3, <2>2 DEF ChainInv
<1>4. QED
  BY <1>2, <1>3

\* A source fails with e; the chain moves on only past the environment.
LEMMA RefuseChain ==
    ASSUME Inv, ChainInv, NEW e, Refuse(e), UNCHANGED <<input, attempt>>,
           e = "exhausted" => attempt = Attempts,
           e = "empty" /\ Chained => Sources[pos] = "env" /\ input.env \notin Phrase,
           stage # "idle"
    PROVE  ChainInv'
<1>1. Sources' = Sources /\ Chained' = Chained
  BY DEF Sources, Chained
<1>2. CASE Chained /\ e = "empty" /\ pos < Len(Sources)
  <2>1. stage' = "source" /\ pos' = pos + 1 /\ fault' = fault
    BY <1>2 DEF Refuse
  <2>2. input.env \notin Phrase /\ Sources[pos] = "env"
    BY <1>2
  <2>3. input.given \notin Phrase
    <3>1. CASE input.given \in Phrase
      <4>1. Sources = <<"flag", "env", "prompt">>
        BY <1>2, <3>1, ChainShape
      <4>2. pos # 1
        BY <2>2, <4>1
      <4>3. pos > 1
        BY <4>2, ChainShape
      <4>4. QED
        BY <1>2, <4>3 DEF ChainInv
    <3>2. QED
      BY <3>1
  <2>4. QED
    BY <1>1, <2>1, <2>2, <2>3 DEF ChainInv
<1>3. CASE ~(Chained /\ e = "empty" /\ pos < Len(Sources))
  <2>1. stage' = "done" /\ fault' = e /\ pos' = pos
    BY <1>3 DEF Refuse
  <2>2. QED
    BY <1>1, <2>1 DEF ChainInv
<1>4. QED
  BY <1>2, <1>3

\* The source at pos answers.
LEMMA YieldChain ==
    ASSUME Inv, ChainInv, NEW phrase, Yield(phrase), UNCHANGED <<input, attempt>>
    PROVE  ChainInv'
  BY DEF Yield, ChainInv, Sources, Chained

LEMMA AskAgainChain ==
    ASSUME Inv, ChainInv, AskAgain, stage \in {"line", "compare"}, UNCHANGED input
    PROVE  ChainInv'
<1>1. fault = "none"
  BY DEF Inv, SecretInv, PromptInv
<1>2. QED
  BY <1>1 DEF AskAgain, ChainInv, Sources, Chained

LEMMA OwnStepChain == Inv /\ ChainInv /\ OwnStep => ChainInv'
<1> SUFFICES ASSUME Inv, ChainInv, OwnStep PROVE ChainInv'
  OBVIOUS
<1>1. CASE GetFlag
  BY <1>1, YieldChain DEF GetFlag
<1>2. CASE GetEnv
  <2>1. stage = "source" /\ Sources[pos] = "env" /\ UNCHANGED <<input, attempt>>
    BY <1>2 DEF GetEnv, Consulting, At
  <2>2. QED
    BY <1>2, <2>1, YieldChain, RefuseChain DEF GetEnv
<1>3. CASE GetPrompt
  BY <1>3 DEF GetPrompt, Consulting, ChainInv, Sources, Chained
<1>4. CASE Ask
  <2>1. stage = "ask" /\ UNCHANGED <<input, attempt>>
    BY <1>4 DEF Ask, At
  <2>2. CASE stage' = "line" /\ UNCHANGED <<pos, pw, fault>>
    BY <2>1, <2>2 DEF ChainInv, Sources, Chained
  <2>3. CASE attempt = Attempts /\ Refuse("exhausted")
    BY <2>1, <2>3, RefuseChain
  <2>4. CASE Refuse("cancelled")
    BY <2>1, <2>4, RefuseChain
  <2>5. QED
    BY <1>4, <2>2, <2>3, <2>4 DEF Ask
<1>5. CASE StartChild
  <2>1. stage = "source" /\ Sources[pos] \in {"pass", "command"} /\ UNCHANGED <<input, attempt>>
    BY <1>5 DEF StartChild, Consulting, At
  <2>2. ~Chained
    <3>1. CASE Chained /\ input.given \in Phrase
      <4>1. Sources = <<"flag", "env", "prompt">> /\ pos \in 1..3
        BY <3>1, ChainShape
      <4>2. QED
        BY <2>1, <4>1
    <3>2. CASE Chained /\ input.given \notin Phrase
      <4>1. Sources = <<"env", "prompt">> /\ pos \in 1..2
        BY <3>2, ChainShape
      <4>2. QED
        BY <2>1, <4>1
    <3>3. QED
      BY <3>1, <3>2
  <2>3. CASE Refuse("exec")
    BY <2>1, <2>3, RefuseChain
  <2>4. CASE stage' = "child" /\ UNCHANGED <<pos, pw, fault>>
    BY <2>1, <2>2, <2>4 DEF ChainInv, Sources, Chained
  <2>5. QED
    BY <1>5, <2>3, <2>4 DEF StartChild
<1>6. CASE Compare
  <2>1. stage = "compare" /\ UNCHANGED input
    BY <1>6 DEF Compare, At
  <2>2. QED
    BY <1>6, <2>1, AskAgainChain, YieldChain DEF Compare
<1>7. QED
  BY <1>1, <1>2, <1>3, <1>4, <1>5, <1>6 DEF OwnStep

LEMMA AnswerChain == Inv /\ ChainInv /\ Answer => ChainInv'
<1> SUFFICES ASSUME Inv, ChainInv, Answer PROVE ChainInv'
  OBVIOUS
<1>2. CASE ReadLine
  <2>1. stage = "line" /\ UNCHANGED input
    BY <1>2 DEF ReadLine, At
  <2>2. CASE stage' = "confirm" /\ UNCHANGED <<pos, attempt, pw, fault>>
    BY <2>1, <2>2 DEF ChainInv, Sources, Chained
  <2>3. QED
    BY <1>2, <2>1, <2>2, AskAgainChain, YieldChain DEF ReadLine
<1>3. CASE ReadConfirm
  BY <1>3 DEF ReadConfirm, At, ChainInv, Sources, Chained
<1>4. CASE InputEnds
  <2>1. stage # "idle" /\ UNCHANGED <<input, attempt>> /\ (Refuse("eof") \/ Refuse("read"))
    BY <1>4 DEF InputEnds
  <2>2. QED
    BY <2>1, RefuseChain
<1>5. CASE ChildExits
  <2>1. stage = "child" /\ ~Chained /\ UNCHANGED <<input, attempt>>
    BY <1>5 DEF ChildExits, At, ChainInv
  <2>2. ASSUME NEW e \in {"empty", "exec"}, Refuse(e) PROVE ChainInv'
    BY <2>1, <2>2, RefuseChain
  <2>3. QED
    BY <1>5, <2>1, <2>2, YieldChain DEF ChildExits, ChildFails
<1>6. CASE ChildKilled
  <2>1. stage = "child" /\ UNCHANGED <<input, attempt>> /\ Refuse("exec")
    BY <1>6 DEF ChildKilled, ChildFails, At
  <2>2. QED
    BY <2>1, RefuseChain
<1>7. QED
  BY <1>2, <1>3, <1>4, <1>5, <1>6 DEF Answer

LEMMA ChainNext == Inv /\ ChainInv /\ [Next]_vars => ChainInv'
<1> SUFFICES ASSUME Inv, ChainInv, [Next]_vars PROVE ChainInv'
  OBVIOUS
<1>1. CASE UNCHANGED <<input, pos, attempt, fault>> /\ stage' \in {stage, "source"} /\ (stage' = stage \/ stage = "idle")
  BY <1>1 DEF ChainInv, Sources, Chained
<1>2. CASE GetPassword
  BY <1>2, OwnStepChain DEF GetPassword
<1>3. CASE AwaitPassword
  BY <1>3, AnswerChain DEF AwaitPassword
<1>4. CASE BuildSource
  <2>1. stage = "idle"
    BY <1>4, PlanPositions DEF BuildSource, InCall, Inv, TypeOK, SecretInv, RunInv
  <2>2. UNCHANGED <<input, pos, attempt, fault>> /\ stage' \in {stage, "source"}
    BY <1>4 DEF BuildSource
  <2>3. QED
    BY <1>1, <2>1, <2>2
<1>5. CASE Work /\ ~GetPassword /\ ~BuildSource
  <2>1. UNCHANGED <<input, stage, pos, attempt, fault>>
    BY <1>5 DEF Work, Configure, Scan, BuildArchive, BuildClient, PasswordReturned, Seal, Put,
       PickKey, Get, Open, Extract, Succeed, Plain
  <2>2. QED
    BY <1>1, <2>1
<1>6. CASE Signal \/ UNCHANGED vars
  BY <1>1, <1>6 DEF Signal, Interrupt, vars, phraseVars
<1>7. QED
  BY <1>2, <1>3, <1>4, <1>5, <1>6 DEF Next

LEMMA ChainHolds == Spec => []ChainInv
<1>1. Init => ChainInv
  BY DEF Init, PhraseInit, ChainInv
<1>2. QED
  BY <1>1, ChainNext, InvHolds, PTL DEF Spec

\* The user is asked only if neither --pass nor the environment had a passphrase,
\* or the prompt is the one source that is configured.
THEOREM SourcesInOrderHolds == Spec => []SourcesInOrder
<1>1. QED
  BY ChainHolds, InvHolds, ChainSaysSourcesInOrder, PTL

-------------------------------------------------------------------------------
(* Exit code 2.                                                            *)

\* A call that fails before the source is built fails with stage "idle".
LEMMA EarlyIsIdle ==
    ASSUME Inv, exit = Running, step <= 5
    PROVE  stage = "idle"
  BY DEF Inv, SecretInv, RunInv

LEMMA ErrorsNext ==
    ASSUME Inv, ChainInv, ConfigErrorsComeFirst, [Next]_vars
    PROVE  ConfigErrorsComeFirst'
<1>1. ASSUME exit' = exit, exit # 2 \/ UNCHANGED <<stage, fault, attempt>>
      PROVE  ConfigErrorsComeFirst'
  BY <1>1 DEF ConfigErrorsComeFirst
<1>2. ASSUME exit = Running, exit' = Running PROVE ConfigErrorsComeFirst'
  BY <1>2 DEF ConfigErrorsComeFirst, Running
<1>3. ASSUME NEW c, FailWith(c), c \notin ConfigCause \cup {"exhausted"}
      PROVE  ConfigErrorsComeFirst'
  BY <1>3 DEF FailWith, Finish, ExitCodeFor, ConfigErrorsComeFirst
<1>4. ASSUME stage' = "idle" PROVE ConfigErrorsComeFirst'
  BY <1>4 DEF ConfigErrorsComeFirst
<1>5. CASE Configure
  <2>1. stage' = "idle"
    BY <1>5, PlanPositions, EarlyIsIdle DEF Configure, InCall, Inv
  <2>2. QED
    BY <1>4, <2>1
<1>6. CASE BuildClient
  <2>1. stage' = "idle"
    BY <1>6, PlanPositions, EarlyIsIdle DEF BuildClient, Plain, InCall, Inv
  <2>2. QED
    BY <1>4, <2>1
<1>7. CASE BuildSource
  <2>1. stage = "idle" /\ exit = Running
    BY <1>7, PlanPositions, EarlyIsIdle DEF BuildSource, InCall, Inv
  <2>2. \/ exit' = exit
        \/ stage' = "idle"
    BY <1>7, <2>1 DEF BuildSource, Proceed
  <2>3. QED
    BY <1>2, <1>4, <2>1, <2>2
<1>8. CASE PickKey
  <2>1. stage' = "idle"
    BY <1>8, PlanPositions, EarlyIsIdle DEF PickKey, InCall, Inv
  <2>2. QED
    BY <1>4, <2>1
<1>9. CASE PasswordReturned
  <2>1. exit = Running /\ UNCHANGED <<stage, fault, attempt>>
    BY <1>9 DEF PasswordReturned, InCall
  <2>2. CASE exit' = exit
    BY <1>2, <2>1, <2>2
  <2>3. CASE FailWith(fault)
    <3>1. fault \notin ConfigCause
      BY DEF Inv, TypeOK, PhraseTypeOK, Fault, ConfigCause
    <3>2. fault = "exhausted" => attempt = Attempts
      BY DEF ChainInv
    <3>3. QED
      BY <1>3, <2>1, <2>3, <3>1, <3>2 DEF ConfigErrorsComeFirst
  <2>4. QED
    BY <1>9, <2>2, <2>3 DEF PasswordReturned, Proceed
<1>10. ASSUME NEW call, NEW causes, Plain(call, causes), causes \cap ConfigCause = {},
              "exhausted" \notin causes
       PROVE  ConfigErrorsComeFirst'
  BY <1>2, <1>3, <1>10 DEF Plain, Proceed, InCall
<1>11. CASE Scan \/ Seal
  BY <1>10, <1>11 DEF Scan, Seal, ConfigCause
<1>12. CASE BuildArchive \/ Open
  <2>1. exit = Running
    BY <1>12 DEF BuildArchive, Open, InCall
  <2>2. CASE HandOver
    BY <1>2, <2>1, <2>2 DEF HandOver, Proceed
  <2>3. CASE exit' = ExitCodeFor("io")
    BY <2>3 DEF ExitCodeFor, ConfigCause, ConfigErrorsComeFirst
  <2>4. QED
    BY <1>3, <1>12, <2>2, <2>3 DEF BuildArchive, Open, ConfigCause
<1>13. CASE Put
  BY <1>2, <1>3, <1>13 DEF Put, Proceed, InCall, ConfigCause
<1>14. CASE Get
  <2>1. exit' = exit \/ FailWith("interrupted") \/ FailWith("store")
    BY <1>14 DEF Get, Proceed
  <2>2. exit = Running
    BY <1>14 DEF Get, InCall
  <2>3. QED
    BY <1>2, <1>3, <2>1, <2>2 DEF ConfigCause
<1>15. CASE Extract
  BY <1>2, <1>3, <1>15 DEF Extract, Proceed, InCall, ConfigCause
<1>16. CASE Succeed
  BY <1>16 DEF Succeed, Finish, ConfigErrorsComeFirst
<1>17. CASE GetPassword \/ AwaitPassword \/ Signal
  BY <1>2, <1>17 DEF GetPassword, AwaitPassword, Signal, InCall, runVars
<1>18. CASE UNCHANGED vars
  BY <1>1, <1>18 DEF vars, phraseVars, runVars
<1>19. QED
  BY <1>5, <1>6, <1>7, <1>8, <1>9, <1>11, <1>12, <1>13, <1>14, <1>15, <1>16, <1>17, <1>18
  DEF Next, Work

\* A run that ends with exit code 2 has asked nobody for a passphrase, unless the
\* prompt has used up all its attempts.
THEOREM ConfigErrorsComeFirstHolds == Spec => []ConfigErrorsComeFirst
<1>1. Init => ConfigErrorsComeFirst
  BY DEF Init, PhraseInit, ConfigErrorsComeFirst
<1>2. Inv /\ ChainInv /\ ConfigErrorsComeFirst /\ [Next]_vars => ConfigErrorsComeFirst'
  BY ErrorsNext
<1>3. QED
  BY <1>1, <1>2, ChainHolds, InvHolds, PTL DEF Spec

===============================================================================
