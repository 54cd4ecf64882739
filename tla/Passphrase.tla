------------------------------- MODULE Passphrase ------------------------------
(***************************************************************************)
(* How one confkoffer process gets its passphrase: buildPasswordSource,    *)
(* Chain.Get and the Get of each source in internal/password.              *)
(*                                                                         *)
(* The stage says what the process is doing:                               *)
(*                                                                         *)
(*    idle     no source has been asked yet                                *)
(*    source   about to ask the source at position pos                     *)
(*    ask      at the top of the prompt's loop                             *)
(*    line     waiting for the user to type the passphrase                 *)
(*    confirm  waiting for the user to type it again                       *)
(*    compare  about to compare the two lines                              *)
(*    child    waiting for the output of "pass" or of the user's command   *)
(*    done     Get has returned: pw, or a fault                            *)
(***************************************************************************)
EXTENDS Naturals, Sequences

CONSTANTS
    Phrase,    \* the passphrases
    Blank,     \* an empty value or line
    Nothing,   \* no value
    Attempts   \* Prompter.Attempts, 3 in NewDefaultPrompter

VARIABLES
    input,     \* what the process is given: --pass, CONFKOFFER_PASS, the source
               \* that is configured, and whether to ask twice
    stage,
    pos,       \* the index of Chain.Get's loop
    attempt,   \* the loop variable of Prompter.Get
    first,     \* Prompter.Get's local pw
    second,    \* Prompter.Get's local confirm
    pw,        \* the passphrase Get returned, or Nothing
    fault,     \* the error Get returned, or "none"
    secrets,   \* the buffers that hold secret bytes
    lines,     \* history: the last two lines the user typed
    cancelled  \* the context is cancelled

phraseVars == <<input, stage, pos, attempt, first, second, pw, fault, secrets, lines,
                cancelled>>

Kind == {"flag", "env", "prompt", "pass", "command"}

Input == [given : Phrase \cup {Blank, Nothing}, env : Phrase \cup {Blank, Nothing},
          source : Kind \cup {"unset"}, confirm : BOOLEAN]

\* "partial" is what a readLine or a child had delivered before it failed, and
\* "writer" what the archive's writer had taken in before it did.
Buffer == {"override", "first", "confirm", "partial", "pw", "writer", "plaintext"}

\* "empty" and "exhausted" are the sentinels ErrEmpty and ErrPromptExhausted.
Fault == {"none", "empty", "exhausted", "cancelled", "eof", "read", "exec"}

ASSUME PhraseAssumption ==
    /\ Blank \notin Phrase
    /\ Nothing \notin Phrase \cup {Blank}
    /\ Attempts \in Nat \ {0}

PhraseTypeOK ==
    /\ input \in Input
    /\ stage \in {"idle", "source", "ask", "line", "confirm", "compare", "child", "done"}
    /\ pos \in 1..3
    /\ attempt \in 0..Attempts
    /\ first \in Phrase \cup {Nothing}
    /\ second \in Phrase \cup {Blank, Nothing}
    /\ pw \in Phrase \cup {Nothing}
    /\ fault \in Fault
    /\ secrets \subseteq Buffer
    /\ lines \in Seq(Phrase \cup {Blank}) /\ Len(lines) <= 2
    /\ cancelled \in BOOLEAN

PhraseInit ==
    /\ input \in Input
    /\ stage = "idle"
    /\ pos = 1
    /\ attempt = 0
    /\ first = Nothing
    /\ second = Nothing
    /\ pw = Nothing
    /\ fault = "none"
    /\ secrets = {}
    /\ lines = <<>>
    /\ cancelled = FALSE

-------------------------------------------------------------------------------
(* The sources.                                                            *)

\* Mutant: the prompt comes before the environment.
SourcesPromptFirst ==
    IF input.source # "unset" THEN <<input.source>>
    ELSE IF input.given \in Phrase THEN <<"flag", "prompt", "env">> ELSE <<"prompt", "env">>

\* buildPasswordSource: the configured source alone, or the default chain.
Sources ==
    IF input.source # "unset" THEN <<input.source>>
    ELSE IF input.given \in Phrase THEN <<"flag", "env", "prompt">> ELSE <<"env", "prompt">>

\* password.source=flag without --pass.
SourceMissing == input.source = "flag" /\ input.given \notin Phrase

Chained == input.source = "unset"

At(s) == stage = s
Consulting(kind) == At("source") /\ Sources[pos] = kind

\* The source has a passphrase.
Yield(phrase) ==
    /\ stage' = "done"
    /\ pw' = phrase
    /\ UNCHANGED <<pos, fault>>

\* The source has failed: the chain goes on after ErrEmpty, and only then.
Refuse(e) ==
    /\ IF Chained /\ e = "empty" /\ pos < Len(Sources)
       THEN /\ stage' = "source"
            /\ pos' = pos + 1
            /\ UNCHANGED fault
       ELSE /\ stage' = "done"
            /\ fault' = e
            /\ UNCHANGED pos
    /\ UNCHANGED pw

\* FlagSource.Get and EnvSource.Get return a copy, and do not look at the context.
GetFlag ==
    /\ Consulting("flag")
    /\ Yield(input.given)
    /\ secrets' = secrets \cup {"pw"}
    /\ UNCHANGED <<input, attempt, first, second, lines, cancelled>>

GetEnv ==
    /\ Consulting("env")
    /\ IF input.env \in Phrase
       THEN Yield(input.env) /\ secrets' = secrets \cup {"pw"}
       ELSE Refuse("empty") /\ UNCHANGED secrets
    /\ UNCHANGED <<input, attempt, first, second, lines, cancelled>>

-------------------------------------------------------------------------------
(* Prompter.Get                                                            *)

GetPrompt ==
    /\ Consulting("prompt")
    /\ stage' = "ask"
    /\ UNCHANGED <<input, pos, attempt, first, second, pw, fault, secrets, lines, cancelled>>

\* Mutant: the loop goes round once more.
AskOnceMore ==
    /\ At("ask")
    /\ stage' = "line"
    /\ UNCHANGED <<input, pos, attempt, first, second, pw, fault, secrets, lines, cancelled>>

\* The top of the loop, the only place where the context is looked at.
Ask ==
    /\ At("ask")
    /\ \/ attempt = Attempts /\ Refuse("exhausted")
       \/ attempt < Attempts /\ cancelled /\ Refuse("cancelled")
       \/ /\ attempt < Attempts /\ ~cancelled
          /\ stage' = "line"
          /\ UNCHANGED <<pos, pw, fault>>
    /\ UNCHANGED <<input, attempt, first, second, secrets, lines, cancelled>>

\* Mutant: the line typed to confirm is left in memory.
WipeFirst == secrets \ {"first"}

\* Zero(pw) and Zero(confirm), of those that there are.
Wipe == secrets \ {"first", "confirm"}

Forget ==
    /\ first' = Nothing
    /\ second' = Nothing
    /\ secrets' = Wipe

\* Mutant: a line that is not accepted does not count.
AskAgainForFree ==
    /\ stage' = "ask"
    /\ Forget
    /\ UNCHANGED <<pos, attempt, pw, fault>>

\* What was typed is wiped, and the attempt is over.
AskAgain ==
    /\ stage' = "ask"
    /\ attempt' = attempt + 1
    /\ Forget
    /\ UNCHANGED <<pos, pw, fault>>

Typed(line) == lines' = IF lines = <<>> THEN <<line>> ELSE <<lines[Len(lines)], line>>

ReadLine ==
    /\ At("line")
    /\ \E line \in Phrase \cup {Blank} :
         /\ Typed(line)
         /\ \/ line = Blank /\ AskAgain
            \/ /\ line # Blank /\ input.confirm
               /\ stage' = "confirm"
               /\ first' = line
               /\ secrets' = secrets \cup {"first"}
               /\ UNCHANGED <<pos, attempt, second, pw, fault>>
            \/ /\ line # Blank /\ ~input.confirm
               /\ Yield(line)
               /\ secrets' = secrets \cup {"pw"}
               /\ UNCHANGED <<attempt, first, second>>
    /\ UNCHANGED <<input, cancelled>>

\* An empty second line is read like any other.
ReadConfirm ==
    /\ At("confirm")
    /\ \E line \in Phrase \cup {Blank} :
         /\ Typed(line)
         /\ second' = line
         /\ secrets' = IF line = Blank THEN secrets ELSE secrets \cup {"confirm"}
    /\ stage' = "compare"
    /\ UNCHANGED <<input, pos, attempt, first, pw, fault, cancelled>>

\* Mutant: an empty second line is taken for "yes".
MatchesOrBlank(line) == line \in {first, Blank}

\* bytes.Equal(pw, confirm)
Matches(line) == line = first

\* The lines differ, and both are wiped, or the second is, and the first is the
\* passphrase.
Compare ==
    /\ At("compare")
    /\ \/ ~Matches(second) /\ AskAgain
       \/ /\ Matches(second)
          /\ Yield(first)
          /\ first' = Nothing
          /\ second' = Nothing
          /\ secrets' = Wipe \cup {"pw"}
          /\ UNCHANGED attempt
    /\ UNCHANGED <<input, lines, cancelled>>

\* The input ends, or readLine fails in the middle of a line that it drops.
InputEnds ==
    /\ stage \in {"line", "confirm"}
    /\ \/ Refuse("eof") /\ secrets' = Wipe
       \/ Refuse("read") /\ secrets' \in {Wipe, Wipe \cup {"partial"}}
    /\ first' = Nothing
    /\ UNCHANGED <<input, attempt, second, lines, cancelled>>

-------------------------------------------------------------------------------
(* PassSource.Get and CommandSource.Get                                    *)

\* A child is not started when the context has ended.
StartChild ==
    /\ \/ Consulting("pass") \/ Consulting("command")
    /\ \/ cancelled /\ Refuse("exec")
       \/ /\ ~cancelled
          /\ stage' = "child"
          /\ UNCHANGED <<pos, pw, fault>>
    /\ UNCHANGED <<input, attempt, first, second, secrets, lines, cancelled>>

\* What the child wrote before it failed stays in the buffer of cmd.Output.
ChildFails == Refuse("exec") /\ secrets' \in {secrets, secrets \cup {"partial"}}

\* The child exits: with a passphrase (and the newlines at its end are cut off),
\* with nothing, or with a failure.
ChildExits ==
    /\ At("child")
    /\ \/ /\ \E phrase \in Phrase : Yield(phrase)
          /\ secrets' = secrets \cup {"pw"}
       \/ Refuse("empty") /\ UNCHANGED secrets
       \/ ChildFails
    /\ UNCHANGED <<input, attempt, first, second, lines, cancelled>>

\* exec.CommandContext kills the child when the context ends, which for a
\* command with a timeout it may do by itself.
ChildKilled ==
    /\ At("child")
    /\ cancelled \/ input.source = "command"
    /\ ChildFails
    /\ UNCHANGED <<input, attempt, first, second, lines, cancelled>>

-------------------------------------------------------------------------------

\* SIGINT or SIGTERM: what is being read goes on being read.
Interrupt ==
    /\ ~cancelled
    /\ cancelled' = TRUE
    /\ UNCHANGED <<input, stage, pos, attempt, first, second, pw, fault, secrets, lines>>

\* The steps the process takes of its own accord, and those it waits for.
OwnStep == GetFlag \/ GetEnv \/ GetPrompt \/ Ask \/ Compare \/ StartChild
Answer == ReadLine \/ ReadConfirm \/ InputEnds \/ ChildExits \/ ChildKilled

===============================================================================
