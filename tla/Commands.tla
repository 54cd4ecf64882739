-------------------------------- MODULE Commands -------------------------------
(***************************************************************************)
(* One run of pack, unpack or list from its configuration to its exit      *)
(* code: the order of the calls of runPack, runUnpack and runList, what    *)
(* each may fail with, the deferred wipes and exitCodeFor.  The calls of   *)
(* internal/store are single steps here (BlobClient has their inside), and *)
(* so is archive.Unpack (see Extract).                                     *)
(***************************************************************************)
EXTENDS Passphrase, Integers

VARIABLES
    command,   \* "pack", "unpack" or "list"
    step,      \* the index in Plan of the call the command is at
    deferred,  \* the buffers a deferred wipe is registered for
    cause,     \* history: what went wrong first, or "none"
    uploaded,  \* the phrase the uploaded snapshot is sealed with, or Nothing
    extracted, \* whether extraction has begun
    exit       \* the exit code, or Running

runVars == <<command, step, deferred, cause, uploaded, extracted, exit>>
vars == <<phraseVars, runVars>>

Running == -1

\* Mutant: the passphrase is asked for before the client is built.
PlanPromptsFirst ==
    [pack |-> <<"config", "scan", "archive", "source", "password", "client", "seal", "put">>,
     unpack |-> <<"config", "client", "pick", "get", "source", "password", "open", "extract">>,
     list |-> <<"config", "client", "pick">>]

Plan ==
    [pack |-> <<"config", "scan", "archive", "client", "source", "password", "seal", "put">>,
     unpack |-> <<"config", "client", "pick", "get", "source", "password", "open", "extract">>,
     list |-> <<"config", "client", "pick">>]

\* The errors that are not about the passphrase: wrapped in configError, or not.
ConfigCause == {"badConfig", "badLocation", "badSource", "badTime"}
RunCause == {"noFiles", "io", "crypto", "store", "noSnapshots", "decryption", "interrupted"}

TypeOK ==
    /\ PhraseTypeOK
    /\ command \in {"pack", "unpack", "list"}
    /\ step \in 1..(Len(Plan[command]) + 1)
    /\ deferred \subseteq Buffer
    /\ cause \in {"none"} \cup ConfigCause \cup RunCause \cup Fault
    /\ uploaded \in Phrase \cup {Nothing}
    /\ extracted \in BOOLEAN
    /\ exit \in {Running, 0, 1, 2}

Init ==
    /\ PhraseInit
    /\ command \in {"pack", "unpack", "list"}
    /\ input.confirm = (command = "pack")      \* buildPasswordSource(cfg, confirm)
    /\ command = "list" => input.given = Nothing  \* list has no --pass
    /\ step = 1
    /\ deferred = {}
    /\ cause = "none"
    /\ uploaded = Nothing
    /\ extracted = FALSE
    /\ exit = Running

-------------------------------------------------------------------------------

\* exitCodeFor; the wrapping on the way (%w) hides none of the sentinels.
ExitCodeFor(c) == IF c \in ConfigCause \cup {"exhausted"} THEN 2 ELSE 1

\* The command is at this call.
InCall(call) ==
    /\ exit = Running
    /\ step <= Len(Plan[command])
    /\ Plan[command][step] = call

Proceed ==
    /\ step' = step + 1
    /\ UNCHANGED <<cause, exit>>

\* The command returns, and the deferred functions run.
Finish(code) ==
    /\ exit' = code
    /\ secrets' = secrets \ deferred
    /\ UNCHANGED step

FailWith(c) ==
    /\ Finish(ExitCodeFor(c))
    /\ cause' = c

\* A call that changes nothing but the progress of the command.
Plain(call, causes) ==
    /\ InCall(call)
    /\ \/ Proceed /\ UNCHANGED secrets
       \/ \E c \in causes : FailWith(c)
    /\ UNCHANGED <<input, stage, pos, attempt, first, second, pw, fault, lines, cancelled,
                   command, deferred, uploaded, extracted>>

\* loadAndResolveConfig, the empty include list, --at with --object-key: Resolve
\* copies --pass into cfg.PasswordOverride, and can fail before and after.
Configure ==
    /\ InCall("config")
    /\ LET held == secrets \cup (IF input.given \in Phrase THEN {"override"} ELSE {}) IN
       \/ Proceed /\ secrets' = held
       \/ /\ exit' = ExitCodeFor("badConfig")
          /\ cause' = "badConfig"
          /\ secrets' \in {secrets, held}
          /\ UNCHANGED step
    /\ UNCHANGED <<input, stage, pos, attempt, first, second, pw, fault, lines, cancelled,
                   command, deferred, uploaded, extracted>>

Scan == Plain("scan", {"noFiles", "io"})
BuildClient == Plain("client", {"badLocation"})

\* KeyForName and Encrypt.
Seal == Plain("seal", {"crypto"})

\* Mutant: nobody wipes what the call returns.
HandOverUnguarded ==
    /\ Proceed
    /\ secrets' = secrets \cup {"plaintext"}
    /\ UNCHANGED deferred

\* A call has returned plaintext, and its wipe is registered.
HandOver ==
    /\ Proceed
    /\ secrets' = secrets \cup {"plaintext"}
    /\ deferred' = deferred \cup {"plaintext"}

\* When a file cannot be read, the contents of those before it are in the
\* writer's buffer, which nobody but buildArchive has.
BuildArchive ==
    /\ InCall("archive")
    /\ \/ HandOver
       \/ /\ exit' = ExitCodeFor("io")
          /\ cause' = "io"
          /\ \E held \in {secrets, secrets \cup {"writer"}} : secrets' = held \ deferred
          /\ UNCHANGED <<step, deferred>>
    /\ UNCHANGED <<input, stage, pos, attempt, first, second, pw, fault, lines, cancelled,
                   command, uploaded, extracted>>

\* Decrypt returns nothing of what it could not authenticate.
Open ==
    /\ InCall("open")
    /\ \/ HandOver
       \/ FailWith("decryption") /\ UNCHANGED deferred
    /\ UNCHANGED <<input, stage, pos, attempt, first, second, pw, fault, lines, cancelled,
                   command, uploaded, extracted>>

BuildSource ==
    /\ InCall("source")
    /\ IF SourceMissing
       THEN FailWith("badSource") /\ UNCHANGED stage
       ELSE Proceed /\ stage' = "source" /\ UNCHANGED secrets
    /\ UNCHANGED <<input, pos, attempt, first, second, pw, fault, lines, cancelled,
                   command, deferred, uploaded, extracted>>

\* A step of src.Get.
GetPassword ==
    /\ InCall("password")
    /\ OwnStep
    /\ UNCHANGED runVars

AwaitPassword ==
    /\ InCall("password")
    /\ Answer
    /\ UNCHANGED runVars

PasswordReturned ==
    /\ InCall("password")
    /\ At("done")
    /\ IF fault = "none"
       THEN Proceed /\ deferred' = deferred \cup {"pw"} /\ UNCHANGED secrets
       ELSE FailWith(fault) /\ UNCHANGED deferred
    /\ UNCHANGED <<input, stage, pos, attempt, first, second, pw, fault, lines, cancelled,
                   command, uploaded, extracted>>

\* pickKey, or List and the table: --object-key needs no request, and any
\* request fails once the context is cancelled.
PickKey ==
    /\ InCall("pick")
    /\ \/ (~cancelled \/ command = "unpack") /\ Proceed /\ UNCHANGED secrets
       \/ command = "unpack" /\ FailWith("badTime")
       \/ \E c \in {"store", "noSnapshots"} : FailWith(c)
       \/ cancelled /\ FailWith("interrupted")
    /\ UNCHANGED <<input, stage, pos, attempt, first, second, pw, fault, lines, cancelled,
                   command, deferred, uploaded, extracted>>

Get ==
    /\ InCall("get")
    /\ \/ ~cancelled /\ Proceed /\ UNCHANGED secrets
       \/ FailWith(IF cancelled THEN "interrupted" ELSE "store")
    /\ UNCHANGED <<input, stage, pos, attempt, first, second, pw, fault, lines, cancelled,
                   command, deferred, uploaded, extracted>>

\* A failed upload may have been stored all the same (see BlobClient).
Put ==
    /\ InCall("put")
    /\ \/ cancelled /\ FailWith("interrupted") /\ UNCHANGED uploaded
       \/ /\ ~cancelled
          /\ \/ Proceed /\ uploaded' = pw /\ UNCHANGED secrets
             \/ uploaded' \in {Nothing, pw} /\ FailWith("store")
    /\ UNCHANGED <<input, stage, pos, attempt, first, second, pw, fault, lines, cancelled,
                   command, deferred, extracted>>

\* archive.Unpack knows no context.
Extract ==
    /\ InCall("extract")
    /\ extracted' = TRUE
    /\ \/ Proceed /\ UNCHANGED secrets
       \/ FailWith("io")
    /\ UNCHANGED <<input, stage, pos, attempt, first, second, pw, fault, lines, cancelled,
                   command, deferred, uploaded>>

Succeed ==
    /\ exit = Running
    /\ step = Len(Plan[command]) + 1
    /\ Finish(0)
    /\ UNCHANGED <<input, stage, pos, attempt, first, second, pw, fault, lines, cancelled,
                   command, deferred, cause, uploaded, extracted>>

-------------------------------------------------------------------------------

Work ==
    \/ Configure \/ Scan \/ BuildArchive \/ BuildClient \/ BuildSource \/ GetPassword
    \/ PasswordReturned \/ Seal \/ Put \/ PickKey \/ Get \/ Open \/ Extract \/ Succeed

Signal ==
    /\ exit = Running
    /\ Interrupt
    /\ UNCHANGED runVars

Next == Work \/ AwaitPassword \/ Signal

Spec == Init /\ [][Next]_vars

\* The process is scheduled, and calls return.  The user answers the prompt, or
\* closes the input; "pass" and the user's command, killed or not, close their
\* output, for which exec.Cmd.Output waits.
FairSpec == Spec /\ WF_vars(Work) /\ WF_vars(AwaitPassword)

-------------------------------------------------------------------------------
(* Properties                                                              *)

\* Whatever was interrupted, mistyped or tried again, a pack that asked its user
\* seals with what was typed twice in a row, at the end.
Prompted == lines # <<>>
SealedAsTyped ==
    /\ uploaded # Nothing => uploaded = pw /\ pw \in Phrase
    /\ uploaded # Nothing /\ Prompted => lines = <<pw, pw>>

\* The user is asked only if no source before the prompt in the chain has a
\* passphrase to give.
SourcesInOrder ==
    stage \in {"ask", "line", "confirm", "compare"} =>
        \/ input.source = "prompt"
        \/ Chained /\ input.given \notin Phrase /\ input.env \notin Phrase

\* The call the command has failed in.
FailedIn(call) ==
    cause # "none" /\ step <= Len(Plan[command]) /\ Plan[command][step] = call

\* Every secret that one call has handed to the next is wiped when the process
\* exits, whichever call fails after it.  What may be left is the copy of --pass in
\* the configuration, and what the very call that failed had taken in and did not
\* return: the files already archived, part of a line, part of a child's output.
SecretsWiped ==
    exit # Running =>
        secrets \subseteq
            {"override"}
            \cup (IF FailedIn("archive") THEN {"writer"} ELSE {})
            \cup (IF FailedIn("password") /\ fault \in {"read", "exec"} THEN {"partial"} ELSE {})

\* Why: what the prompt has read belongs to its last attempt, a buffer is secret
\* only where somebody is bound to wipe it or nobody can any more, and past the
\* call to Get (the sixth of pack and of unpack) there is a passphrase.
PromptInv ==
    /\ stage = "confirm" =>
          input.confirm /\ first \in Phrase /\ lines # <<>> /\ lines[Len(lines)] = first
    /\ stage = "compare" => input.confirm /\ first \in Phrase /\ lines = <<first, second>>
    /\ stage \in {"line", "confirm", "compare"} => attempt < Attempts
    /\ lines # <<>> => stage \in {"ask", "line", "confirm", "compare", "done"}
    /\ "first" \in secrets => stage \in {"confirm", "compare"}
    /\ "confirm" \in secrets => stage = "compare"
    /\ "partial" \in secrets => stage = "done" /\ fault \in {"read", "exec"}
    /\ pos <= Len(Sources)
    /\ stage # "done" => pw = Nothing /\ fault = "none"
    /\ stage = "done" => (fault = "none") = (pw # Nothing)
    /\ "pw" \in secrets => pw # Nothing
    /\ pw # Nothing /\ lines # <<>> /\ input.confirm => lines = <<pw, pw>>

RunInv ==
    /\ input.confirm = (command = "pack")
    /\ "plaintext" \in secrets => "plaintext" \in deferred
    /\ "writer" \in secrets => exit # Running /\ FailedIn("archive")
    /\ "partial" \in secrets /\ exit # Running => FailedIn("password")
    /\ exit = Running =>
          /\ step = 1 => secrets = {}
          /\ step <= 5 => stage = "idle"
          /\ step = 6 => stage # "idle" /\ ~SourceMissing
          /\ step > 6 => stage = "done" /\ fault = "none" /\ "pw" \in deferred
    /\ uploaded # Nothing => uploaded = pw /\ command = "pack"

SecretInv == PromptInv /\ RunInv

\* config.go:60-62 on PasswordOverride: "Wiped after use by callers."  The use is
\* FlagSource.Get, which has returned a copy of it here.
OverrideUsed == stage = "done" /\ fault = "none" /\ Sources[pos] = "flag"
OverrideWiped == exit # Running /\ OverrideUsed => "override" \notin secrets

\* pack.go:69-75: a configuration error is reported before anybody is asked for
\* a passphrase; exit code 2 after that means that the prompt has given up.
ConfigErrorsComeFirst ==
    exit = 2 => stage = "idle" \/ (fault = "exhausted" /\ attempt = Attempts)

\* source.go:19-20: Get "must honour ctx cancellation": a prompt that is reading
\* when the context is cancelled returns no passphrase.
CancelledPromptYieldsNothing ==
    [][cancelled /\ stage \in {"line", "confirm", "compare"} => pw' = pw]_vars

\* Every command ends: the prompt gives up after Attempts lines that it cannot
\* accept, and no source is asked twice.
Termination == <>(exit # Running)

===============================================================================
