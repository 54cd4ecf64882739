------------------------------ MODULE BlobClient ------------------------------
(***************************************************************************)
(* internal/store: Put, Get and List of BlobClient, each a retry loop      *)
(* around one request (List: around a sequence of page requests), run by a *)
(* number of confkoffer processes against one bucket.                      *)
(*                                                                         *)
(* A call of process c goes through                                        *)
(*                                                                         *)
(*    ready -> await -> returned       the operation answered              *)
(*               ^ |                                                       *)
(*               | v                                                       *)
(*              sleep                  transient error, attempts left      *)
(*                                                                         *)
(* "ready" is before the first attempt, "await" is op(ctx) in progress and *)
(* "sleep" is the wait between two attempts; the ctx.Err() test at the top *)
(* of withRetry's loop is on the way to "await".  A Put sends its requests *)
(* from "await", one or, when the SDK retries underneath, several: a       *)
(* signal may come between the test and the first of them.  What the       *)
(* process does between two calls is in Snapshots.                         *)
(***************************************************************************)
EXTENDS Bucket, SequencesExt

CONSTANTS
    Client,     \* the running confkoffer processes
    Name,       \* Name[c]: the project name of c, a sequence of characters
    Payload,    \* Payload[c]: the ciphertext c uploads if it is a pack
    Oversized,  \* the bodies longer than MaxBlobSize
    Waits,      \* length of the backoff schedule (DefaultBackoff has 3 waits)
    Requests,   \* the most uploads the SDK sends for one attempt (s3blob: 3)
    Faults,     \* Faults[c]: the errors the backend may answer c with
    NoKey, NoBody

VARIABLES
    op,         \* op[c]: "none", "put", "list" or "get"
    target,     \* target[c]: the key op[c] is about
    pc,         \* pc[c]: where c is in the call
    attempt,    \* attempt[c]: withRetry's loop variable
    err,        \* err[c]: the last error, or "ok"
    cancelled,  \* cancelled[c]: c has received SIGINT or SIGTERM
    applied,    \* applied[c]: the current attempt's upload reached the store
    sends,      \* sends[c]: uploads the current attempt has sent
    flight,     \* uploads sent, and neither stored nor lost yet
    listed,     \* listed[c]: List's local slice "objects"
    cursor,     \* cursor[c]: the last key the listing was served
    got,        \* got[c]: Get's local "out"
    views       \* history: what the bucket held during c's listing attempt

clientVars == <<op, target, pc, attempt, err, cancelled, applied, sends,
                flight, listed, cursor, got, views>>

\* The character "/" is the smallest code: in a key it is followed by letters
\* and digits, all of which sort after it.
Slash == 0

TransientCode == {"Internal", "ResourceExhausted", "Unknown"}
DefinitiveCode == {"NotFound", "PermissionDenied", "InvalidArgument",
                   "FailedPrecondition", "AlreadyExists", "Unimplemented"}
Error == TransientCode \cup DefinitiveCode
            \cup {"Canceled", "TooLarge", "OpenFailed", "NoSnapshots"}

Request == [from : Client, try : 0..Waits, nth : 1..Requests, key : Key, body : Body]

ASSUME ClientAssumption ==
    /\ Name \in [Client -> Seq(Nat) \ {<<>>}]
    /\ Payload \in [Client -> Body]
    /\ Oversized \subseteq Body
    /\ Waits \in Nat
    /\ Requests \in Nat \ {0}
    /\ Faults \in [Client -> SUBSET (TransientCode \cup DefinitiveCode \cup {"OpenFailed"})]
    /\ NoKey \notin Key
    /\ NoBody \notin Body

ClientTypeOK ==
    /\ BucketTypeOK
    /\ op \in [Client -> {"none", "put", "list", "get"}]
    /\ target \in [Client -> Key \cup {NoKey}]
    /\ pc \in [Client -> {"idle", "ready", "await", "sleep", "returned", "gone"}]
    /\ attempt \in [Client -> 0..Waits]
    /\ err \in [Client -> Error \cup {"ok"}]
    /\ cancelled \in [Client -> BOOLEAN]
    /\ applied \in [Client -> BOOLEAN]
    /\ sends \in [Client -> 0..Requests]
    /\ flight \subseteq Request
    /\ listed \in [Client -> SUBSET Entry]
    /\ cursor \in [Client -> Key \cup {<<>>}]
    /\ got \in [Client -> Body \cup {NoBody}]
    /\ views \in [Client -> SUBSET SUBSET Entry]
    /\ \A c \in Client : /\ pc[c] = "sleep" => attempt[c] < Waits
                         /\ op[c] \in {"put", "get"} => target[c] \in Key

ClientInit ==
    /\ BucketInit
    /\ op = [c \in Client |-> "none"]
    /\ target = [c \in Client |-> NoKey]
    /\ pc = [c \in Client |-> "idle"]
    /\ attempt = [c \in Client |-> 0]
    /\ err = [c \in Client |-> "ok"]
    /\ cancelled = [c \in Client |-> FALSE]
    /\ applied = [c \in Client |-> FALSE]
    /\ sends = [c \in Client |-> 0]
    /\ flight = {}
    /\ listed = [c \in Client |-> {}]
    /\ cursor = [c \in Client |-> <<>>]
    /\ got = [c \in Client |-> NoBody]
    /\ views = [c \in Client |-> {}]

-------------------------------------------------------------------------------
(* The retry loop.                                                         *)

\* Mutant: every answer but the two it knows is worth a retry.
IsTransientByDefault(e) == e \notin {"Canceled", "TooLarge"}

\* Mutant: what gocloud cannot classify is taken for a final answer.
IsTransientIfKnown(e) == e \in TransientCode \ {"Unknown"}

\* Anything gocloud cannot classify ("Unknown") is taken for a network flake.
IsTransient(e) == e \in TransientCode

Return(c, e) ==
    /\ pc' = [pc EXCEPT ![c] = "returned"]
    /\ err' = [err EXCEPT ![c] = e]

\* Mutant: one attempt too many.
AttemptsLeftOffByOne(c) == attempt[c] <= Waits

AttemptsLeft(c) == attempt[c] < Waits

\* Mutant: the loop runs out and the last error is dropped.
FailSwallowed(c, e) ==
    IF IsTransient(e)
    THEN IF AttemptsLeft(c) THEN pc' = [pc EXCEPT ![c] = "sleep"] /\ UNCHANGED err
                            ELSE Return(c, "ok")
    ELSE Return(c, e)

\* op returned the error e.  lastErr is read only after the last attempt.
Fail(c, e) ==
    IF IsTransient(e) /\ AttemptsLeft(c)
    THEN pc' = [pc EXCEPT ![c] = "sleep"] /\ UNCHANGED err
    ELSE Return(c, e)

\* withBucket: opening the bucket is outside the loop, and not retried.
Open(c, o, k) ==
    /\ op' = [op EXCEPT ![c] = o]
    /\ target' = [target EXCEPT ![c] = k]
    /\ attempt' = [attempt EXCEPT ![c] = 0]
    /\ \/ pc' = [pc EXCEPT ![c] = "ready"] /\ UNCHANGED err
       \/ "OpenFailed" \in Faults[c] /\ Return(c, "OpenFailed")

\* Mutant: the loop never advances.
NextAttemptStuck(c) == attempt[c]

\* The loop variable of the attempt that is about to begin: the wait is over
\* (nothing interrupts it), or there was none before the first attempt.
NextAttempt(c) == IF pc[c] = "sleep" THEN attempt[c] + 1 ELSE attempt[c]

ContextDone(c) == cancelled[c]

\* Mutant: a retry appends to what the failed attempt had collected.
ListFromKept(c) ==
    /\ cursor' = [cursor EXCEPT ![c] = <<>>]
    /\ UNCHANGED listed

\* Mutant: the iterator outlives the attempt that failed.
ListFromMiddle(c) ==
    /\ listed' = [listed EXCEPT ![c] = {}]
    /\ UNCHANGED cursor

\* Every attempt of List starts an empty slice and a new iterator.
ListFromStart(c) ==
    /\ listed' = [listed EXCEPT ![c] = {}]
    /\ cursor' = [cursor EXCEPT ![c] = <<>>]

\* The top of the loop: ctx.Err(), then op(ctx) begins.
Attempt(c) ==
    /\ pc[c] \in {"ready", "sleep"}
    /\ attempt' = [attempt EXCEPT ![c] = NextAttempt(c)]
    /\ \/ /\ ContextDone(c)
          /\ Return(c, "Canceled")
          /\ UNCHANGED <<applied, sends, listed, cursor, views>>
       \/ /\ ~ContextDone(c)
          /\ pc' = [pc EXCEPT ![c] = "await"]
          /\ applied' = [applied EXCEPT ![c] = FALSE]
          /\ sends' = [sends EXCEPT ![c] = 0]
          /\ ListFromStart(c)
          /\ views' = [views EXCEPT ![c] = IF op[c] = "list" THEN {Contents} ELSE {}]
          /\ UNCHANGED err
    /\ UNCHANGED <<bucketVars, op, target, cancelled, flight, got>>

\* The next upload of the current attempt.
Upload(c) ==
    [from |-> c, try |-> attempt[c], nth |-> sends[c] + 1,
     key |-> target[c], body |-> Payload[c]]

\* op(ctx) sends the upload; the SDK may send it again while nothing has come
\* back, or an error did.  Neither looks at the context first.
Send(c) ==
    /\ pc[c] = "await"
    /\ op[c] = "put"
    /\ sends[c] < Requests
    /\ sends' = [sends EXCEPT ![c] = @ + 1]
    /\ flight' = flight \cup {Upload(c)}
    /\ UNCHANGED <<bucketVars, op, target, pc, attempt, err, cancelled, applied,
                   listed, cursor, got, views>>

\* The backend or the network fails the request, or the SDK notices the
\* cancelled context.  An upload that was sent may still be stored later.
Fault(c) ==
    /\ pc[c] = "await"
    /\ \/ \E e \in Faults[c] \ {"OpenFailed"} : Fail(c, e)
       \/ cancelled[c] /\ Fail(c, "Canceled")
    /\ UNCHANGED <<bucketVars, op, target, attempt, cancelled, applied, sends,
                   flight, listed, cursor, got, views>>

-------------------------------------------------------------------------------
(* The three operations.                                                   *)

\* Every change of the bucket is seen by the listings in progress.
Observe ==
    views' = [c \in Client |-> IF pc[c] = "await" /\ op[c] = "list"
                               THEN views[c] \cup {Contents'} ELSE views[c]]

\* The store applies an upload, maybe long after its sender gave it up.
Land(q) ==
    /\ q \in flight
    /\ Store(q.key, q.body)
    /\ flight' = flight \ {q}
    /\ applied' = [applied EXCEPT ![q.from] =
                     @ \/ (pc[q.from] = "await" /\ attempt[q.from] = q.try)]
    /\ Observe
    /\ UNCHANGED <<clock, op, target, pc, attempt, err, cancelled, sends, listed,
                   cursor, got>>

ObjectExpires(k) ==
    /\ Expire(k)
    /\ Observe
    /\ UNCHANGED <<op, target, pc, attempt, err, cancelled, applied, sends, flight,
                   listed, cursor, got>>

\* WriteAll returned nil.
PutOk(c) ==
    /\ pc[c] = "await"
    /\ op[c] = "put"
    /\ applied[c]
    /\ Return(c, "ok")
    /\ UNCHANGED <<bucketVars, op, target, attempt, cancelled, applied, sends,
                   flight, listed, cursor, got, views>>

\* The length, after reading one byte past MaxBlobSize at most.
Fits(b) == b \notin Oversized

\* The object was opened, read up to the cap and its length compared with it.
GetAnswer(c) ==
    /\ pc[c] = "await"
    /\ op[c] = "get"
    /\ LET k == target[c] IN
         \/ /\ ~Stored(k)
            /\ Fail(c, "NotFound")
            /\ UNCHANGED got
         \/ /\ Stored(k)
            /\ ~Fits(objects[k].body)
            /\ Fail(c, "TooLarge")
            /\ UNCHANGED got
         \/ /\ Stored(k)
            /\ Fits(objects[k].body)
            /\ got' = [got EXCEPT ![c] = objects[k].body]
            /\ Return(c, "ok")
    /\ UNCHANGED <<bucketVars, op, target, attempt, cancelled, applied, sends,
                   flight, listed, cursor, views>>

\* The prefix List hands to the driver.
ListPrefix(name) == IF Last(name) = Slash THEN name ELSE Append(name, Slash)

\* A directory placeholder, which some consoles and tools create.
Placeholder(k) == Last(k) = Slash

\* The keys a listing has still to be served.
Remaining(c) ==
    {k \in Key : Stored(k) /\ IsPrefix(ListPrefix(Name[c]), k) /\ KeyLess(cursor[c], k)}

Listing(keys) == {EntryOf(k) : k \in {k \in keys : ~Placeholder(k)}}

\* One page of the listing, of any size: the remaining keys up to hi.
ListPage(c) ==
    /\ pc[c] = "await"
    /\ op[c] = "list"
    /\ \E hi \in Remaining(c) :
         LET page == {k \in Remaining(c) : ~KeyLess(hi, k)} IN
         /\ page # Remaining(c)
         /\ listed' = [listed EXCEPT ![c] = @ \cup Listing(page)]
         /\ cursor' = [cursor EXCEPT ![c] = hi]
    /\ UNCHANGED <<bucketVars, op, target, pc, attempt, err, cancelled, applied,
                   sends, flight, got, views>>

\* Mutant: the listing stops short of the last page.
LastPageDropped(c) == IF listed[c] = {} THEN Remaining(c) ELSE {}

\* The keys of the last page.
LastPage(c) == Remaining(c)

\* The last page: io.EOF ends the attempt, and an empty result is an error.
ListEnd(c) ==
    /\ pc[c] = "await"
    /\ op[c] = "list"
    /\ LET all == listed[c] \cup Listing(LastPage(c)) IN
         /\ listed' = [listed EXCEPT ![c] = all]
         /\ Return(c, IF all = {} THEN "NoSnapshots" ELSE "ok")
    /\ UNCHANGED <<bucketVars, op, target, attempt, cancelled, applied, sends,
                   flight, cursor, got, views>>

-------------------------------------------------------------------------------
(* What happens to the process from outside.                               *)

\* SIGINT or SIGTERM cancels the context, and does nothing else.
Cancel(c) ==
    /\ ~cancelled[c]
    /\ cancelled' = [cancelled EXCEPT ![c] = TRUE]
    /\ UNCHANGED <<bucketVars, op, target, pc, attempt, err, applied, sends, flight,
                   listed, cursor, got, views>>

\* The process ends; its variables go with it, uploads it sent stay sent.
Leave(c) ==
    /\ pc' = [pc EXCEPT ![c] = "gone"]
    /\ op' = [op EXCEPT ![c] = "none"]
    /\ attempt' = [attempt EXCEPT ![c] = 0]
    /\ err' = [err EXCEPT ![c] = "ok"]
    /\ cancelled' = [cancelled EXCEPT ![c] = FALSE]
    /\ applied' = [applied EXCEPT ![c] = FALSE]
    /\ sends' = [sends EXCEPT ![c] = 0]
    /\ listed' = [listed EXCEPT ![c] = {}]
    /\ cursor' = [cursor EXCEPT ![c] = <<>>]
    /\ views' = [views EXCEPT ![c] = {}]
    /\ UNCHANGED <<bucketVars, target, flight, got>>

ClockTicks ==
    /\ Tick
    /\ UNCHANGED clientVars

\* The steps of c's call that nobody else takes.
ClientStep(c) ==
    \/ Attempt(c) \/ Send(c) \/ Fault(c) \/ PutOk(c)
    \/ GetAnswer(c) \/ ListPage(c) \/ ListEnd(c)

Environment ==
    \/ ClockTicks
    \/ \E q \in flight : Land(q)
    \/ \E k \in Key : ObjectExpires(k)

===============================================================================
