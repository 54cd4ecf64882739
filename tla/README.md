# confkoffer in TLA+

confkoffer packs the configuration files of a project into a zip archive, encrypts
it under a passphrase and uploads it as one object `<name>/<time>-<rand4>` to an
object store; `unpack` finds a snapshot, downloads, decrypts and extracts it, and
`list` shows what there is. These modules model the parts of the program that keep
state over several steps, or that several processes go through at once: the scan
and the archive, the encryption, the store client, the selection of a snapshot, the
extraction, the passphrase, the commands from their configuration to their exit
code, and the location they use.

## The system

| part | source | state | operations | hard because |
|---|---|---|---|---|
| store client | `internal/store/{blob,retry}.go` | per call: attempt, last error, `objects`, the iterator, `out` | `Put`, `Get`, `List`, each inside `withRetry` | transient errors, lost answers, uploads that land late, cancellation during a wait, pages read while the bucket changes |
| keys and order | `key.go`, `PickAt`, `sortByLastModifiedDesc` | none | `KeyForName`, sort, `PickAt` | two clocks, equal times, equal keys |
| pack, unpack, list | `internal/cli` | the call they are at, deferred wipes, the signal context | `runPack`, `runUnpack`, `runList`, `Execute`, `exitCodeFor` | every call can fail, every way out must wipe, selection and download are two requests |
| passphrase | `internal/password`, `cli/password.go` | position in the chain, attempt, lines read | `Chain.Get`, the `Get` of five sources | retries, confirmation, cancellation, children that hang |
| extraction | `internal/archive/zip.go` | the output directory, the temporary file, the position in the archive | `Unpack`, `writeFile` | any system call fails, kills, damaged entries, other programs in the directory |
| archive writing | `zip.go` (`Writer`), `cli/pack.go` (`buildArchive`) | buffer, position in the selection | `Add`, `Bytes` | files change between the scan and the read; names must survive the way back |
| configuration | `internal/config`, `store/url.go`, `validateUrl` | `cfg`, normalised in place | `Load`, `Resolve`, `New`, `bucketURL` | four layers of precedence, a Boolean that is inverted on the way |
| scan | `internal/scan` | the walk, the selection | `Walk`, `compileAll`, `expandDoubleStar` | directories change while they are walked; patterns are cut up by offset |
| crypto | `internal/crypto` | none | `Encrypt`, `Decrypt`, `Validate` | a header is used before it is authenticated; blocks change between runs |
| init, version, logging, main | | none | | |

Processes do not talk to each other. They meet in the bucket (packs and unpacks of
one project, a retention rule, other tools) and in the output directory (two
unpacks, editors). Inside one process everything is sequential; what runs beside it
is the backend, the user, a child process, and the signal that cancels the context.

What makes each part correct: a pack that reports success has stored its snapshot,
whole; a snapshot holds the files the patterns mean, as they were, and gives them
back; a default unpack restores the newest snapshot there was; an extraction never
leaves a torn file; a damaged snapshot or a wrong passphrase is an error and nothing
else; what is sealed is what the user typed twice, and a secret that one call hands to
the next is wiped whichever call fails; the location used is the one the operator stated, over TLS unless
stated otherwise; and every command ends.

## Modules

| module | models | built on |
|---|---|---|
| `Bucket` | external: the object store as `internal/store` relies on it | |
| `BlobClient` | `withRetry`, `Put`, `Get`, `List` of any number of processes | `Bucket` |
| `Snapshots` | `runPack`, `runUnpack`, `runList` and `pickKey` as far as they use the store; signals, kills | `BlobClient` |
| `AtomicExtract` | the promise of `archive.Unpack`: every file in one step | |
| `Extract` | `Unpack` and `writeFile`, system call by system call | refines `AtomicExtract` |
| `Passphrase` | `buildPasswordSource`, `Chain.Get`, every source | |
| `Commands` | the calls of the three commands, their errors, wipes and exit codes | `Passphrase` |
| `Location` | `Resolve`, `New`/`validateUrl`, `bucketURL` | |
| `Names` | `sanitizeArchivePath`, `pathIsContained`, `path.Clean` and the order of names | |
| `Patterns` | `compileAll`, `expandDoubleStar`, `doubleStarDirs`, `matchAny`, and the documented meaning of a pattern | `Names` |
| `Gather` | `scan.Walk`, then `buildArchive` with `Writer`, beside other programs | `Patterns` |
| `Seal` | `Encrypt`, `Decrypt`, `UnmarshalHeader`, `Validate` and the defaults of the Argon2id block, over ideal ciphers | |
| `RoundTrip` | one pack, decay in the store, and unpacks that may break off, with their own blocks and passphrases | `Gather`, `Seal` |
| `MC...` | instances for TLC | the module after `MC` |
| `SnapshotsProofs`, `ExtractProofs`, `CommandsProofs`, `LocationProofs` | theorems | the module before `Proofs` |
| `NamesProofs`, `PatternsProofs`, `GatherProofs`, `RoundTripProofs` | theorems, each on those of the one before | the module before `Proofs` |

Operators whose comment begins with "Mutant:" are deliberate mistakes that stand
next to the definition they distort. No specification uses them: each shows that a
property notices the mistake.

### Bucket, BlobClient, Snapshots

`objects` and `clock` are the bucket. A write is atomic and stamped with the
server's clock, which ticks seldom: two writes between ticks have equal
`LastModified`. Keys are sequences of character codes, because the code relies on
their order and on prefixes: `/` is the smallest character a key can have after a
name. `Expire` is a lifecycle rule or an operator with another tool.

A call goes through `ready`, `await`, `sleep` and `returned`. `Attempt` is the top of
the loop with its test of the context, up to the start of `op`. `Send` is the request of
a `Put`, a step of its own that looks at no context: a signal may come between the test
and the request, and the SDK, which retries underneath (`retry.go:17-20`), may send it up
to `Requests` times in one attempt. An answer is an action (`PutOk`, `GetAnswer`,
`ListPage`, `ListEnd`) or `Fault`, with the errors that `Faults[c]` allows; `Fail` is
what the loop does with it, by the classes of `isTransient`. An upload is put in
`flight` when it is sent and may `Land` at any later time: before the answer, after
an answer that was lost, after the retry, after the process has gone. A landing
upload is stamped with the time of its landing. `List` keeps its slice (`listed`) and
its iterator (`cursor`) as the code does, page by page, for pages of any size.

`Snapshots` has the steps between calls: `PackUpload` draws the key, from the packing
machine's clock and four hex digits; `UnpackPick` sorts and chooses, and opens the
bucket for `Get`; `ask[u]` is what the user of `u` asked for (newest, `--at`,
`--object-key`, or `list`). `views` is a history variable: the contents the bucket
had during the current listing attempt. It lets the properties speak of "there all
along" and "at one instant".

### AtomicExtract, Extract

`disk` is the output directory, shared by all processes; `temp[p]` is the temporary
file of `p`; `done[p]` the position in the archive. `pc[p]` names the next system
call of `Unpack` or `writeFile`, with `unwind` for the deferred cleanup. Every call
has its failing alternative. The content of the temporary file counts as `Torn` until
`Close` has succeeded. `Kill` runs no deferred function. `Edit` is another program.

`Extract` implements `AtomicExtract` under the mapping that hides the temporary files
and folds `pc` into a status: an entry is put in place by one step (`Rename`),
whatever happened before it.

### Passphrase, Commands

`stage` is where `Get` is: the chain (`pos`), the top of the prompt's loop, waiting for
a line, for its confirmation or for a child, or comparing the two lines. Lines are
passphrases or `Blank`. `secrets` is the set of buffers that hold secret bytes: the
prompt's two lines (`first`, `confirm`), what a read or a child had delivered before it
failed (`partial`), the result of `Get` (`pw`), what the archive writer had taken in
before a later file failed (`writer`), the plaintext, and the `--pass` bytes in the
configuration (`override`). Nobody wipes `partial` and `writer`: the call that filled them
has returned an error and no buffer, and `defer wipe` comes after it.
`Commands` has the list of calls of each command (`Plan`); each call proceeds, or
fails with a cause, upon which the deferred wipes run and `exitCodeFor` decides.
`Interrupt` may come at any time and only sets `cancelled`, since
`signal.NotifyContext` takes the signal away from the process. `lines` and `cause` are
histories.

### Location

An endpoint is a scheme and a host, each possibly missing; a location of another
provider is its form and whether a scheme is written before it. `Resolve`, `New` and
`OpenBucket` are the three places where the configuration is changed or read.

### Names, Patterns, Gather

`tree` is the source directory: at every place a file, a link, a directory, a special
file or nothing. `todo` is what `WalkDir` has still to visit, with the types that the
directory entries had when their directory was read; `Select` asks for the mode again
(`d.Info()`), so it can fail, or see something else. `WalkEnd` sorts, by the insertion
sort of `sortMatches` (`Inserted` is its inner loop, `SortedMatches` the outer); `AddFile` opens
the next selected path, follows what is there by then, and adds it under the name that
`sanitizeArchivePath` makes. `Edit` is another program, at any step; `versions` records
what has been at each place.

Names and patterns are sequences of characters here, because the code cuts them up by
offset. The matcher (`github.com/gobwas/glob`, external) matches a pattern unit by unit
(`Units`, `MatchesUnits`). It knows no `**/` that matches zero directories, for which
`expandDoubleStar` compiles every variant of the pattern with some of these segments
cut out (`Expanded`). What the code computes by walking along a pattern (`Units`,
`Dirs`, `Cut`) is a function over the positions of the pattern that is defined from its
end (`UnitsFrom`, `DirsFrom`, `CutFrom`): a form that can be reasoned about. `Means` is
the reference: the same pattern with a unit of its own for "zero or more directories",
as `README.md:509-514` describes it.

### Seal, RoundTrip

A sealed box remembers its key, header and text. It opens with the same passphrase,
salt, parameters and header, and only if it is intact: that is what AEAD and Argon2id
promise. `Damaged` gives what a blob may become: cut short, with a header changed in
any field, or with its ciphertext altered. `Decrypt` goes through the checks of
`crypto.Decrypt` in their order; `Derivable` is what Argon2id does not panic on, and
`Ram` what the machine has.

A `RoundTrip` is one source directory and its snapshot. `Configure` reads the Argon2id
block and decides; `Gather` is the whole of module `Gather`; `Encrypt` seals; `Damage`
alters the blob at most once; `UnpackBegin` starts a run with a block, a passphrase and
`--overwrite` of its own, after the pack or after a run that broke off; `Decrypt` and
the steps of `Unpack` follow. An entry takes two: `BeginEntry` is `Lstat` and `MkdirAll`,
`PlaceEntry` the rename, which replaces whatever file is there by then (`Extract` has what
is between them). A run may stop before each. The output directory has parents, may hold
files and directories from before, and `Appear` is another program that puts something
where nothing is, between any two steps; `others` is the history of what was there in the
beginning and what was put there so. The directories over one file are made in one step.

## What TLC checks

| run | question | bounds |
|---|---|---|
| `read` | `TypeOK`, `ListingInv`, `NothingNewerMissed`, `PickedFromTheBucket`, `PickedWasNewest` | two packs, one reader (default or `--at`), 3 clock values, one retry, every page size; an old snapshot, a placeholder, a sibling project's and a nested project's snapshot are there from the beginning; two keys may be deleted |
| `ends` | `WaitsOnlyForFlakes`, `RestoredIsPicked`, `Termination` | one pack with transient and definitive errors, one reader that lists, takes the newest (the old snapshot or the pack's) or names the key of an oversized object, and meets definitive errors; both may be cancelled and killed; two keys may be deleted |
| `packs` | `SuccessIsStored`, `FlakesAreWaitedOut` | two packs, one retry, two requests for an attempt; transient errors for both; one of them also meets definitive errors and may be cancelled or killed |
| `two` | `TypeOK`, `NeverTorn`, `NoLitter`, `TempInv`, `PutOrReported`, `ImplementsAtomicExtract`, `KeptWhenAlone`, `Termination` | two extractions of archives with good, special, unsafe and damaged entries and a name that comes twice, one with `--overwrite`; an editor on one path, and one path that `Lstat` cannot read |
| `race` | see below | one extraction without `--overwrite`, with an editor |
| `commands` | `TypeOK`, `SealedAsTyped`, `SourcesInOrder`, `SecretsWiped`, `SecretInv`, `ConfigErrorsComeFirst`, `Termination` | two passphrases, the three attempts of the code, every source and command |
| `prompt`, `override` | see below | as `commands` |
| `location` | `TypeOK`, `OpensWhatWasNamed`, `NeverDowngraded`, `AwsOnlyIfNamed` | 45 675 combinations of flag, variable and key |
| `gather` | `GatherTypeOK`, `UntouchedArePacked`, `OnlySelectedArePacked`, `ArchivedInOrder` | a tree of nine places with a link and a device; every pattern of up to five of the characters `* / \ [ ] b`, and eleven longer ones with several `**/` segments, classes and escapes; or one exclude and two changes at any step |
| `roundtrip` | `TypeOK`, `RestoredAsPacked`, `StaysReadable`, `NeverCrashes`, `FailuresLookAlike`, `RefusesOnlyThese`, `SealedAsConfigured` | 14 odd names in pairs (dots, backslashes, files that are a directory of another); an occupied output directory and three unpacks; another program that puts a file or a directory there, twice, beside two unpacks; eight Argon2id blocks, partial and misspelt ones included, two passphrases, one damage and two unpacks |
| `dotdot` | see below | as `roundtrip` |

Why these bounds are enough to be interesting: two packs are needed for a snapshot to
appear before and behind the cursor of a listing, and p2's clock is a second slow so
that the order of keys and of times disagree; with one retry there is a second
attempt that must not see the first one's slice or cursor; one retry, with two requests in each attempt (`packs`), lets a
first upload land after a second, of the same attempt or of the next; three clock values give equal, older and newer
times. Two passphrases are enough to mistype, and three attempts are what
`NewDefaultPrompter` has. The schedule of the code has three waits; the loop treats
each the same, and the theorems hold for any number. Five characters are enough for two
segments that touch, for one inside a class or behind a backslash, and for a pattern
that is nothing but such a segment; the longer ones put segments at both ends and in
the middle, and one has more than `maxDoubleStarDirs` (two here, where the code has a
larger bound that only limits the number of variants). Two changes are needed for a
place to become something else and back, or for a directory and what is in it to go
separately. Two files suffice for one name to get in the way of another. Three unpacks
let a second one meet what a first has left, and a third what both have.

Deadlock is not checked in any run: every process ends, and a state in which all have
ended and the clock stands still has no successor.

### Where the program and its words disagree

- `race`: `zip.go:82` promises that without `--overwrite` existing files are left in
  place. The test is made before the copy, and `os.Rename` replaces what has appeared
  since.
- `prompt`: `source.go:19-20` asks every `Get` to honour cancellation. The prompt looks at
  the context only between attempts; Ctrl-C while it reads is swallowed, the
  passphrase typed next is returned, and `unpack`, whose last steps use no context,
  extracts.
- `override`: `config.go:60-62` says `PasswordOverride` is wiped after use by callers. Its
  use is `FlagSource.Get`, which copies it; the callers wipe the copy. `OverrideWiped`
  speaks of the exits after this copy was returned.
- `dotdot`: `zip.go:156-157` says when an entry is unsafe. `pathIsContained` tests for the
  prefix `..` without a separator, so a file `..env`, which the packing side accepts,
  makes every unpack of its snapshot stop there. `RefusesOnlyThese` shows that this is
  the only kind of name that pack accepts and unpack calls unsafe.

Remarks without a run of their own. `README.md:745-746` says the random digits of a key
eliminate collisions within a second: they make them unlikely, and the theorems that
depend on it say so (`NoCollision`). `README.md:331-332` speaks of one size cap for all
commands: only `Get` has it. `scan.go:11` says that symbolic links are not followed: one
that takes the place of a file after the walk is (`AddFile`, `Target`). A damaged header
may ask Argon2id for up to 4 TiB before anything is authenticated; the process is then
killed, which `NeverCrashes` does not count.

`AwsOnlyIfNamed` carries one exception that the code has and its comment
(`config.go:109-112`) does not: an endpoint that is only a scheme passes `Validate` and
is then stripped to nothing, so `provider: s3` with `endpoint: https://` opens AWS.

### Fairness

- `Snapshots`: weak fairness of every step of a process. The goroutine is scheduled, a
  timer fires, and a request is answered or fails in the end (the drivers have
  timeouts). Signals, the retention rule, the clock and uploads in flight are owed
  nothing. `Termination` holds without assuming that the backend ever recovers.
- `Extract`: system calls return.
- `Commands`: the process is scheduled; the user answers, or closes the input; a child,
  killed or not, closes its output, for which `exec.Cmd.Output` waits. The last is a
  real assumption: a grandchild that keeps the pipe open defeats the timeout, because
  `WaitDelay` is not set.

## What is proved

All theorems hold for every value of the constants under the named assumptions of the
modules, which TLC evaluates on every run. They say what the parameters are:

- `BucketAssumption`, `ClientAssumption`, `SnapshotAssumption`: keys are sequences, a
  project name does not end with a slash (`ValidateName`), and what is in the bucket at
  the beginning was written before (its stamps are not in the future of the server's own
  clock).
- `ExtractAssumption`, `PhraseAssumption`, `InputsAssumption`: values that stand for
  "nothing", "torn" or "blank" are nothing else; the prompt makes at least one attempt.
- `PatternAssumption`, `GatherAssumption`: patterns and names are sequences of characters, a
  place is a file name whose parent is a place or the root, there are finitely many places,
  and the markers for missing, special and directory are not files or links.
- `SealAssumption`, `RoundTripAssumption`: the default parameters are valid, the empty
  passphrase is not a password, `Missing` and `Directory` are not archived files, and the
  inputs name blocks and nodes that exist.

`SnapshotsProofs`
- `TypeCorrect`: `TypeOK` is inductive. Its two last conjuncts (a sleeping call has
  attempts left, an upload or a download has a key) are what `attempt' = attempt + 1`
  and the actions on `target` need.
- `ListingComplete`: `ListingInv`. For a snapshot to be in the result it must have been
  served by the page whose range held its key. The invariant says so for a listing in
  progress: every snapshot at or before the cursor that was in *all* views since the
  attempt began is in `listed`, and the present contents are one of the views. A page
  (`PageCovers`, `SnapshotRemains`) moves the cursor and adds what lies between; a
  change of the bucket (`CoversObserve`) only adds a view, which makes fewer
  snapshots steady; a new attempt empties both sides.
- `NothingNewerIsMissed`: `NothingNewerMissed`, from `ListingInv` at the moment of
  `UnpackPick` and the order `Ahead`.
- `PickedFromTheBucketHolds`: what has been collected (`GenuineInv`) is a snapshot of the
  name and in one of the views; a page adds only such entries (`PageIsGenuine`), because
  the present contents are one of the views (`ListingInv`).
- `SuccessIsStoredHolds`: `UploadInv` ties every request in flight to the pack that sent it,
  which keeps its key for all its attempts, and says that an upload that was answered
  (`Promised`) is in the bucket. A request that lands late then either writes the same
  body again or touches another key. The latter is the hypothesis `NoCollision`: no two
  packs draw one key.
- `RestoredIsPickedHolds`: `ReadInv` follows the target of the download from the choice to the
  exit, and `BodyInv` says that under a key that a pack may draw there is never anything
  but what this pack uploads (`NoCollision`, and `FreshKeys`: nothing older has such a
  key).
- `WaitsOnlyForFlakesHolds` and `FlakesAreWaitedOutHolds` are inductive by themselves, with
  the type of `attempt`.
- `PickedWasNewestHolds`: a listing sees one page at a time, so its newest entry must be
  traced to one instant at which it was the newest. `LeadInv` says of each snapshot that is
  in the bucket or already listed: something newer is listed (`Outdone`), or in one of the
  views everything newer is still beyond the cursor (`Leading`), or the premise of the
  property has failed (`Broken`). At the end of the listing nothing is beyond the cursor.
  `Leading` survives a write because stamps only grow, for which `PastInv` says that nothing
  carries a stamp from the future and that what a view has seen is still there, as old or
  newer, unless it could be deleted. `SenderInv` says who
  sends uploads and under which key. The proof showed that "no snapshot of the name has been
  deleted" must be meant in a strict sense: a late upload can put a deleted snapshot back,
  with a new stamp, and the state after it looks as if nothing had been deleted. The
  property says so with `Lasting`.

`ExtractProofs`
- The inductive invariant is `TypeOK /\ TempInv`: at each step of `writeFile` it says
  what the temporary file holds, and above all that it equals the archived file when
  the next step is the rename. `TypeCorrect`, `TempInvHolds`, `NeverTornHolds` and
  `NoLitterHolds` follow.
- `KeptWhenAloneHolds`: the test of `extractOne` and the rename of `writeFile` are five steps
  apart, and what holds the property up in between is `StillMissing`: what a run without
  `--overwrite` is about to put at a path that nobody else writes is not there yet
  (`StaysMissing`). Nobody else's step reaches such a path (`OthersStayAway`).
- `PutOrReportedHolds` rests on `PutInv` (`StaysPut`): each entry that has been dealt with is in
  its place, or a later one of the same path is, or it is among the skipped.
- `RefinesAtomicExtract`: `Spec => ImplementsAtomicExtract`. Every step maps to a step of
  `AtomicExtract` or to a stutter; `Rename` maps to `Install` because of `TempInv`.

`CommandsProofs`
- The inductive invariant is `Inv == TypeOK /\ SecretInv /\ SecretsWiped`. `SecretInv` has
  two halves. `PromptInv` is about `Prompter.Get` alone: when a confirmation is awaited the
  first line is the last one typed, when the two are compared they are the two lines
  typed, outside these stages neither of them is in memory, a line cut short is left
  only by a read that failed, and a passphrase that was prompted for with confirmation is both
  of the last two lines. `RunInv` ties the place in `Plan` to it: nothing is asked before the
  sixth call, there is a passphrase after it, its wipe is deferred, and so is that of any
  plaintext that has been handed on; what the archive writer holds is out of reach only
  after `buildArchive` has failed. `SecretsWiped` alone is not inductive: it says nothing
  while the command runs.
- `SecretsWiped` names what the code does leave: the bytes of the override, the archive
  writer's buffer after a failed `buildArchive` (the wipe is registered one line later, and
  the writer has none), and what a failed read or a failed child had delivered by then.
- The steps fall into four forms, each with a lemma: a step of `Get` (`PasswordKept`, from
  `OwnStepKept` and `AnswerKept`), a call that succeeds (`ProceededKept`), the end of the
  command (`EndedKept`), and a call that hands a buffer over together with its wipe
  (`HandOverKept`).
- `TypeCorrect`, `SecretsAccountedFor`, `SealedAsTypedHolds` and `SecretsWipedHolds` follow, for
  any passphrases and any number of attempts.
- `ChainInv`: the chain is past a source only if that source had nothing to give, what is
  awaited belongs to the source at `pos`, and a prompt that is exhausted has used all
  attempts. With it `SourcesInOrderHolds` follows at once, and `ConfigErrorsComeFirstHolds`
  call by call: the calls that may end with a configuration error are the first five,
  before which `RunInv` says nobody has been asked.

`LocationProofs`
- `StageInv`: at every stage the location is what the functions `Overridden` and `Built` make
  of the input. The properties are then about these functions. `PickIsStrongest` is the
  lemma they share: `pickString` follows the first voice that counts. `OpenedS3Url` says how
  scheme and `insecure` come out of `normalizeEndpoint` and `bucketURL`.
- `TypeCorrect`, `OpensWhatWasNamedHolds`, `NeverDowngradedHolds` and `AwsOnlyIfNamedHolds` hold for every
  set of inputs, hosts and bucket names.

`NamesProofs`
- No theorem of its own, but what the others need. The induction theorems of the library
  cannot be used by the provers, so induction is written out: `Least` gives a set of naturals
  its least element, and `Upwards` concludes that there is no least counterexample. A fold is
  unrolled into the run of its intermediate values, which makes its result a matter of one
  step at a time.
- What `Segments`, `Joined`, `Parent` and `ArchiveName` make of a name, and that `NameLess`
  is a strict total order.

`PatternsProofs`
- `PatternMeans`: for every pattern and every name that is not empty, `Means(p, x)`, the
  documented meaning, holds just when one of the globs that `compileAll` makes of `p` matches
  `x`. TLC checks it on patterns of five characters; the theorem has no bound on their
  length, nor on the number of `**/` segments (of which `compileAll` rejects more than
  `maxDoubleStarDirs`).
- `Downwards` is induction from the end of a pattern, `RecursionExists` justifies the
  functions that are defined that way. `Reach` is what a list of units can match from a
  position on; `Covered(p, x, i)` says that what the units of `p` reach from `i` on is what the
  variants of the rest reach together. A step back over one unit that is not a directory
  segment changes both sides alike (`RestUnit`, `RestStuck`); one over a `**/` segment is
  `RestDirs`. It rests on `AfterDirectories` and `ReachUnion`: zero or more directories are
  either nothing, which is the variant without the segment, or anything that ends with a
  slash, which is the variant that keeps it as `**` and `/`.

`GatherProofs`
- The inductive invariant is `GatherInv`, in five parts. `TreeInv`: the tree is rooted and
  agrees with its history. `WalkInv`: what is still to be visited and what has been selected
  was there, and no place comes twice (`Apart`). `CompleteInv`: a file that has not changed
  and is selected has been found or is still below something to be visited (`Found`).
  `EntriesInv`: each entry has the name, mode and content of its match. `PhaseInv`: what each
  phase has finished.
- `ArchivedInOrderHolds`: `scan.Walk` sorts what it has collected in the order of the walk,
  which is not the order of the names (`a/b` is visited before `a.b`). The model sorts by
  inserting one match after the other. `InsertedInOrder` says that inserting into an ordered
  sequence keeps it ordered, and `SortRun` and `MatchesSorted` follow the fold. That the names
  of the entries are in order too, and none comes twice, follows for all names without a
  backslash, which `ArchiveName` would turn into a slash after the sorting. `InOrder`, given by
  the rank of each name (`RankGrows`), only stands for the sorting of `os.ReadDir`.
- `GatherTypeOKHolds`, `UntouchedArePackedHolds` (from `CompleteInv`) and
  `OnlySelectedArePackedHolds` (from `WalkInv` and `EntriesInv`). `PatternMeans` turns
  `Selected`, by which the code chooses, into the documented meaning of the patterns that
  both properties speak of. They hold for every directory, every pair of pattern sets and
  any number of changes at any step.

`RoundTripProofs`
- `SealInv` (`SealTypeOK`, `StageInv` and the properties themselves): past `Configure` the
  parameters are valid and those of the block; a blob that nobody damaged is the box that
  was sealed under `secret`, with a header that is derivable and fits into memory; an error
  of a whole blob of the right version is the one of a failed decryption.
- `NeverCrashesHolds`, `StaysReadableHolds`, `FailuresLookAlikeHolds` and `SealedAsConfiguredHolds`
  hold for any blocks, damage and number of runs.
- `RoundTripInv` adds `GatherInv` and four invariants of the extraction. `ArchiveInv`: the sealed
  entries are those of the selection. `UnpackInv`: where a run is. `OutInv`: whatever is in the
  output directory was put there by others, before or meanwhile, is a packed file in its
  place, or is a directory above one. `DoneInv`: an entry that has been dealt with is in its place, or something that was
  kept is. `RefusesOnlyThese` is part of it, too.
- `TypeOKHolds`, `RefusesOnlyTheseHolds` and `RestoredAsPackedHolds` follow. The last showed that
  two packed names may get in each other's way without being equal: `e\*` and `e\\`,
  packed in this order as `e/*` and `e`, leave `e` a directory, upon which the second file is
  skipped and the unpack succeeds. `HasItsPlace` names the files for which this cannot happen:
  all of them, if no packed name has a backslash.

Only model-checked are the three `Termination` properties, because liveness under fairness is
out of the prover's reach, and the four runs that show a violation. Every invariant and every
action property of the other runs has its theorem.

## Not modelled

- The arithmetic of the ciphers and of Argon2id, and the zip format: boxes are ideal, and
  an archive gives back what was put in.
- A file that is rewritten in place while it is copied into the archive, and links to
  directories with something in them.
- Alternatives (`{a,b}`), ranges, negated classes and `?` in patterns: the matcher, a
  library, handles them, and `doubleStarDirs` looks at classes and escapes only.
- YAML decoding, the regular expression of `ValidateName`, logging and its redaction, help
  texts and `version`: conversions with no state between them. `init` is one `Stat` and one
  `WriteFile`.
- The inside of gocloud's drivers, such as the temporary files of the file driver.
- Copies of a secret outside the named buffers: what `append` leaves behind in `readLine`
  and in the archive writer when it grows.
- A crash of the machine with unsynced files: a crash here is one of the process.

## Plan

1. *Abstract store.* A specification of "the newest snapshot of a project" that
   `Snapshots` implements when nothing is deleted, from `PickedWasNewest`.
2. *Proofs.* That `Snapshots` implements the abstract store.
3. *Braces.* Alternatives in `Patterns`, with `**/` inside them.
