------------------------------- MODULE RoundTrip ------------------------------
(***************************************************************************)
(* A snapshot from the source directory to the output directory: a pack    *)
(* (Gather, then Encrypt), time that passes in the store, and unpack runs  *)
(* (Decrypt, then archive.Unpack), each with its own configuration and     *)
(* passphrase, one after the other, until one succeeds.                    *)
(*                                                                         *)
(* Unpack looks for each file, makes the directories over it, and puts it  *)
(* in place whole (module Extract shows that it does); it may stop before  *)
(* each of these steps, and other programs may put something in the output *)
(* directory between any two of them.  The store is in Snapshots.          *)
(***************************************************************************)
EXTENDS Gather, Seal

CONSTANTS
    Blocks,     \* the Argon2id blocks a configuration may have
    Decayed,    \* the parameters a damaged header may show
    Shared,     \* where other programs put something, and what they put there
    Appearing

VARIABLES
    stage,      \* how far pack and unpack have come
    hostile,    \* whether blobs decay, passphrases are mistaken, blocks change
    yaml,       \* the Argon2id block of the configuration file
    kdf,        \* cfg.Crypto.Argon2id in the process that runs
    secret,     \* the passphrase of the pack
    blob,       \* the snapshot, as it is in the store
    damaged,    \* history: whether it has been damaged
    typed,      \* the passphrase of the unpack
    error,      \* the error of Decrypt
    overwrite,  \* --overwrite
    runs,       \* how many unpacks may still be started
    opened,     \* the archive, as decrypted
    done,       \* how many of its entries have been dealt with
    placing,    \* whether the next of them is on its way to its place
    out,        \* the output directory
    others,     \* history: what was there in the beginning, or others put there
    visits      \* how often they may still do so

unpackVars == <<typed, error, overwrite, runs, opened, done, placing, out, others, visits>>
vars == <<gatherVars, stage, hostile, yaml, kdf, secret, blob, damaged, unpackVars>>

\* Where files may come to lie.
OutPlace ==
    UNION {{ArchiveName(x)} \cup Ancestors(ArchiveName(x)) : x \in {y \in Place : ~Unsafe(y)}}

OutNode == [data : Data, mode : Mode \cup {OddMode}] \cup {Missing, Directory}

Box == [intact : BOOLEAN, key : Password \X Salt \X Params, header : Header, text : Seq(Entry)]
Blob == [size : {"whole", "noTag", "noHeader"}, header : Header, box : Box]

\* An input of Gather also says what the rest of the round trip meets.
ASSUME RoundTripAssumption ==
    /\ {Missing, Directory} \cap [data : Data, mode : Mode \cup {OddMode}] = {}
    /\ Blocks \subseteq Block
    /\ Decayed \subseteq Params
    /\ Shared \subseteq OutPlace
    /\ Appearing \subseteq OutNode \ {Missing}
    /\ \A in \in Inputs :
          /\ in.block \in Blocks /\ in.hostile \in BOOLEAN /\ in.runs \in Nat /\ in.visits \in Nat
          /\ \A x \in DOMAIN in.out : in.out[x] \in OutNode

Ending == {"failed", "restored", "crashed", "killed"}
Halted == {"rejected", "unsafe", "conflict", "stopped"}

TypeOK ==
    /\ GatherTypeOK
    /\ stage \in {"config", "pack", "stored", "decrypt", "extract"} \cup Ending \cup Halted
    /\ yaml \in Block /\ kdf \in Params
    /\ blob \in Blob \cup {NoBlob}
    /\ stage \in {"stored", "decrypt", "extract", "restored"} => blob # NoBlob /\ Valid(kdf)
    /\ secret \in Password /\ typed \in Password \cup {EmptyPassword}
    /\ opened \in Seq(Entry)
    /\ done \in 0..Len(opened)
    /\ runs \in Nat /\ visits \in Nat
    /\ placing \in BOOLEAN
    /\ out \in [OutPlace -> OutNode]

Init ==
    \E in \in Inputs :
        /\ GatherStart(in)
        /\ stage = "config"
        /\ hostile = in.hostile
        /\ yaml = in.block
        /\ kdf = in.block.params
        /\ secret \in Password
        /\ blob = NoBlob
        /\ damaged = FALSE
        /\ typed = secret
        /\ error = "none"
        /\ overwrite = FALSE
        /\ runs = in.runs
        /\ opened = <<>>
        /\ done = 0
        /\ placing = FALSE
        /\ out = [x \in OutPlace |-> IF x \in DOMAIN in.out THEN in.out[x] ELSE Missing]
        /\ others = out
        /\ visits = in.visits

-------------------------------------------------------------------------------
(* pack                                                                    *)

\* Decoding, defaults and validation.
Configure ==
    /\ stage = "config"
    /\ kdf' = Resolved(yaml.params)
    /\ stage' = IF Acceptable(yaml, kdf') THEN "pack" ELSE "failed"
    /\ UNCHANGED <<gatherVars, hostile, yaml, secret, blob, damaged, unpackVars>>

Gather ==
    /\ stage = "pack"
    /\ GatherNext
    /\ UNCHANGED <<stage, hostile, yaml, kdf, secret, blob, damaged, unpackVars>>

\* crypto.Encrypt (which validates the parameters once more) and Put.
Encrypt ==
    /\ stage = "pack" /\ phase = "packed"
    /\ \/ /\ Valid(kdf) /\ Derivable(kdf) /\ kdf.memory <= Ram
          /\ \E s \in Salt, n \in Nonce :
                blob' = Sealed(entries, secret,
                               [version |-> Version, params |-> kdf, salt |-> s, nonce |-> n])
          /\ stage' = "stored"
       \/ /\ Valid(kdf) /\ ~Derivable(kdf)
          /\ stage' = "crashed" /\ UNCHANGED blob
       \/ /\ ~Valid(kdf)
          /\ stage' = "failed" /\ UNCHANGED blob
       \/ /\ kdf.memory > Ram
          /\ stage' = "killed" /\ UNCHANGED blob
    /\ UNCHANGED <<gatherVars, hostile, yaml, kdf, secret, damaged, unpackVars>>

-------------------------------------------------------------------------------

\* The store, or somebody on the way, alters the snapshot.
Damage ==
    /\ stage = "stored" /\ hostile /\ ~damaged
    /\ blob' \in Damaged(blob, Decayed) \ {blob}
    /\ damaged' = TRUE
    /\ UNCHANGED <<gatherVars, stage, hostile, yaml, kdf, secret, unpackVars>>

\* An unpack starts, with the configuration as it is by then, and downloads the
\* snapshot.  (One whose configuration is refused changes nothing.)
UnpackBegin ==
    /\ stage \in {"stored"} \cup Halted
    /\ runs > 0
    /\ runs' = runs - 1
    /\ yaml' \in IF hostile THEN Blocks ELSE {yaml}
    /\ kdf' = Resolved(yaml'.params) /\ Acceptable(yaml', kdf')
    /\ typed' \in IF hostile THEN Password \cup {EmptyPassword} ELSE {secret}
    /\ overwrite' \in BOOLEAN
    /\ error' = "none"
    /\ stage' = "decrypt"
    /\ UNCHANGED <<gatherVars, hostile, secret, blob, damaged, opened, done,
                   placing, out, others, visits>>

-------------------------------------------------------------------------------
(* unpack                                                                  *)

\* Mutant: the key is derived with the parameters that are configured now.
KeyParamsConfigured(b) == kdf

\* The header carries the parameters of the key.
KeyParams(b) == b.header.params

Reject(why) ==
    /\ stage' = "rejected"
    /\ error' = why
    /\ UNCHANGED <<opened, done>>

\* crypto.Decrypt.
Decrypt ==
    /\ stage = "decrypt"
    /\ LET early == EarlyError(blob, typed)
           params == KeyParams(blob)
           key == Key(typed, [blob.header EXCEPT !.params = params])
       IN \/ early # "none" /\ Reject(early)
          \/ /\ early = "none" /\ ~Derivable(params)
             /\ stage' = "crashed" /\ UNCHANGED <<error, opened, done>>
          \/ /\ early = "none" /\ params.memory > Ram
             /\ stage' = "killed" /\ UNCHANGED <<error, opened, done>>
          \/ /\ early = "none" /\ Derivable(params) /\ params.memory <= Ram
             /\ IF Opens(blob, key)
                THEN /\ opened' = blob.box.text
                     /\ done' = 0
                     /\ stage' = "extract"
                     /\ UNCHANGED error
                ELSE Reject("decryption")
    /\ UNCHANGED <<gatherVars, hostile, yaml, kdf, secret, blob, damaged,
                   typed, overwrite, runs, placing, out, others, visits>>

Extracting == stage = "extract" /\ done < Len(opened)
Current == opened[done + 1]
Dest == ArchiveName(Current.name)

Stop(how) ==
    /\ stage' = how
    /\ placing' = FALSE
    /\ UNCHANGED <<done, out>>

RefuseEntry ==
    /\ Extracting
    /\ Unsafe(Current.name) \/ ~Contained(Dest)
    /\ Stop("unsafe")

Accepted == Extracting /\ ~Unsafe(Current.name) /\ Contained(Dest)

\* Mutant: --overwrite is not looked at.
SkipsDespiteOverwrite == out[Dest] # Missing

\* os.Lstat finds something, be it a directory.
Skips == ~overwrite /\ out[Dest] # Missing

\* Mutant: an entry that is skipped takes the next one with it.
SkipEntryTwice ==
    /\ Accepted /\ ~placing /\ Skips
    /\ done' = done + 2
    /\ UNCHANGED <<stage, placing, out>>

SkipEntry ==
    /\ Accepted /\ ~placing /\ Skips
    /\ done' = done + 1
    /\ UNCHANGED <<stage, placing, out>>

\* os.Lstat finds nothing, or is not asked, and MkdirAll of the parent succeeds.
Passable == \A a \in Ancestors(Dest) : out[a] \in {Missing, Directory}

BeginEntry ==
    /\ Accepted /\ ~placing /\ ~Skips /\ Passable
    /\ out' = [x \in OutPlace |-> IF x \in Ancestors(Dest) THEN Directory ELSE out[x]]
    /\ placing' = TRUE
    /\ UNCHANGED <<stage, done>>

\* The rename of writeFile, whatever has appeared there meanwhile.
PlaceEntry ==
    /\ Accepted /\ placing /\ out[Dest] # Directory
    /\ out' = [out EXCEPT ![Dest] = Current.file]
    /\ placing' = FALSE
    /\ done' = done + 1
    /\ UNCHANGED stage

\* A file is in the way of a directory, or a directory in the way of a file.
Obstructed ==
    /\ Accepted
    /\ \/ ~placing /\ ~Skips /\ ~Passable
       \/ placing /\ out[Dest] = Directory
    /\ Stop("conflict")

\* A system call fails, or the process is killed, before the entry is in place.
Interrupted ==
    /\ Extracting
    /\ Stop("stopped")

Restored ==
    /\ stage = "extract" /\ done = Len(opened)
    /\ Stop("restored")

Unpack ==
    /\ \/ RefuseEntry \/ SkipEntry \/ BeginEntry \/ PlaceEntry
       \/ Obstructed \/ Interrupted \/ Restored
    /\ UNCHANGED <<gatherVars, hostile, yaml, kdf, secret, blob, damaged,
                   typed, error, overwrite, runs, opened, others, visits>>

\* Another program puts something in the output directory where nothing is.
Appear ==
    /\ stage \in {"stored", "decrypt", "extract"} \cup Halted
    /\ visits > 0
    /\ \E x \in Shared, node \in Appearing :
         /\ out[x] = Missing /\ \A a \in Ancestors(x) : out[a] = Directory
         /\ out' = [out EXCEPT ![x] = node]
         /\ others' = [others EXCEPT ![x] = node]
    /\ visits' = visits - 1
    /\ UNCHANGED <<gatherVars, stage, hostile, yaml, kdf, secret, blob, damaged,
                   typed, error, overwrite, runs, opened, done, placing>>

Next ==
    \/ Configure \/ Gather \/ Encrypt
    \/ Damage \/ UnpackBegin
    \/ Decrypt \/ Unpack \/ Appear

Spec == Init /\ [][Next]_vars

-------------------------------------------------------------------------------
(* Properties                                                              *)

\* What goes in comes out: when an unpack succeeds, however many were tried and
\* broken off before, whatever happened to the blob and the configuration, every
\* packed file that nobody touched during the pack is back under its name with its
\* content and mode, or something that others put there, before or meanwhile, was
\* kept for want of --overwrite.  The exception are files whose names become one because of a
\* backslash, or become a file and a directory: of "e\*" and "e\\", packed in this
\* order as "e/*" and "e", the second finds the directory and is skipped.
Packed(x) == \E i \in DOMAIN matches : matches[i].path = x
Home(x) == IF Backslashed(x) THEN ArchiveName(x) ELSE x

HasItsPlace(x) ==
    \A y \in Place \ {x} : Packed(y) => Home(y) # Home(x) /\ ~Under(Home(y), Home(x))

RestoredAsPacked ==
    stage = "restored" =>
        \A x \in Place :
            Packed(x) /\ versions[x] = {tree[x]} /\ HasItsPlace(x) =>
                \/ out[Home(x)] = tree[x]
                \/ others[Home(x)] # Missing /\ ~overwrite /\ out[Home(x)] = others[Home(x)]

\* A snapshot that is whole is opened by its passphrase, whatever the Argon2id
\* block says by then: "Changing this block never makes an existing snapshot
\* unreadable" (README.md:399-404).
StaysReadable ==
    blob # NoBlob /\ ~damaged /\ typed = secret => stage \notin {"rejected", "crashed", "killed"}

\* Argon2id is never called with parameters it panics on: neither those of a
\* configuration nor those of a damaged header get past Validate.
NeverCrashes == stage # "crashed"

\* A snapshot is sealed with the block of the configuration, or with the defaults
\* if there is none, never with a mixture (README.md:409-412), and never with
\* the defaults because a key of the block is misspelt (config.go:392-396).
SealedAsConfigured ==
    [][blob = NoBlob /\ blob' # NoBlob =>
         /\ ~yaml.misspelt
         /\ blob'.header.params = IF yaml.params = Unset THEN DefaultParams ELSE yaml.params]_vars

\* crypto.go:120-122: the error does not tell a wrong passphrase from a blob that
\* was altered, in whatever part, as long as its length and version are right.
FailuresLookAlike ==
    stage = "rejected" /\ blob.size = "whole" /\ blob.header.version = Version
        /\ typed # EmptyPassword => error = "decryption"

\* What pack has accepted, unpack can put in place: it finds a name unsafe only if
\* one begins with "..", and something in its way only if another program put it
\* there, or it came out of a name with a backslash.
RefusesOnlyThese ==
    /\ stage = "unsafe" => \E x \in Place : Packed(x) /\ IsPrefix(DotDot, ArchiveName(x))
    /\ stage = "conflict" =>
          \/ \E x \in OutPlace : others[x] # Missing
          \/ \E x \in Place : Packed(x) /\ Backslashed(x)

\* zip.go:156-157: ErrUnsafePath is for an entry that "would escape outDir or is
\* malformed (absolute path, ".." segment, empty name)".
RefusesOnlyUnsafe ==
    stage = "unsafe" =>
        LET x == Current.name IN
        x = <<>> \/ Head(x) = "/" \/ Contains(Segments(x), DotDot)

===============================================================================
