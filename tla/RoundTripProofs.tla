----------------------------- MODULE RoundTripProofs ----------------------------
(***************************************************************************)
(* Proofs about RoundTrip: the sealed snapshot, whatever the               *)
(* configuration, the store and the user do to it; what the output         *)
(* directory holds after each entry (OutInv) and at the end (DoneInv); and *)
(* when the extraction refuses.                                            *)
(***************************************************************************)
EXTENDS RoundTrip, GatherProofs

\* A record that stands for a stored blob.
WellFormed(b) ==
    /\ b = [size |-> b.size, header |-> b.header, box |-> b.box]
    /\ b.size \in {"whole", "noTag", "noHeader"}
    /\ b.header \in Header

\* What Encrypt makes of the passphrase and of parameters that are in order.
Intact(b) ==
    /\ b.size = "whole"
    /\ b.header.version = Version
    /\ Valid(b.header.params) /\ b.header.params.memory <= Ram
    /\ b.box.intact
    /\ b.box.key = Key(secret, b.header)
    /\ b.box.header = b.header

\* The configuration and the snapshot, at every stage.
SealTypeOK ==
    /\ secret \in Password
    /\ yaml \in Block
    /\ kdf \in Params
    /\ blob = NoBlob \/ WellFormed(blob)

StageInv ==
    /\ stage = "pack" => kdf = Resolved(yaml.params) /\ Acceptable(yaml, kdf)
    /\ stage \in {"config", "pack"} => blob = NoBlob
    /\ stage \in {"stored", "decrypt", "extract"} \cup Halted => blob # NoBlob
    /\ blob # NoBlob /\ ~damaged => Intact(blob)

SealInv ==
    /\ SealTypeOK
    /\ StageInv
    /\ NeverCrashes
    /\ StaysReadable
    /\ FailuresLookAlike

sealVars == <<yaml, kdf, secret, blob, damaged, typed, error>>

-------------------------------------------------------------------------------
(* The operators of Seal.                                                   *)

LEMMA ValidIsDerivable ==
    ASSUME NEW p \in Params, Valid(p)
    PROVE  Derivable(p)
  BY DEF Params, Valid, Derivable

LEMMA ResolvedInParams ==
    ASSUME NEW p \in Params
    PROVE  Resolved(p) \in Params
  BY SealAssumption DEF Resolved, SealAssumption

LEMMA WellFormedIsSomething ==
    ASSUME NEW b, WellFormed(b)
    PROVE  b # NoBlob
  BY DEF WellFormed, NoBlob

\* The checks of Decrypt let only headers through that a key can be derived from.
LEMMA NoEarlyError ==
    ASSUME NEW b, NEW p, WellFormed(b), EarlyError(b, p) = "none"
    PROVE  /\ b.header.version = Version /\ b.size = "whole"
           /\ Valid(b.header.params) /\ p # EmptyPassword
  <1>1. b.size # "noHeader" /\ b.header.version = Version
    BY DEF WellFormed, EarlyError, HeaderError
  <1>2. HeaderError(b) = "none"
    BY <1>1 DEF HeaderError
  <1>3. b.size = "whole"
    BY <1>1, <1>2 DEF WellFormed, EarlyError
  <1> QED
    BY <1>1, <1>2, <1>3 DEF EarlyError

\* An error of these checks says "decryption" of what is complete, has the right
\* version and is not opened with an empty passphrase.
LEMMA EarlyErrorsLookAlike ==
    ASSUME NEW b, NEW p, b.size = "whole", b.header.version = Version,
           p # EmptyPassword, EarlyError(b, p) # "none"
    PROVE  EarlyError(b, p) = "decryption"
  <1>1. HeaderError(b) = "none"
    BY DEF HeaderError
  <1> QED
    BY <1>1 DEF EarlyError

LEMMA IntactHasNoEarlyError ==
    ASSUME NEW b, Intact(b), secret \in Password
    PROVE  EarlyError(b, secret) = "none"
  <1>1. HeaderError(b) = "none"
    BY DEF Intact, HeaderError
  <1>2. secret # EmptyPassword
    BY SealAssumption DEF SealAssumption
  <1> QED
    BY <1>1, <1>2 DEF EarlyError, Intact

\* Damage leaves a blob a blob.
LEMMA DamagedWellFormed ==
    ASSUME NEW b, WellFormed(b), NEW d \in Damaged(b, Decayed)
    PROVE  WellFormed(d)
  <1>1. CASE \E s \in {"noHeader", "noTag"} : d = [b EXCEPT !.size = s]
    BY <1>1 DEF WellFormed
  <1>2. CASE d = [b EXCEPT !.header.version = OtherVersion]
    BY <1>2 DEF WellFormed, Header
  <1>3. CASE d = [b EXCEPT !.box.intact = FALSE]
    BY <1>3 DEF WellFormed
  <1>4. CASE \E p \in Decayed : d = [b EXCEPT !.header.params = p]
    BY <1>4, RoundTripAssumption DEF WellFormed, Header, RoundTripAssumption
  <1>5. CASE \E s \in Salt : d = [b EXCEPT !.header.salt = s]
    BY <1>5 DEF WellFormed, Header
  <1>6. CASE \E n \in Nonce : d = [b EXCEPT !.header.nonce = n]
    BY <1>6 DEF WellFormed, Header
  <1> QED
    BY <1>1, <1>2, <1>3, <1>4, <1>5, <1>6 DEF Damaged

-------------------------------------------------------------------------------
(* The snapshot: SealInv is inductive.                                      *)

LEMMA SealInit == Init => SealInv
  <1> SUFFICES ASSUME Init PROVE SealInv
    OBVIOUS
  <1>1. PICK in \in Inputs :
          /\ stage = "config" /\ yaml = in.block /\ kdf = in.block.params
          /\ secret \in Password /\ blob = NoBlob /\ damaged = FALSE
    BY DEF Init
  <1>2. in.block \in Block
    BY RoundTripAssumption DEF RoundTripAssumption
  <1>3. in.block.params \in Params
    BY <1>2 DEF Block
  <1> QED
    BY <1>1, <1>2, <1>3 DEF SealInv, SealTypeOK, StageInv, NeverCrashes, StaysReadable,
       FailuresLookAlike, Halted

\* Steps that do not touch the snapshot and do not judge it.
LEMMA Kept ==
    ASSUME SealInv, UNCHANGED sealVars,
           \/ stage' = stage
           \/ /\ stage = "extract"
              /\ stage' \in {"extract", "restored", "unsafe", "conflict", "stopped"}
    PROVE  SealInv'
  <1>1. CASE stage' = stage
    BY <1>1 DEF SealInv, SealTypeOK, StageInv, NeverCrashes, StaysReadable, FailuresLookAlike,
       Intact, WellFormed, sealVars
  <1>2. CASE /\ stage = "extract"
             /\ stage' \in {"extract", "restored", "unsafe", "conflict", "stopped"}
    <2>1. SealTypeOK'
      BY DEF SealInv, SealTypeOK, WellFormed, sealVars
    <2>2. StageInv'
      BY <1>2 DEF SealInv, StageInv, Intact, Halted, sealVars
    <2>3. NeverCrashes' /\ StaysReadable' /\ FailuresLookAlike'
      BY <1>2 DEF NeverCrashes, StaysReadable, FailuresLookAlike
    <2> QED
      BY <2>1, <2>2, <2>3 DEF SealInv
  <1> QED
    BY <1>1, <1>2

LEMMA ConfigureKeeps == SealInv /\ Configure => SealInv'
  <1> SUFFICES ASSUME SealInv, Configure PROVE SealInv'
    OBVIOUS
  <1>1. /\ yaml \in Block /\ yaml.params \in Params
        /\ blob = NoBlob /\ stage' \in {"pack", "failed"}
    BY DEF SealInv, SealTypeOK, StageInv, Configure, Block
  <1>2. kdf' \in Params
    BY <1>1, ResolvedInParams DEF Configure
  <1>3. SealTypeOK'
    BY <1>1, <1>2 DEF SealInv, SealTypeOK, Configure
  <1>4. StageInv'
    BY <1>1 DEF StageInv, Configure, Halted
  <1> QED
    BY <1>1, <1>3, <1>4 DEF SealInv, NeverCrashes, StaysReadable, FailuresLookAlike, Configure

LEMMA EncryptKeeps == SealInv /\ Encrypt => SealInv'
  <1> SUFFICES ASSUME SealInv, Encrypt PROVE SealInv'
    OBVIOUS
  <1>1. /\ stage = "pack" /\ Valid(kdf) /\ Derivable(kdf) /\ blob = NoBlob
        /\ kdf \in Params /\ secret \in Password
    <2>1. stage = "pack" /\ kdf \in Params /\ secret \in Password
      BY DEF SealInv, SealTypeOK, Encrypt
    <2>2. Valid(kdf) /\ blob = NoBlob
      BY <2>1 DEF SealInv, StageInv, Acceptable
    <2> QED
      BY <2>1, <2>2, ValidIsDerivable
  <1>2. CASE /\ kdf.memory <= Ram /\ stage' = "stored"
             /\ \E s \in Salt, n \in Nonce :
                  blob' = Sealed(entries, secret,
                     [version |-> Version, params |-> kdf, salt |-> s, nonce |-> n])
    <2>1. PICK s \in Salt, n \in Nonce :
            blob' = Sealed(entries, secret,
                     [version |-> Version, params |-> kdf, salt |-> s, nonce |-> n])
      BY <1>2
    <2> DEFINE h == [version |-> Version, params |-> kdf, salt |-> s, nonce |-> n]
    <2>2. h \in Header /\ h.version = Version /\ h.params = kdf
      BY <1>1 DEF Header
    <2> HIDE DEF h
    <2>3. /\ blob' = [size |-> "whole", header |-> h, box |-> blob'.box]
          /\ blob'.box = [intact |-> TRUE, key |-> Key(secret, h), header |-> h, text |-> entries]
      BY <2>1 DEF Sealed, h
    <2>4. WellFormed(blob')
      BY <2>2, <2>3 DEF WellFormed
    <2>5. secret' = secret /\ yaml' = yaml /\ kdf' = kdf
      BY DEF Encrypt
    <2>6. Intact(blob)'
      BY <1>1, <1>2, <2>2, <2>3, <2>5 DEF Intact, Key
    <2>7. blob' # NoBlob
      BY <2>4, WellFormedIsSomething
    <2>8. SealTypeOK'
      BY <2>4, <2>5 DEF SealInv, SealTypeOK, WellFormed
    <2>9. StageInv'
      BY <1>2, <2>6, <2>7 DEF StageInv, Halted
    <2> QED
      BY <1>2, <2>8, <2>9 DEF SealInv, NeverCrashes, StaysReadable, FailuresLookAlike
  <1>3. CASE stage' = "killed" /\ UNCHANGED blob
    <2>1. SealTypeOK' /\ StageInv'
      BY <1>1, <1>3 DEF SealInv, SealTypeOK, StageInv, Encrypt, Halted
    <2> QED
      BY <1>1, <1>3, <2>1 DEF SealInv, NeverCrashes, StaysReadable, FailuresLookAlike
  <1> QED
    BY <1>1, <1>2, <1>3 DEF Encrypt

LEMMA DamageKeeps == SealInv /\ Damage => SealInv'
  <1> SUFFICES ASSUME SealInv, Damage PROVE SealInv'
    OBVIOUS
  <1>1. stage = "stored" /\ stage' = "stored" /\ damaged' = TRUE
    BY DEF Damage
  <1>2. WellFormed(blob)
    BY <1>1 DEF SealInv, SealTypeOK, StageInv
  <1>3. WellFormed(blob')
    BY <1>2, DamagedWellFormed DEF Damage
  <1>4. blob' # NoBlob
    BY <1>3, WellFormedIsSomething
  <1>5. SealTypeOK'
    BY <1>3 DEF SealInv, SealTypeOK, Damage, WellFormed
  <1>6. StageInv'
    BY <1>1, <1>4 DEF StageInv, Halted
  <1> QED
    BY <1>1, <1>5, <1>6 DEF SealInv, NeverCrashes, StaysReadable, FailuresLookAlike

LEMMA UnpackBeginKeeps == SealInv /\ UnpackBegin => SealInv'
  <1> SUFFICES ASSUME SealInv, UnpackBegin PROVE SealInv'
    OBVIOUS
  <1>1. /\ stage \in {"stored"} \cup Halted /\ stage' = "decrypt"
        /\ UNCHANGED <<secret, blob, damaged>>
    BY DEF UnpackBegin
  <1>2. yaml' \in Block
    <2>1. yaml' \in Blocks \cup {yaml}
      BY DEF UnpackBegin
    <2> QED
      BY <2>1, RoundTripAssumption DEF RoundTripAssumption, SealInv, SealTypeOK
  <1>3. kdf' \in Params
    BY <1>2, ResolvedInParams DEF UnpackBegin, Block
  <1>4. SealTypeOK'
    BY <1>1, <1>2, <1>3 DEF SealInv, SealTypeOK, WellFormed
  <1>5. StageInv'
    BY <1>1 DEF SealInv, StageInv, Intact, Halted
  <1> QED
    BY <1>1, <1>4, <1>5 DEF SealInv, NeverCrashes, StaysReadable, FailuresLookAlike

LEMMA DecryptKeeps == SealInv /\ Decrypt => SealInv'
  <1> SUFFICES ASSUME SealInv, Decrypt PROVE SealInv'
    OBVIOUS
  <1> DEFINE early == EarlyError(blob, typed)
             params == blob.header.params
             key == Key(typed, blob.header)
  <1>1. /\ stage = "decrypt" /\ UNCHANGED <<yaml, kdf, secret, blob, damaged, typed>>
        /\ WellFormed(blob) /\ blob # NoBlob
    BY DEF SealInv, SealTypeOK, StageInv, Decrypt
  <1>2. [blob.header EXCEPT !.params = params] = blob.header
    BY <1>1 DEF WellFormed, Header
  <1>3. \/ early # "none" /\ stage' = "rejected" /\ error' = early
        \/ early = "none" /\ ~Derivable(params)
        \/ early = "none" /\ params.memory > Ram /\ stage' = "killed"
        \/ early = "none" /\ Opens(blob, key) /\ stage' = "extract"
        \/ /\ early = "none" /\ params.memory <= Ram /\ ~Opens(blob, key)
           /\ stage' = "rejected" /\ error' = "decryption"
    BY <1>2 DEF Decrypt, Reject, KeyParams
  <1>4. SealTypeOK'
    BY <1>1 DEF SealInv, SealTypeOK, WellFormed
  <1>5. ASSUME stage' \in {"extract", "rejected", "killed"} PROVE StageInv'
    BY <1>1, <1>5 DEF SealInv, StageInv, Intact, Halted
  <1>6. ASSUME ~damaged, typed = secret
        PROVE  early = "none" /\ params.memory <= Ram /\ Opens(blob, key)
    <2>1. Intact(blob)
      BY <1>1, <1>6 DEF SealInv, StageInv
    <2>2. early = "none"
      BY <2>1, <1>1, <1>6, IntactHasNoEarlyError DEF SealInv, SealTypeOK
    <2> QED
      BY <2>1, <2>2, <1>6 DEF Intact, Opens
  <1>7. early = "none" => Derivable(params)
    <2>1. params \in Params
      BY <1>1 DEF WellFormed, Header
    <2> QED
      BY <1>1, <2>1, NoEarlyError, ValidIsDerivable
  <1>8. CASE early # "none" /\ stage' = "rejected" /\ error' = early
    <2>1. StaysReadable'
      BY <1>1, <1>6, <1>8 DEF StaysReadable
    <2>2. FailuresLookAlike'
      BY <1>1, <1>8, EarlyErrorsLookAlike DEF FailuresLookAlike
    <2> QED
      BY <1>4, <1>5, <1>8, <2>1, <2>2 DEF SealInv, NeverCrashes
  <1>9. CASE early = "none" /\ params.memory > Ram /\ stage' = "killed"
    <2>1. params.memory \in Nat /\ Ram \in Nat
      BY <1>1, SealAssumption DEF SealAssumption, WellFormed, Header, Params
    <2>2. ~(params.memory <= Ram)
      BY <1>9, <2>1
    <2>3. StaysReadable'
      BY <1>1, <1>6, <2>2 DEF StaysReadable
    <2> QED
      BY <1>4, <1>5, <1>9, <2>3 DEF SealInv, NeverCrashes, FailuresLookAlike
  <1>10. CASE early = "none" /\ Opens(blob, key) /\ stage' = "extract"
    BY <1>4, <1>5, <1>10 DEF SealInv, NeverCrashes, StaysReadable, FailuresLookAlike
  <1>11. CASE /\ early = "none" /\ ~Opens(blob, key)
              /\ stage' = "rejected" /\ error' = "decryption"
    <2>1. StaysReadable'
      BY <1>1, <1>6, <1>11 DEF StaysReadable
    <2> QED
      BY <1>4, <1>5, <1>11, <2>1 DEF SealInv, NeverCrashes, FailuresLookAlike
  <1> QED
    BY <1>3, <1>7, <1>8, <1>9, <1>10, <1>11

LEMMA SealNext == SealInv /\ [Next]_vars => SealInv'
  <1> SUFFICES ASSUME SealInv, [Next]_vars PROVE SealInv'
    OBVIOUS
  <1>1. CASE Gather
    BY <1>1, Kept DEF Gather, sealVars, unpackVars
  <1>2. CASE Unpack
    <2>1. stage = "extract"
          /\ stage' \in {"extract", "restored", "unsafe", "conflict", "stopped"}
      BY <1>2 DEF Unpack, RefuseEntry, SkipEntry, BeginEntry, PlaceEntry, Obstructed, Interrupted,
         Restored, Accepted, Extracting, Stop
    <2>2. UNCHANGED sealVars
      BY <1>2 DEF Unpack, sealVars
    <2> QED
      BY <2>1, <2>2, Kept
  <1>3. CASE Appear
    BY <1>3, Kept DEF Appear, sealVars
  <1>4. CASE UNCHANGED vars
    BY <1>4, Kept DEF vars, unpackVars, sealVars
  <1> QED
    BY <1>1, <1>2, <1>3, <1>4, ConfigureKeeps, EncryptKeeps, DamageKeeps, UnpackBeginKeeps,
       DecryptKeeps DEF Next

\* The snapshot is intact until it is damaged, and what is judged is judged rightly.
THEOREM SealInvariant == Spec => []SealInv
  BY SealInit, SealNext, PTL DEF Spec

\* Argon2id is never called with parameters it panics on, for any blocks and any
\* damage.
THEOREM NeverCrashesHolds == Spec => []NeverCrashes
  <1>1. SealInv => NeverCrashes
    BY DEF SealInv
  <1> QED
    BY <1>1, SealInvariant, PTL

\* A snapshot that nobody altered opens with its passphrase under every later
\* configuration.
THEOREM StaysReadableHolds == Spec => []StaysReadable
  <1>1. SealInv => StaysReadable
    BY DEF SealInv
  <1> QED
    BY <1>1, SealInvariant, PTL

\* A wrong passphrase and an altered snapshot are not told apart.
THEOREM FailuresLookAlikeHolds == Spec => []FailuresLookAlike
  <1>1. SealInv => FailuresLookAlike
    BY DEF SealInv
  <1> QED
    BY <1>1, SealInvariant, PTL

LEMMA SealsAsConfigured ==
    ASSUME SealInv, [Next]_vars, blob = NoBlob, blob' # NoBlob
    PROVE  /\ ~yaml.misspelt
           /\ blob'.header.params = IF yaml.params = Unset THEN DefaultParams ELSE yaml.params
  <1>1. CASE Encrypt
    <2>1. stage = "pack"
      BY <1>1 DEF Encrypt
    <2>2. kdf = Resolved(yaml.params) /\ Acceptable(yaml, kdf)
      BY <2>1 DEF SealInv, StageInv
    <2>3. PICK s \in Salt, n \in Nonce :
            blob' = Sealed(entries, secret,
                      [version |-> Version, params |-> kdf, salt |-> s, nonce |-> n])
      BY <1>1 DEF Encrypt
    <2>4. blob'.header.params = kdf
      BY <2>3 DEF Sealed
    <2> QED
      BY <2>2, <2>4 DEF Resolved, Acceptable
  <1>2. ~Damage
    BY DEF SealInv, StageInv, Damage
  <1>3. Configure \/ Gather \/ UnpackBegin \/ Decrypt \/ Unpack \/ Appear \/ UNCHANGED vars
          => blob' = blob
    BY DEF Configure, Gather, UnpackBegin, Decrypt, Unpack, Appear, vars, unpackVars
  <1> QED
    BY <1>1, <1>2, <1>3 DEF Next

\* Every snapshot is sealed with the block of its configuration, or with the
\* defaults if there is none.
THEOREM SealedAsConfiguredHolds == Spec => SealedAsConfigured
  <1>1. SealInv /\ [Next]_vars =>
          [blob = NoBlob /\ blob' # NoBlob =>
             /\ ~yaml.misspelt
             /\ blob'.header.params = IF yaml.params = Unset THEN DefaultParams ELSE yaml.params]_vars
    BY SealsAsConfigured
  <1> QED
    BY <1>1, SealInvariant, PTL DEF Spec, SealedAsConfigured

-------------------------------------------------------------------------------
(* From the archive to the output directory.                                *)

Archived == [data : Data, mode : Mode \cup {OddMode}]

Name(i) == ArchiveName(matches[i].path)

\* The blob holds the archive that pack has made, and what is opened is this one.
ArchiveInv ==
    /\ blob # NoBlob => phase = "packed" /\ blob \in Blob /\ blob.box.text = entries
    /\ opened # <<>> => blob # NoBlob /\ opened = entries
    /\ stage \in {"extract", "restored"} => blob # NoBlob /\ opened = entries
    /\ done \in 0..Len(opened)
    /\ stage = "restored" => done = Len(opened)

\* The rest of the type invariant.
UnpackInv ==
    /\ stage \in {"config", "pack", "stored", "decrypt", "extract"} \cup Ending \cup Halted
    /\ stage \in {"stored", "decrypt", "extract", "restored"} => Valid(kdf)
    /\ typed \in Password \cup {EmptyPassword}
    /\ runs \in Nat /\ visits \in Nat /\ placing \in BOOLEAN
    /\ out \in [OutPlace -> OutNode] /\ others \in [OutPlace -> OutNode]

\* Whatever is in the output directory was there others, or is a packed file, or a
\* directory over one.
Explained(d) ==
    \/ out[d] = others[d]
    \/ \E i \in DOMAIN matches :
          \/ d = Name(i) /\ out[d] = entries[i].file
          \/ d \in Ancestors(Name(i)) /\ out[d] = Directory

OutInv ==
    /\ blob = NoBlob => out = others
    /\ blob # NoBlob => \A d \in OutPlace : Explained(d)

\* The entries that have been dealt with are in their places.
DoneInv ==
    stage \in {"extract", "restored"} =>
        \A i \in 1..done : HasItsPlace(matches[i].path) =>
            out[Name(i)] = entries[i].file \/ (~overwrite /\ out[Name(i)] # Missing)

RoundTripInv ==
    GatherInv /\ SealInv /\ ArchiveInv /\ UnpackInv /\ OutInv /\ DoneInv /\ RefusesOnlyThese

LEMMA PlaceNames ==
    ASSUME NEW x \in Place
    PROVE  /\ x \in Text /\ IsFileName(x)
           /\ ~Backslashed(x) => ArchiveName(x) = x
           /\ Home(x) = ArchiveName(x)
<1>1. x \in Text /\ IsFileName(x)
  BY GatherAssumption DEF GatherAssumption, Text
<1>2. ~Backslashed(x) => ArchiveName(x) = x
  BY <1>1, Slash, PlainArchiveName DEF Text, Backslashed
<1>3. QED
  BY <1>1, <1>2 DEF Home

\* Where a file that pack accepts comes to lie.
LEMMA SafePlace ==
    ASSUME NEW x \in Place, ~Unsafe(x)
    PROVE  /\ ArchiveName(x) \in OutPlace /\ Ancestors(ArchiveName(x)) \subseteq OutPlace
           /\ ArchiveName(x) \in Text
           /\ ArchiveName(ArchiveName(x)) = ArchiveName(x) /\ ~Unsafe(ArchiveName(x))
           /\ \A a \in Ancestors(ArchiveName(x)) : a \in Text /\ Under(ArchiveName(x), a)
<1>1. x \in Text
  BY PlaceNames
<1>2. /\ ArchiveName(x) \in Text /\ IsFileName(ArchiveName(x))
      /\ ArchiveName(ArchiveName(x)) = ArchiveName(x) /\ ~Unsafe(ArchiveName(x))
  BY <1>1, Slash, SafeArchiveName DEF Text
<1>3. \A a \in Ancestors(ArchiveName(x)) : a \in Text /\ Under(ArchiveName(x), a)
  BY <1>2, Slash, AncestorsAreAbove DEF Text
<1>4. ArchiveName(x) \in OutPlace /\ Ancestors(ArchiveName(x)) \subseteq OutPlace
  BY DEF OutPlace
<1>5. QED
  BY <1>2, <1>3, <1>4

LEMMA EntryFacts ==
    ASSUME GatherInv, phase = "packed", NEW i \in DOMAIN matches
    PROVE  /\ i \in DOMAIN entries /\ entries[i] \in Entry /\ entries[i].file \in Archived
           /\ entries[i].name = Name(i)
           /\ matches[i].path \in Place /\ Packed(matches[i].path) /\ ~Unsafe(matches[i].path)
           /\ Home(matches[i].path) = Name(i)
<1>1. WalkInv /\ EntriesInv /\ PhaseInv
  BY DEF GatherInv
<1>2. matches[i] \in Match /\ i \in DOMAIN entries /\ entries[i] \in Entry
  BY <1>1 DEF WalkInv, EntriesInv, PhaseInv
<1>3. matches[i].path \in Place /\ entries[i].file \in Archived
  BY <1>2 DEF Match, Entry, Archived
<1>4. entries[i].name = Name(i) /\ ~Unsafe(matches[i].path)
  BY <1>1, <1>2 DEF EntriesInv, Name
<1>5. QED
  BY <1>2, <1>3, <1>4, PlaceNames DEF Packed, Name

\* The entry that is next.
LEMMA CurrentFacts ==
    ASSUME RoundTripInv, Extracting
    PROVE  /\ blob # NoBlob /\ phase = "packed" /\ opened = entries
           /\ done + 1 \in DOMAIN matches /\ Current = entries[done + 1]
           /\ Current.file \in Archived /\ Dest = Name(done + 1)
           /\ ~Unsafe(Current.name)
<1>1. /\ blob # NoBlob /\ phase = "packed" /\ opened = entries /\ done \in 0..Len(opened)
      /\ done < Len(opened)
  BY DEF RoundTripInv, ArchiveInv, Extracting
<1>2. GatherInv /\ matches \in Seq(Match) /\ entries \in Seq(Entry) /\ Len(entries) = Len(matches)
  BY <1>1 DEF RoundTripInv, GatherInv, WalkInv, EntriesInv, PhaseInv
<1>3. done + 1 \in DOMAIN matches
  BY <1>1, <1>2
<1>4. Current = entries[done + 1]
  BY <1>1 DEF Current
<1>5. Current.file \in Archived /\ Current.name = Name(done + 1)
  BY <1>1, <1>2, <1>3, <1>4, EntryFacts
<1>6. Dest = Name(done + 1) /\ ~Unsafe(Current.name)
  BY <1>1, <1>2, <1>3, <1>5, EntryFacts, SafePlace DEF Dest, Name
<1>7. QED
  BY <1>1, <1>3, <1>4, <1>5, <1>6

LEMMA SameArchive ==
    ASSUME UNCHANGED <<matches, entries>>
    PROVE  /\ \A i : Name(i)' = Name(i)
           /\ \A x : Packed(x)' <=> Packed(x)
           /\ \A x : HasItsPlace(x)' <=> HasItsPlace(x)
           /\ UNCHANGED <<out, others>> => \A d : Explained(d)' <=> Explained(d)
  BY DEF Name, Packed, HasItsPlace, Explained

\* The steps before there is a blob.
LEMMA BeforeTheBlob ==
    ASSUME RoundTripInv, stage \in {"config", "pack"}, GatherInv', SealInv',
           UNCHANGED <<blob, unpackVars>>,
           stage' \in {"pack", "failed", "crashed", "killed"}
    PROVE  RoundTripInv'
<1>1. blob = NoBlob /\ opened = <<>>
  BY DEF RoundTripInv, SealInv, StageInv, ArchiveInv
<1>2. UNCHANGED <<typed, runs, opened, done, placing, out, others, visits, overwrite>>
  BY DEF unpackVars
<1>3. ArchiveInv'
  BY <1>1, <1>2 DEF RoundTripInv, ArchiveInv
<1>4. UnpackInv'
  BY <1>2 DEF RoundTripInv, UnpackInv, Ending
<1>5. OutInv'
  BY <1>1, <1>2 DEF RoundTripInv, OutInv
<1>6. DoneInv' /\ RefusesOnlyThese'
  BY DEF DoneInv, RefusesOnlyThese
<1>7. QED
  BY <1>3, <1>4, <1>5, <1>6 DEF RoundTripInv

\* The steps between the archive and its extraction.
LEMMA BetweenArchives ==
    ASSUME RoundTripInv, phase = "packed", GatherInv', SealInv',
           UNCHANGED <<gatherVars, opened, done, placing, out, others, visits>>,
           blob' # NoBlob, blob' \in Blob, blob'.box.text = entries,
           stage' \in {"stored", "decrypt", "rejected", "crashed", "killed"},
           stage' \in {"stored", "decrypt"} => Valid(kdf'),
           typed' \in Password \cup {EmptyPassword}, runs' \in Nat
    PROVE  RoundTripInv'
<1>1. UNCHANGED <<matches, entries, phase>>
  BY DEF gatherVars
<1>2. ArchiveInv'
  BY <1>1 DEF RoundTripInv, ArchiveInv
<1>3. UnpackInv'
  BY DEF RoundTripInv, UnpackInv, Ending, Halted
<1>4. OutInv'
  <2>1. \A d \in OutPlace : Explained(d)
    BY DEF RoundTripInv, OutInv, Explained
  <2>2. \A d \in OutPlace : Explained(d)'
    BY <1>1, <2>1, SameArchive
  <2>3. QED
    BY <2>2 DEF OutInv
<1>5. DoneInv' /\ RefusesOnlyThese'
  BY DEF DoneInv, RefusesOnlyThese
<1>6. QED
  BY <1>2, <1>3, <1>4, <1>5 DEF RoundTripInv

\* What Unpack leaves alone.
LEMMA UnpackFrame ==
    ASSUME RoundTripInv, GatherInv', SealInv', stage = "extract",
           UNCHANGED <<gatherVars, kdf, blob, typed, overwrite, runs, opened, others, visits>>,
           placing' \in BOOLEAN, stage' \in {"extract", "unsafe", "conflict", "stopped", "restored"},
           done' \in 0..Len(opened), out' \in [OutPlace -> OutNode],
           stage' = "restored" => done' = Len(opened),
           (\A d \in OutPlace : Explained(d))',
           stage' \in {"extract", "restored"} => DoneInv', RefusesOnlyThese'
    PROVE  RoundTripInv'
<1>1. UNCHANGED <<matches, entries, phase>>
  BY DEF gatherVars
<1>2. blob # NoBlob /\ opened = entries /\ ArchiveInv /\ UnpackInv
  BY DEF RoundTripInv, ArchiveInv
<1>3. ArchiveInv'
  BY <1>1, <1>2 DEF ArchiveInv
<1>4. UnpackInv'
  BY <1>2 DEF UnpackInv, Ending, Halted
<1>5. OutInv'
  BY <1>2 DEF OutInv
<1>6. DoneInv'
  BY DEF DoneInv
<1>7. QED
  BY <1>3, <1>4, <1>5, <1>6 DEF RoundTripInv

LEMMA RoundTripInit == Init => RoundTripInv
<1> SUFFICES ASSUME Init PROVE RoundTripInv
  OBVIOUS
<1>1. PICK in \in Inputs :
        /\ GatherStart(in) /\ stage = "config" /\ kdf = in.block.params /\ secret \in Password
        /\ blob = NoBlob /\ typed = secret /\ runs = in.runs /\ opened = <<>> /\ done = 0
        /\ out = [x \in OutPlace |-> IF x \in DOMAIN in.out THEN in.out[x] ELSE Missing]
        /\ placing = FALSE /\ others = out /\ visits = in.visits
  BY DEF Init
<1>2. GatherInv
  BY <1>1, Starts DEF GatherInit
<1>3. ArchiveInv
  BY <1>1 DEF ArchiveInv
<1>4. in.runs \in Nat /\ in.visits \in Nat /\ \A x \in DOMAIN in.out : in.out[x] \in OutNode
  BY RoundTripAssumption DEF RoundTripAssumption
<1>5. Missing \in OutNode
  BY DEF OutNode
<1>6. out \in [OutPlace -> OutNode]
  BY <1>1, <1>4, <1>5
<1>7. UnpackInv
  BY <1>1, <1>4, <1>6 DEF UnpackInv
<1>8. OutInv /\ DoneInv /\ RefusesOnlyThese
  BY <1>1 DEF OutInv, DoneInv, RefusesOnlyThese
<1>9. QED
  BY <1>2, <1>3, <1>7, <1>8, SealInit DEF RoundTripInv

LEMMA EncryptArchives ==
    ASSUME RoundTripInv, Encrypt, GatherInv', SealInv'
    PROVE  RoundTripInv'
<1>1. stage = "pack" /\ phase = "packed" /\ blob = NoBlob /\ UNCHANGED unpackVars
      /\ UNCHANGED gatherVars /\ kdf \in Params /\ secret \in Password /\ kdf' = kdf
  BY DEF Encrypt, RoundTripInv, SealInv, SealTypeOK, StageInv
<1>2. CASE stage' = "stored"
  <2>1. PICK s \in Salt, n \in Nonce :
          blob' = Sealed(entries, secret,
                    [version |-> Version, params |-> kdf, salt |-> s, nonce |-> n])
    BY <1>2 DEF Encrypt
  <2> DEFINE h == [version |-> Version, params |-> kdf, salt |-> s, nonce |-> n]
  <2>2. h \in Header
    BY <1>1 DEF Header
  <2>3. entries \in Seq(Entry)
    BY DEF RoundTripInv, GatherInv, EntriesInv
  <2>4. Key(secret, h) \in Password \X Salt \X Params
    BY <1>1 DEF Key
  <2> HIDE DEF h
  <2>5. blob' \in Blob /\ blob'.box.text = entries
    BY <2>1, <2>2, <2>3, <2>4 DEF Sealed, Blob, Box, h
  <2>6. blob' # NoBlob
    BY <1>2 DEF SealInv, StageInv
  <2>7. Valid(kdf')
    <3>1. Valid(kdf) \/ stage' # "stored"
      BY DEF Encrypt
    <3>2. QED
      BY <1>1, <1>2, <3>1
  <2>8. UNCHANGED <<typed, runs, opened, done, placing, out, others, visits>>
    BY <1>1 DEF unpackVars
  <2>9. typed' \in Password \cup {EmptyPassword} /\ runs' \in Nat
    BY <2>8 DEF RoundTripInv, UnpackInv
  <2>10. QED
    BY <1>1, <1>2, <2>5, <2>6, <2>7, <2>8, <2>9, BetweenArchives
<1>3. CASE stage' # "stored"
  <2>1. stage' \in {"crashed", "failed", "killed"} /\ blob' = blob
    BY <1>3 DEF Encrypt
  <2>2. QED
    BY <1>1, <2>1, BeforeTheBlob
<1>4. QED
  BY <1>2, <1>3

LEMMA DamagedIsBlob ==
    ASSUME NEW b \in Blob, NEW d \in Damaged(b, Decayed)
    PROVE  d \in Blob /\ d.box.text = b.box.text
<1>1. /\ b = [size |-> b.size, header |-> b.header, box |-> b.box]
      /\ b.size \in {"whole", "noTag", "noHeader"} /\ b.header \in Header /\ b.box \in Box
  BY DEF Blob
<1>2. CASE \E s \in {"noHeader", "noTag"} : d = [b EXCEPT !.size = s]
  BY <1>1, <1>2 DEF Blob
<1>3. CASE d = [b EXCEPT !.header.version = OtherVersion]
  BY <1>1, <1>3 DEF Blob, Header
<1>4. CASE d = [b EXCEPT !.box.intact = FALSE]
  <2>1. [b.box EXCEPT !.intact = FALSE] \in Box /\ [b.box EXCEPT !.intact = FALSE].text = b.box.text
    BY <1>1 DEF Box
  <2>2. QED
    BY <1>1, <1>4, <2>1 DEF Blob
<1>5. CASE \E p \in Decayed : d = [b EXCEPT !.header.params = p]
  BY <1>1, <1>5, RoundTripAssumption DEF Blob, Header, RoundTripAssumption
<1>6. CASE \E s \in Salt : d = [b EXCEPT !.header.salt = s]
  BY <1>1, <1>6 DEF Blob, Header
<1>7. CASE \E n \in Nonce : d = [b EXCEPT !.header.nonce = n]
  BY <1>1, <1>7 DEF Blob, Header
<1>8. QED
  BY <1>2, <1>3, <1>4, <1>5, <1>6, <1>7 DEF Damaged

LEMMA DamageArchives ==
    ASSUME RoundTripInv, Damage, GatherInv', SealInv'
    PROVE  RoundTripInv'
<1>1. /\ stage = "stored" /\ stage' = "stored" /\ blob' \in Damaged(blob, Decayed)
      /\ UNCHANGED <<gatherVars, kdf>> /\ UNCHANGED unpackVars
  BY DEF Damage
<1>2. blob # NoBlob /\ phase = "packed" /\ blob \in Blob /\ blob.box.text = entries
  BY <1>1 DEF RoundTripInv, SealInv, StageInv, ArchiveInv
<1>3. blob' \in Blob /\ blob'.box.text = entries
  BY <1>1, <1>2, DamagedIsBlob
<1>4. blob' # NoBlob
  BY <1>1 DEF SealInv, StageInv
<1>5. UNCHANGED <<typed, runs, opened, done, placing, out, others, visits>>
  BY <1>1 DEF unpackVars
<1>6. Valid(kdf') /\ typed' \in Password \cup {EmptyPassword} /\ runs' \in Nat
  BY <1>1, <1>5 DEF RoundTripInv, UnpackInv
<1>7. QED
  BY <1>1, <1>2, <1>3, <1>4, <1>5, <1>6, BetweenArchives

LEMMA UnpackBeginArchives ==
    ASSUME RoundTripInv, UnpackBegin, GatherInv', SealInv'
    PROVE  RoundTripInv'
<1>1. /\ stage \in {"stored"} \cup Halted /\ stage' = "decrypt" /\ runs > 0 /\ runs' = runs - 1
      /\ typed' \in IF hostile THEN Password \cup {EmptyPassword} ELSE {secret}
      /\ Valid(kdf') /\ UNCHANGED <<gatherVars, blob, opened, done, placing, out, others, visits>>
  BY DEF UnpackBegin, Acceptable
<1>2. blob # NoBlob /\ phase = "packed" /\ blob \in Blob /\ blob.box.text = entries
  BY <1>1 DEF RoundTripInv, SealInv, StageInv, ArchiveInv
<1>3. typed' \in Password \cup {EmptyPassword} /\ runs' \in Nat
  BY <1>1 DEF RoundTripInv, SealInv, SealTypeOK, UnpackInv
<1>4. QED
  BY <1>1, <1>2, <1>3, BetweenArchives

LEMMA DecryptArchives ==
    ASSUME RoundTripInv, Decrypt, GatherInv', SealInv'
    PROVE  RoundTripInv'
<1>1. /\ stage = "decrypt"
      /\ UNCHANGED <<gatherVars, kdf, blob, typed, overwrite, runs, placing, out, others, visits>>
  BY DEF Decrypt
<1>2. blob # NoBlob /\ phase = "packed" /\ blob \in Blob /\ blob.box.text = entries
  BY <1>1 DEF RoundTripInv, SealInv, StageInv, ArchiveInv
<1>3. UNCHANGED <<matches, entries, phase>>
  BY <1>1 DEF gatherVars
<1>4. typed \in Password \cup {EmptyPassword} /\ runs \in Nat /\ Valid(kdf)
  BY <1>1 DEF RoundTripInv, UnpackInv
<1>5. \/ stage' \in {"rejected", "crashed", "killed"} /\ UNCHANGED <<opened, done>>
      \/ stage' = "extract" /\ opened' = blob.box.text /\ done' = 0
  BY DEF Decrypt, Reject
<1>6. CASE stage' \in {"rejected", "crashed", "killed"} /\ UNCHANGED <<opened, done>>
  BY <1>1, <1>2, <1>4, <1>6, BetweenArchives
<1>7. CASE stage' = "extract" /\ opened' = blob.box.text /\ done' = 0
  <2>1. ArchiveInv'
    <3>1. Len(opened') \in Nat
      BY <1>2, <1>7 DEF RoundTripInv, GatherInv, EntriesInv
    <3>2. QED
      BY <1>1, <1>2, <1>3, <1>7, <3>1 DEF ArchiveInv
  <2>2. UnpackInv'
    BY <1>1, <1>4, <1>7 DEF RoundTripInv, UnpackInv
  <2>3. OutInv'
    <3>1. \A d \in OutPlace : Explained(d)'
      BY <1>1, <1>2, <1>3, SameArchive DEF RoundTripInv, OutInv
    <3>2. QED
      BY <1>1, <1>2, <3>1 DEF OutInv
  <2>4. DoneInv'
    BY <1>7 DEF DoneInv
  <2>5. RefusesOnlyThese'
    BY <1>7 DEF RefusesOnlyThese
  <2>6. QED
    BY <2>1, <2>2, <2>3, <2>4, <2>5 DEF RoundTripInv
<1>8. QED
  BY <1>5, <1>6, <1>7

\* A place that no other entry shares holds its own file, or what others put there.
LEMMA OwnPlace ==
    ASSUME RoundTripInv, blob # NoBlob, NEW i \in DOMAIN matches, HasItsPlace(matches[i].path)
    PROVE  /\ Name(i) \in OutPlace
           /\ \A j \in DOMAIN matches : Name(i) \notin Ancestors(Name(j))
           /\ \A j \in DOMAIN matches : j # i => Name(j) # Name(i)
           /\ out[Name(i)] = others[Name(i)] \/ out[Name(i)] = entries[i].file
<1>1. GatherInv /\ phase = "packed" /\ WalkInv /\ OutInv
  BY DEF RoundTripInv, ArchiveInv, GatherInv
<1>2. ASSUME NEW j \in DOMAIN matches
      PROVE  /\ matches[j].path \in Place /\ Packed(matches[j].path)
             /\ Home(matches[j].path) = Name(j) /\ ~Unsafe(matches[j].path)
             /\ Name(j) \in OutPlace /\ Name(j) \in Text
             /\ \A a \in Ancestors(Name(j)) : a \in Text /\ Under(Name(j), a)
  BY <1>1, EntryFacts, SafePlace DEF Name
<1>3. ASSUME NEW j \in DOMAIN matches, j # i
      PROVE  Name(j) # Name(i) /\ ~Under(Name(j), Name(i))
  <2>1. matches[j].path # matches[i].path
    BY <1>1, <1>3 DEF WalkInv, Apart
  <2>2. QED
    BY <1>2, <2>1 DEF HasItsPlace
<1>4. ASSUME NEW j \in DOMAIN matches PROVE Name(i) \notin Ancestors(Name(j))
  <2>1. CASE j = i
    <3>1. ~Under(Name(i), Name(i))
      BY DEF Under
    <3>2. QED
      BY <1>2, <2>1, <3>1
  <2>2. CASE j # i
    BY <1>2, <1>3, <2>2
  <2>3. QED
    BY <2>1, <2>2
<1>5. Explained(Name(i))
  BY <1>1, <1>2 DEF OutInv
<1>6. QED
  BY <1>2, <1>3, <1>4, <1>5 DEF Explained

LEMMA OutStays ==
    ASSUME RoundTripInv, UNCHANGED <<matches, entries, out, others, overwrite>>,
           blob # NoBlob, DoneInv, stage = "extract",
           done' = done \/ (done' = done + 1 /\ done + 1 \in DOMAIN matches /\ Skips /\ Dest = Name(done + 1))
    PROVE  DoneInv' /\ (\A d \in OutPlace : Explained(d))'
<1>1. \A d \in OutPlace : Explained(d)
  BY DEF RoundTripInv, OutInv
<1>2. (\A d \in OutPlace : Explained(d))'
  BY <1>1, SameArchive
<1>3. done \in Nat
  <2>1. opened \in Seq(Entry) /\ done \in 0..Len(opened)
    BY DEF RoundTripInv, ArchiveInv, GatherInv, EntriesInv
  <2>2. QED
    BY <2>1
<1>4. ASSUME NEW i \in 1..done', HasItsPlace(matches[i].path)
      PROVE  out[Name(i)] = entries[i].file \/ (~overwrite /\ out[Name(i)] # Missing)
  <2>1. CASE i \in 1..done
    BY <1>4, <2>1 DEF DoneInv
  <2>2. CASE i \notin 1..done
    <3>1. i = done + 1 /\ Skips /\ Dest = Name(done + 1)
      BY <1>3, <1>4, <2>2
    <3>2. QED
      BY <3>1 DEF Skips
  <2>3. QED
    BY <2>1, <2>2
<1>5. DoneInv'
  <2>1. matches' = matches /\ entries' = entries /\ out' = out /\ overwrite' = overwrite
    OBVIOUS
  <2>2. \A i \in 1..done' : HasItsPlace(matches[i].path)' =>
            out'[Name(i)'] = entries'[i].file \/ (~overwrite' /\ out'[Name(i)'] # Missing)
    BY <1>4, <2>1, SameArchive
  <2>3. QED
    BY <2>1, <2>2 DEF DoneInv
<1>6. QED
  BY <1>2, <1>5

LEMMA SkipEntryArchives ==
    ASSUME RoundTripInv, Unpack, SkipEntry \/ Interrupted \/ Restored, GatherInv', SealInv'
    PROVE  RoundTripInv'
<1>1. /\ UNCHANGED <<gatherVars, kdf, blob, typed, overwrite, runs, opened, others, visits, out>>
      /\ placing \in BOOLEAN /\ placing' \in {placing, FALSE}
      /\ stage = "extract" /\ stage' \in {"extract", "stopped", "restored"}
      /\ \/ done' = done /\ (stage' = "restored" => done = Len(opened))
         \/ SkipEntry
  BY DEF RoundTripInv, UnpackInv, Unpack, SkipEntry, Interrupted, Restored, Stop, Extracting, Accepted
<1>2. UNCHANGED <<matches, entries, out, others, overwrite>>
  BY <1>1 DEF gatherVars
<1>3. blob # NoBlob /\ DoneInv /\ done \in 0..Len(opened) /\ opened = entries
      /\ out \in [OutPlace -> OutNode] /\ entries \in Seq(Entry)
  BY <1>1 DEF RoundTripInv, ArchiveInv, UnpackInv, GatherInv, EntriesInv
<1>4. SkipEntry => /\ done' = done + 1 /\ done + 1 \in DOMAIN matches /\ Skips
                   /\ Dest = Name(done + 1) /\ done < Len(opened) /\ stage' = stage
  BY CurrentFacts DEF SkipEntry, Accepted, Extracting
<1>5. DoneInv' /\ (\A d \in OutPlace : Explained(d))'
  BY <1>1, <1>2, <1>3, <1>4, OutStays
<1>6. done' \in 0..Len(opened) /\ (stage' = "restored" => done' = Len(opened))
  BY <1>1, <1>3, <1>4
<1>7. RefusesOnlyThese'
  BY <1>1 DEF RefusesOnlyThese
<1>8. QED
  BY <1>1, <1>3, <1>5, <1>6, <1>7, UnpackFrame

\* The directories that are made over an entry.
LEMMA BeginEntryArchives ==
    ASSUME RoundTripInv, Unpack, BeginEntry, GatherInv', SealInv'
    PROVE  RoundTripInv'
<1> DEFINE n == done + 1
<1>1. /\ UNCHANGED <<gatherVars, kdf, blob, typed, overwrite, runs, opened, others, visits>>
      /\ stage = "extract" /\ stage' = "extract" /\ done' = done /\ placing' = TRUE /\ Extracting
      /\ out' = [x \in OutPlace |-> IF x \in Ancestors(Dest) THEN Directory ELSE out[x]]
  BY DEF Unpack, BeginEntry, Extracting, Accepted
<1>2. /\ blob # NoBlob /\ phase = "packed" /\ opened = entries /\ n \in DOMAIN matches
      /\ Dest = Name(n)
  BY <1>1, CurrentFacts
<1>3. UNCHANGED <<matches, entries>>
  BY <1>1 DEF gatherVars
<1>4. DoneInv /\ done \in 0..Len(opened) /\ out \in [OutPlace -> OutNode]
      /\ entries \in Seq(Entry) /\ matches \in Seq(Match) /\ \A d \in OutPlace : Explained(d)
  BY <1>1, <1>2 DEF RoundTripInv, ArchiveInv, UnpackInv, OutInv, GatherInv, EntriesInv, WalkInv
<1>5. \A i \in 1..done : i \in DOMAIN matches
  BY <1>2, <1>4
<1> HIDE DEF n
<1>6. out' \in [OutPlace -> OutNode]
  BY <1>1, <1>4 DEF OutNode
<1>7. ASSUME NEW d \in OutPlace PROVE Explained(d)'
  <2>1. CASE d \in Ancestors(Dest)
    <3>1. out'[d] = Directory
      BY <1>1, <2>1
    <3>2. QED
      BY <1>2, <1>3, <2>1, <3>1, SameArchive DEF Explained
  <2>2. CASE d \notin Ancestors(Dest)
    <3>1. out'[d] = out[d] /\ others' = others
      BY <1>1, <2>2
    <3>2. Explained(d)
      BY <1>4
    <3>3. QED
      BY <1>3, <3>1, <3>2, SameArchive DEF Explained
  <2>3. QED
    BY <2>1, <2>2
<1>8. ASSUME NEW i \in 1..done, HasItsPlace(matches[i].path)
      PROVE  out'[Name(i)] = entries[i].file \/ (~overwrite /\ out'[Name(i)] # Missing)
  <2>1. Name(i) \in OutPlace /\ Name(i) \notin Ancestors(Dest)
    BY <1>2, <1>5, <1>8, OwnPlace
  <2>2. out'[Name(i)] = out[Name(i)]
    BY <1>1, <2>1
  <2>3. QED
    BY <1>1, <1>4, <1>8, <2>2 DEF DoneInv
<1>9. DoneInv'
  <2>1. matches' = matches /\ entries' = entries /\ overwrite' = overwrite /\ done' = done
    BY <1>1, <1>3
  <2>2. \A i \in 1..done' : HasItsPlace(matches[i].path)' =>
            out'[Name(i)'] = entries'[i].file \/ (~overwrite' /\ out'[Name(i)'] # Missing)
    BY <1>8, <2>1, SameArchive
  <2>3. QED
    BY <2>1, <2>2 DEF DoneInv
<1>10. RefusesOnlyThese'
  BY <1>1 DEF RefusesOnlyThese
<1>11. (\A d \in OutPlace : Explained(d))'
  BY <1>7
<1>12. QED
  BY <1>1, <1>4, <1>6, <1>9, <1>10, <1>11, UnpackFrame

LEMMA PlaceEntryArchives ==
    ASSUME RoundTripInv, Unpack, PlaceEntry, GatherInv', SealInv'
    PROVE  RoundTripInv'
<1> DEFINE n == done + 1
<1>1. /\ UNCHANGED <<gatherVars, kdf, blob, typed, overwrite, runs, opened, others, visits>>
      /\ stage = "extract" /\ stage' = "extract" /\ done' = n /\ placing' = FALSE /\ Extracting
      /\ out' = [out EXCEPT ![Dest] = Current.file]
  BY DEF Unpack, PlaceEntry, Extracting, Accepted
<1>2. /\ blob # NoBlob /\ phase = "packed" /\ opened = entries /\ n \in DOMAIN matches
      /\ Current.file = entries[n].file /\ Current.file \in Archived /\ Dest = Name(n)
  BY <1>1, CurrentFacts
<1>3. UNCHANGED <<matches, entries>>
  BY <1>1 DEF gatherVars
<1>4. DoneInv /\ done \in 0..Len(opened) /\ out \in [OutPlace -> OutNode]
      /\ entries \in Seq(Entry) /\ done < Len(opened)
      /\ \A d \in OutPlace : Explained(d)
  BY <1>1, <1>2 DEF RoundTripInv, ArchiveInv, UnpackInv, OutInv, Extracting, GatherInv, EntriesInv
<1>5. done \in Nat /\ n \in Nat /\ n \in 0..Len(opened)
  BY <1>4
<1> HIDE DEF n
<1>6. out' \in [OutPlace -> OutNode]
  BY <1>1, <1>2, <1>4 DEF OutNode, Archived
<1>7. ASSUME NEW d \in OutPlace PROVE Explained(d)'
  <2>1. CASE d = Dest
    <3>1. out'[d] = entries[n].file
      BY <1>1, <1>2, <1>4, <2>1
    <3>2. QED
      BY <1>2, <1>3, <2>1, <3>1, SameArchive DEF Explained
  <2>2. CASE d # Dest
    <3>1. out'[d] = out[d] /\ others' = others
      BY <1>1, <1>4, <2>2
    <3>2. Explained(d)
      BY <1>4
    <3>3. QED
      BY <1>3, <3>1, <3>2, SameArchive DEF Explained
  <2>3. QED
    BY <2>1, <2>2
<1>8. ASSUME NEW i \in 1..n, HasItsPlace(matches[i].path)
      PROVE  out'[Name(i)] = entries[i].file \/ (~overwrite /\ out'[Name(i)] # Missing)
  <2>1. i \in DOMAIN matches
    <3>1. matches \in Seq(Match) /\ i \in Nat
      BY <1>5 DEF RoundTripInv, GatherInv, WalkInv
    <3>2. QED
      BY <1>2, <1>5, <3>1
  <2>2. Name(i) \in OutPlace /\ (i # n => Dest # Name(i))
    BY <1>2, <1>8, <2>1, OwnPlace
  <2>3. CASE i = n
    <3>1. out'[Name(i)] = Current.file
      BY <1>1, <1>2, <1>4, <2>2, <2>3
    <3>2. QED
      BY <1>2, <2>3, <3>1
  <2>4. CASE i # n
    <3>1. out'[Name(i)] = out[Name(i)]
      BY <1>1, <1>4, <2>2, <2>4
    <3>2. i \in 1..done
      BY <1>5, <2>4 DEF n
    <3>3. QED
      BY <1>1, <1>4, <1>8, <3>1, <3>2 DEF DoneInv
  <2>5. QED
    BY <2>3, <2>4
<1>9. DoneInv'
  <2>1. matches' = matches /\ entries' = entries /\ overwrite' = overwrite /\ done' = n
    BY <1>1, <1>3
  <2>2. \A i \in 1..done' : HasItsPlace(matches[i].path)' =>
            out'[Name(i)'] = entries'[i].file \/ (~overwrite' /\ out'[Name(i)'] # Missing)
    BY <1>8, <2>1, SameArchive
  <2>3. QED
    BY <2>1, <2>2 DEF DoneInv
<1>10. RefusesOnlyThese'
  BY <1>1 DEF RefusesOnlyThese
<1>11. (\A d \in OutPlace : Explained(d))'
  BY <1>7
<1>12. QED
  BY <1>1, <1>5, <1>6, <1>9, <1>10, <1>11, UnpackFrame

\* Without backslashes, and with nothing there from others, nothing is in the way.
LEMMA NothingInTheWay ==
    ASSUME RoundTripInv, Extracting,
           \A x \in OutPlace : others[x] = Missing,
           \A x \in Place : Packed(x) => ~Backslashed(x)
    PROVE  Passable /\ out[Dest] # Directory
<1> DEFINE n == done + 1
<1>1. /\ blob # NoBlob /\ phase = "packed" /\ n \in DOMAIN matches /\ Dest = Name(n)
  BY CurrentFacts
<1>2. GatherInv /\ WalkInv /\ \A d \in OutPlace : Explained(d)
  BY <1>1 DEF RoundTripInv, OutInv, GatherInv
<1> HIDE DEF n
<1>3. ASSUME NEW j \in DOMAIN matches
      PROVE  /\ Name(j) = matches[j].path /\ Name(j) \in OutPlace
             /\ Ancestors(Name(j)) \subseteq OutPlace
             /\ \A a \in Ancestors(Name(j)) : Under(Name(j), a)
             /\ entries[j].file \notin {Missing, Directory}
  <2>1. /\ matches[j].path \in Place /\ Packed(matches[j].path) /\ ~Unsafe(matches[j].path)
        /\ entries[j].file \in Archived
    BY <1>1, <1>2, EntryFacts
  <2>2. entries[j].file \notin {Missing, Directory}
    BY <2>1, RoundTripAssumption DEF RoundTripAssumption, Archived
  <2>3. Name(j) = matches[j].path
    BY <2>1, PlaceNames DEF Name
  <2>4. QED
    BY <2>1, <2>2, <2>3, SafePlace DEF Name
<1>4. ASSUME NEW i \in DOMAIN matches, NEW j \in DOMAIN matches
      PROVE  ~Under(Name(i), Name(j))
  <2>1. CASE i = j
    BY <2>1 DEF Under
  <2>2. CASE i # j
    BY <1>2, <1>3, <2>2 DEF WalkInv, Apart
  <2>3. QED
    BY <2>1, <2>2
<1>5. out[Dest] # Directory
  <2> SUFFICES ASSUME out[Dest] = Directory PROVE FALSE
    OBVIOUS
  <2>1. Dest \in OutPlace
    BY <1>1, <1>3
  <2>2. Explained(Dest) /\ others[Dest] = Missing
    BY <1>2, <2>1
  <2>3. Missing # Directory
    BY GatherAssumption DEF GatherAssumption
  <2>4. PICK i \in DOMAIN matches : Dest \in Ancestors(Name(i))
    BY <1>3, <2>2, <2>3 DEF Explained
  <2>5. Under(Name(i), Name(n))
    BY <1>1, <1>3, <2>4
  <2>6. QED
    BY <1>1, <1>4, <2>5
<1>6. ASSUME NEW a \in Ancestors(Dest) PROVE out[a] \in {Missing, Directory}
  <2>1. a \in OutPlace /\ Under(Name(n), a)
    BY <1>1, <1>3
  <2>2. Explained(a) /\ others[a] = Missing
    BY <1>2, <2>1
  <2>3. \A i \in DOMAIN matches : a # Name(i)
    BY <1>1, <1>4, <2>1
  <2>4. QED
    BY <2>2, <2>3 DEF Explained
<1>7. QED
  BY <1>5, <1>6 DEF Passable

LEMMA RefuseArchives ==
    ASSUME RoundTripInv, Unpack, RefuseEntry \/ Obstructed, GatherInv', SealInv'
    PROVE  RoundTripInv'
<1>1. /\ UNCHANGED <<gatherVars, kdf, blob, typed, overwrite, runs, opened, others, visits, out, done>>
      /\ stage = "extract" /\ placing' = FALSE /\ Extracting
      /\ \/ stage' = "unsafe" /\ RefuseEntry
         \/ stage' = "conflict" /\ Obstructed
  BY DEF Unpack, RefuseEntry, Obstructed, Stop, Extracting, Accepted
<1>2. UNCHANGED <<matches, entries, out, others, overwrite>>
  BY <1>1 DEF gatherVars
<1>3. /\ blob # NoBlob /\ phase = "packed" /\ done \in 0..Len(opened)
      /\ out \in [OutPlace -> OutNode] /\ GatherInv
  BY <1>1 DEF RoundTripInv, ArchiveInv, UnpackInv
<1>4. (\A d \in OutPlace : Explained(d))'
  BY <1>2, <1>3, SameArchive DEF RoundTripInv, OutInv
<1>5. stage' = "unsafe" => \E x \in Place : Packed(x) /\ IsPrefix(DotDot, ArchiveName(x))
  <2> SUFFICES ASSUME stage' = "unsafe"
               PROVE  \E x \in Place : Packed(x) /\ IsPrefix(DotDot, ArchiveName(x))
    OBVIOUS
  <2>1. ~Contained(Dest) /\ Dest = Name(done + 1) /\ done + 1 \in DOMAIN matches
    BY <1>1, CurrentFacts DEF RefuseEntry
  <2>2. matches[done + 1].path \in Place /\ Packed(matches[done + 1].path)
    BY <1>3, <2>1, EntryFacts
  <2>3. QED
    BY <2>1, <2>2 DEF Contained, Name
<1>6. stage' = "conflict" => \/ \E x \in OutPlace : others[x] # Missing
                             \/ \E x \in Place : Packed(x) /\ Backslashed(x)
  BY <1>1, NothingInTheWay DEF Obstructed
<1>7. RefusesOnlyThese'
  BY <1>2, <1>5, <1>6, SameArchive DEF RefusesOnlyThese
<1>8. QED
  BY <1>1, <1>3, <1>4, <1>7, UnpackFrame

\* Another program's file or directory is where nothing was, and so nothing of ours.
LEMMA AppearArchives ==
    ASSUME RoundTripInv, Appear, GatherInv', SealInv'
    PROVE  RoundTripInv'
<1>1. /\ UNCHANGED <<matches, entries, phase, stage, kdf, blob, typed, overwrite, runs, opened,
                     done, placing>>
      /\ visits > 0 /\ visits' = visits - 1
      /\ stage \in {"stored", "decrypt", "extract"} \cup Halted
  BY DEF Appear, gatherVars
<1>2. PICK x \in Shared, node \in Appearing :
        /\ out[x] = Missing
        /\ out' = [out EXCEPT ![x] = node] /\ others' = [others EXCEPT ![x] = node]
  BY DEF Appear
<1>3. x \in OutPlace /\ node \in OutNode /\ node # Missing
  BY RoundTripAssumption DEF RoundTripAssumption
<1>4. /\ out \in [OutPlace -> OutNode] /\ others \in [OutPlace -> OutNode] /\ visits \in Nat
      /\ blob # NoBlob /\ DoneInv /\ \A d \in OutPlace : Explained(d)
  BY <1>1 DEF RoundTripInv, UnpackInv, SealInv, StageInv, OutInv
<1>5. out'[x] = node /\ others'[x] = node
      /\ \A d \in OutPlace \ {x} : out'[d] = out[d] /\ others'[d] = others[d]
  BY <1>2, <1>3, <1>4
<1>6. ArchiveInv'
  BY <1>1 DEF RoundTripInv, ArchiveInv
<1>7. UnpackInv'
  <2>1. out' \in [OutPlace -> OutNode] /\ others' \in [OutPlace -> OutNode]
    BY <1>2, <1>3, <1>4
  <2>2. visits' \in Nat
    BY <1>1, <1>4
  <2>3. QED
    BY <1>1, <2>1, <2>2 DEF RoundTripInv, UnpackInv
<1>8. OutInv'
  <2>1. ASSUME NEW d \in OutPlace PROVE Explained(d)'
    <3>1. CASE d = x
      BY <1>5, <3>1 DEF Explained
    <3>2. CASE d # x
      <4>1. Explained(d) /\ out'[d] = out[d] /\ others'[d] = others[d]
        BY <1>4, <1>5, <3>2
      <4>2. QED
        BY <1>1, <4>1, SameArchive DEF Explained
    <3>3. QED
      BY <3>1, <3>2
  <2>2. QED
    BY <1>1, <1>4, <2>1 DEF OutInv
<1>9. DoneInv'
  <2>1. ASSUME stage = "extract", NEW i \in 1..done, HasItsPlace(matches[i].path)
        PROVE  out'[Name(i)] = entries[i].file \/ (~overwrite /\ out'[Name(i)] # Missing)
    <3>1. /\ GatherInv /\ phase = "packed" /\ opened = entries /\ done \in 0..Len(opened)
          /\ Len(entries) = Len(matches)
          /\ matches \in Seq(Match) /\ entries \in Seq(Entry)
      BY <2>1 DEF RoundTripInv, ArchiveInv, GatherInv, WalkInv, EntriesInv, PhaseInv
    <3>2. i \in DOMAIN matches
      BY <3>1
    <3>3. Name(i) \in OutPlace
      BY <1>4, <2>1, <3>2, OwnPlace
    <3>4. entries[i].file \in Archived
      BY <3>1, <3>2, EntryFacts
    <3>5. entries[i].file # Missing
      BY <3>4, RoundTripAssumption DEF RoundTripAssumption, Archived
    <3>6. out[Name(i)] = entries[i].file \/ (~overwrite /\ out[Name(i)] # Missing)
      BY <1>4, <2>1 DEF DoneInv
    <3>7. Name(i) # x
      BY <1>2, <3>5, <3>6
    <3>8. QED
      BY <1>5, <3>3, <3>6, <3>7
  <2>2. stage' \in {"extract", "restored"} => stage = "extract"
    BY <1>1 DEF Halted
  <2>3. stage' \in {"extract", "restored"} =>
          \A i \in 1..done' : HasItsPlace(matches[i].path)' =>
            out'[Name(i)'] = entries'[i].file \/ (~overwrite' /\ out'[Name(i)'] # Missing)
    BY <1>1, <2>1, <2>2, SameArchive
  <2>4. QED
    BY <1>1, <2>3 DEF DoneInv
<1>10. RefusesOnlyThese'
  <2>1. others'[x] # Missing /\ x \in OutPlace
    BY <1>3, <1>5
  <2>2. stage' = "unsafe" => \E y \in Place : Packed(y)' /\ IsPrefix(DotDot, ArchiveName(y))
    BY <1>1, SameArchive DEF RoundTripInv, RefusesOnlyThese
  <2>3. QED
    BY <2>1, <2>2 DEF RefusesOnlyThese
<1>11. QED
  BY <1>6, <1>7, <1>8, <1>9, <1>10 DEF RoundTripInv

LEMMA RoundTripStutters ==
    ASSUME RoundTripInv, UNCHANGED vars, GatherInv', SealInv'
    PROVE  RoundTripInv'
<1>1. UNCHANGED <<matches, entries, phase, stage, kdf, blob, typed, overwrite, runs, opened,
                  done, placing, out, others, visits>>
  BY DEF vars, unpackVars, gatherVars
<1>2. ArchiveInv' /\ UnpackInv'
  BY <1>1 DEF RoundTripInv, ArchiveInv, UnpackInv
<1>3. OutInv'
  BY <1>1, SameArchive DEF RoundTripInv, OutInv
<1>4. DoneInv'
  BY <1>1, SameArchive DEF RoundTripInv, DoneInv
<1>5. RefusesOnlyThese'
  BY <1>1, SameArchive DEF RoundTripInv, RefusesOnlyThese
<1>6. QED
  BY <1>2, <1>3, <1>4, <1>5 DEF RoundTripInv

LEMMA RoundTripNext == RoundTripInv /\ [Next]_vars => RoundTripInv'
<1> SUFFICES ASSUME RoundTripInv, [Next]_vars PROVE RoundTripInv'
  OBVIOUS
<1>1. SealInv'
  BY SealNext DEF RoundTripInv
<1>2. GatherInv'
  <2>1. [GatherNext]_gatherVars
    BY DEF Next, Configure, Gather, Encrypt, Damage, UnpackBegin, Decrypt, Unpack, Appear, vars
  <2>2. QED
    BY <2>1, GatherSteps DEF RoundTripInv
<1>3. CASE Configure
  <2>1. stage = "config" /\ stage' \in {"pack", "failed"} /\ blob' = blob /\ UNCHANGED unpackVars
    BY <1>3 DEF Configure
  <2>2. QED
    BY <1>1, <1>2, <2>1, BeforeTheBlob
<1>4. CASE Gather
  <2>1. stage = "pack" /\ stage' = "pack" /\ blob' = blob /\ UNCHANGED unpackVars
    BY <1>4 DEF Gather
  <2>2. QED
    BY <1>1, <1>2, <2>1, BeforeTheBlob
<1>5. CASE Unpack
  BY <1>1, <1>2, <1>5, SkipEntryArchives, BeginEntryArchives, PlaceEntryArchives, RefuseArchives
     DEF Unpack
<1>6. QED
  BY <1>1, <1>2, <1>3, <1>4, <1>5, EncryptArchives, DamageArchives, UnpackBeginArchives,
     DecryptArchives, AppearArchives, RoundTripStutters DEF Next

\* What is opened is what was packed, and what lies in the output directory is
\* what was opened, or others put there.
THEOREM RoundTripInvariant == Spec => []RoundTripInv
  BY RoundTripInit, RoundTripNext, PTL DEF Spec

\* Every variable keeps its type.
THEOREM TypeOKHolds == Spec => []TypeOK
<1>1. RoundTripInv => TypeOK
  <2> SUFFICES ASSUME RoundTripInv PROVE TypeOK
    OBVIOUS
  <2>1. GatherTypeOK
    BY DEF RoundTripInv, GatherInv, TreeInv, WalkInv, EntriesInv, GatherTypeOK, Places
  <2>2. blob \in Blob \cup {NoBlob}
    BY DEF RoundTripInv, ArchiveInv
  <2>3. stage \in {"stored", "decrypt", "extract", "restored"} => blob # NoBlob /\ Valid(kdf)
    BY DEF RoundTripInv, SealInv, StageInv, ArchiveInv, UnpackInv
  <2>4. opened \in Seq(Entry)
    <3>1. entries \in Seq(Entry) /\ (opened # <<>> => opened = entries)
      BY DEF RoundTripInv, GatherInv, EntriesInv, ArchiveInv
    <3>2. <<>> \in Seq(Entry)
      OBVIOUS
    <3>3. QED
      BY <3>1, <3>2
  <2>5. QED
    BY <2>1, <2>2, <2>3, <2>4
       DEF RoundTripInv, SealInv, SealTypeOK, ArchiveInv, UnpackInv, TypeOK
<1>2. QED
  BY <1>1, RoundTripInvariant, PTL

\* Unpack refuses nothing that pack accepts, except names that begin with "..", and
\* meets nothing in its way except what others put there or came of a backslash.
THEOREM RefusesOnlyTheseHolds == Spec => []RefusesOnlyThese
<1>1. RoundTripInv => RefusesOnlyThese
  BY DEF RoundTripInv
<1>2. QED
  BY <1>1, RoundTripInvariant, PTL

\* A file that stood still is archived as it is.
LEMMA ArchivedAsItIs ==
    ASSUME GatherInv, phase = "packed", NEW i \in DOMAIN matches,
           versions[matches[i].path] = {tree[matches[i].path]}
    PROVE  entries[i].file = tree[matches[i].path]
<1> DEFINE x == matches[i].path
<1>1. WalkInv /\ EntriesInv /\ i \in DOMAIN entries /\ entries[i].file \in Archived
  BY EntryFacts DEF GatherInv
<1>2. tree[x] \in File
  BY <1>1 DEF WalkInv, WasFile
<1>3. entries[i].file.mode = ModeOf(tree[x])
  BY <1>1 DEF WalkInv, EntriesInv, HadMode
<1>4. entries[i].file.data = Target(tree[x]).data
  BY <1>1 DEF EntriesInv, HadData
<1>5. entries[i].file.mode = tree[x].mode /\ entries[i].file.data = tree[x].data
  BY <1>2, <1>3, <1>4, NodeFacts
<1> HIDE DEF x
<1>6. entries[i].file = tree[x]
  BY <1>1, <1>2, <1>5 DEF Archived, File
<1>7. QED
  BY <1>6 DEF x

\* What goes in comes out: for every directory, every change to it during the
\* pack, every passphrase and configuration, whatever happens to the snapshot, and
\* however many unpacks are tried.
THEOREM RestoredAsPackedHolds == Spec => []RestoredAsPacked
<1>1. RoundTripInv => RestoredAsPacked
  <2> SUFFICES ASSUME RoundTripInv, stage = "restored", NEW x \in Place,
                      Packed(x), versions[x] = {tree[x]}, HasItsPlace(x)
               PROVE  \/ out[Home(x)] = tree[x]
                      \/ /\ others[Home(x)] # Missing /\ ~overwrite
                         /\ out[Home(x)] = others[Home(x)]
    BY DEF RestoredAsPacked
  <2>1. /\ blob # NoBlob /\ phase = "packed" /\ opened = entries /\ done = Len(opened)
        /\ DoneInv /\ GatherInv
    BY DEF RoundTripInv, ArchiveInv
  <2>2. PICK i \in DOMAIN matches : matches[i].path = x
    BY DEF Packed
  <2>3. entries[i].file = tree[x]
    BY <2>1, <2>2, ArchivedAsItIs
  <2>4. Home(x) = Name(i)
    BY <2>1, <2>2, EntryFacts
  <2>5. i \in 1..done
    <3>1. i \in DOMAIN entries /\ entries \in Seq(Entry)
      BY <2>1, EntryFacts DEF GatherInv, EntriesInv
    <3>2. QED
      BY <2>1, <3>1
  <2>6. out[Name(i)] = entries[i].file \/ (~overwrite /\ out[Name(i)] # Missing)
    BY <2>1, <2>2, <2>5 DEF DoneInv
  <2>7. out[Name(i)] = others[Name(i)] \/ out[Name(i)] = entries[i].file
    BY <2>1, <2>2, OwnPlace
  <2>8. QED
    BY <2>3, <2>4, <2>6, <2>7
<1>2. QED
  BY <1>1, RoundTripInvariant, PTL

===============================================================================
