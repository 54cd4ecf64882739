---------------------------------- MODULE Seal --------------------------------
(***************************************************************************)
(* internal/crypto with ideal ciphers, and the Argon2id block of the       *)
(* configuration.  A key is what it is derived from; a box opens with the  *)
(* key, nonce and header it was sealed with, and with nothing else.        *)
(***************************************************************************)
EXTENDS Naturals

CONSTANTS
    Password,       \* the passphrases
    EmptyPassword,
    Salt, Nonce,    \* what crypto/rand may return
    Version,        \* the version this build understands
    OtherVersion,
    DefaultParams,  \* crypto.DefaultParams
    Ram             \* how much memory, in KiB, a process can allocate

Params == [memory : Nat, time : Nat, threads : Nat]
Unset == [memory |-> 0, time |-> 0, threads |-> 0]

\* The Argon2id block of a configuration, decoded; misspelt says that it has a key
\* that is none of the three.
Block == [params : Params, misspelt : BOOLEAN]

\* Mutant: threads are not looked at.
ValidUnthreaded(p) == p.memory >= 8 * p.threads /\ p.memory > 0 /\ p.time > 0

\* Params.Validate.  8 * threads cannot overflow: threads is a byte.
Valid(p) == p.memory >= 8 * p.threads /\ p.memory > 0 /\ p.time > 0 /\ p.threads > 0

ASSUME SealAssumption ==
    /\ EmptyPassword \notin Password
    /\ Version # OtherVersion
    /\ DefaultParams \in Params /\ Valid(DefaultParams)
    /\ Ram \in Nat

\* Crypto.UnmarshalYAML checks the keys, and Resolve the parameters.
Acceptable(block, params) == ~block.misspelt /\ Valid(params)

\* Mutant: a default for every key that is missing.
ResolvedKeyByKey(p) == [f \in DOMAIN p |-> IF p[f] = 0 THEN DefaultParams[f] ELSE p[f]]

\* config.Resolve: the defaults replace a block that is not there, or all zero.
Resolved(p) == IF p = Unset THEN DefaultParams ELSE p

Header == [version : {Version, OtherVersion}, params : Params, salt : Salt, nonce : Nonce]

\* deriveKey; argon2.IDKey panics without a pass or a thread.
Key(password, header) == <<password, header.salt, header.params>>
Derivable(params) == params.time > 0 /\ params.threads > 0

\* The box of a blob is its ciphertext with the tag.
NoBlob == [size |-> "none"]

Sealed(text, password, header) ==
    [size |-> "whole",
     header |-> header,
     box |-> [intact |-> TRUE, key |-> Key(password, header), header |-> header, text |-> text]]

\* What a blob may have become in the store or on the way: cut off in the header
\* or in the tag, or altered in a field.
Damaged(blob, params) ==
    {[blob EXCEPT !.size = s] : s \in {"noHeader", "noTag"}}
    \cup {[blob EXCEPT !.header.version = OtherVersion], [blob EXCEPT !.box.intact = FALSE]}
    \cup {[blob EXCEPT !.header.params = p] : p \in params}
    \cup {[blob EXCEPT !.header.salt = s] : s \in Salt}
    \cup {[blob EXCEPT !.header.nonce = n] : n \in Nonce}

\* The error of UnmarshalHeader.
HeaderError(blob) ==
    CASE blob.size = "noHeader" -> "truncated"
      [] blob.size # "noHeader" /\ blob.header.version # Version -> "unsupported"
      [] blob.size # "noHeader" /\ blob.header.version = Version -> "none"

\* Mutant: parameters that are not valid are reported as a configuration error.
EarlyErrorOfParams(blob, password) ==
    CASE HeaderError(blob) # "none" -> HeaderError(blob)
      [] HeaderError(blob) = "none" /\ blob.size = "noTag" -> "truncated"
      [] HeaderError(blob) = "none" /\ blob.size = "whole" ->
           IF ~Valid(blob.header.params) THEN "params"
           ELSE IF password = EmptyPassword THEN "password" ELSE "none"

\* The checks of Decrypt before a key is derived, in their order.
EarlyError(blob, password) ==
    CASE HeaderError(blob) # "none" -> HeaderError(blob)
      [] HeaderError(blob) = "none" /\ blob.size = "noTag" -> "truncated"
      [] HeaderError(blob) = "none" /\ blob.size = "whole" ->
           IF ~Valid(blob.header.params) THEN "decryption"
           ELSE IF password = EmptyPassword THEN "password" ELSE "none"

\* gcm.Open, with the whole header as additional data.
Opens(blob, key) ==
    /\ blob.box.intact
    /\ blob.box.key = key
    /\ blob.box.header = blob.header

===============================================================================
