-------------------------------- MODULE Bucket --------------------------------
(***************************************************************************)
(* The object store confkoffer talks to.  It is external: the code reaches *)
(* it only through gocloud.dev/blob, so this module says what              *)
(* internal/store relies on, and no more.                                  *)
(*                                                                         *)
(*   - A write of one key is atomic: a reader sees the old object or the   *)
(*     whole new one.  The store stamps it with its own clock, and that    *)
(*     LastModified has the granularity of the model's clock, so two writes *)
(*     between two ticks carry the same stamp.                             *)
(*   - Objects can disappear behind the program's back (a lifecycle rule,  *)
(*     an operator with another tool): Expire.                             *)
(*   - Keys are byte strings with a lexicographic order, and a listing is  *)
(*     served in that order (see List in BlobClient).                      *)
(***************************************************************************)
EXTENDS Naturals, Sequences

CONSTANTS
    Key,         \* the keys objects may have: sequences of character codes
    Body,        \* what an object may contain
    Absent,      \* the value of a key that has no object
    Expirable,   \* the keys whose object somebody else may delete
    Preexisting, \* what the bucket holds before the first run
    MaxTime      \* bound on the store's clock

VARIABLES
    objects,     \* objects[k]: the object stored at k, or Absent
    clock        \* the store's clock, in units of LastModified

Time == 0..MaxTime
Version == [body : Body, mtime : Time]

ASSUME BucketAssumption ==
    /\ Key \subseteq Seq(Nat)
    /\ <<>> \notin Key
    /\ Absent \notin Version
    /\ Expirable \subseteq Key
    /\ MaxTime \in Nat \ {0}
    /\ Preexisting \in [Key -> Version \cup {Absent}]
    /\ \A k \in Key : Preexisting[k] # Absent => Preexisting[k].mtime <= 1  \* its own clock

bucketVars == <<objects, clock>>

BucketTypeOK ==
    /\ objects \in [Key -> Version \cup {Absent}]
    /\ clock \in 1..MaxTime

BucketInit ==
    /\ objects = Preexisting
    /\ clock = 1          \* time 0 is before the first run

Stored(k) == objects[k] # Absent

\* What a listing reports of an object.
Entry == [key : Key, mtime : Time]
EntryOf(k) == [key |-> k, mtime |-> objects[k].mtime]
Contents == {EntryOf(k) : k \in {k \in Key : Stored(k)}}

\* a precedes b in byte order.
KeyLess(a, b) ==
    \/ /\ Len(a) < Len(b)
       /\ \A i \in 1..Len(a) : a[i] = b[i]
    \/ \E i \in 1..Len(a) :
          /\ i <= Len(b)
          /\ a[i] < b[i]
          /\ \A j \in 1..(i - 1) : a[j] = b[j]

Store(k, b) == objects' = [objects EXCEPT ![k] = [body |-> b, mtime |-> clock]]

Expire(k) ==
    /\ k \in Expirable
    /\ Stored(k)
    /\ objects' = [objects EXCEPT ![k] = Absent]
    /\ UNCHANGED clock

Tick ==
    /\ clock < MaxTime
    /\ clock' = clock + 1
    /\ UNCHANGED objects

===============================================================================
