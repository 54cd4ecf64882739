-------------------------------- MODULE Location -------------------------------
(***************************************************************************)
(* Where a command stores and looks for snapshots: config.Resolve layers   *)
(* flags and environment variables over the storage block of the YAML      *)
(* file, store.New normalises the result in place, and bucketURL turns it  *)
(* into the URL that is opened.                                            *)
(*                                                                         *)
(* An endpoint is its scheme and its host; the location of a provider that *)
(* is not S3 (containerid, dirpath, bucket) is its form and whether a      *)
(* scheme is written before it.  The region has the same precedence as the *)
(* bucket, and is kept only as a flag that is given or not.                *)
(***************************************************************************)
EXTENDS Naturals

CONSTANTS
    Bucket, Host,      \* names of buckets, and "host:port"
    DefaultBucket,     \* config.DefaultBucket
    Unset,             \* the flag was not given, or the variable is not there
    Empty, Blank,      \* "", and only white space
    NoStorage,         \* the file has no storage block, or there is no file
    Inputs             \* the inputs considered

VARIABLES
    input,   \* flags, environment and storage block
    stage,   \* "loaded", "resolved", "built", "opened" or "refused"
    cfg,     \* cfg.Storage
    url      \* what bucketURL returns

vars == <<input, stage, cfg, url>>

Endpoint == {Empty, Blank} \cup
    {e \in [scheme : {"none", "http", "https"}, host : Host \cup {Empty}] :
        e.scheme = "none" => e.host # Empty}

BucketName == {Empty, Blank, DefaultBucket} \cup Bucket

Place == [form : {"empty", "blank", "name", "absolute", "relative"}, scheme : BOOLEAN]

S3 == {"aws", "s3", "minio"}
Other == {"azure", "file", "gcp"}

Storage == [provider : S3, bucket : BucketName, endpoint : Endpoint, insecure : BOOLEAN]
            \cup [provider : Other, place : Place]

Input == [flag : [bucket : BucketName \cup {Unset}, endpoint : Endpoint \cup {Unset},
                  region : BOOLEAN],
          env : [bucket : BucketName \cup {Unset}, endpoint : Endpoint \cup {Unset}],
          yaml : Storage \cup {NoStorage}]

\* "none": no endpoint parameter, the public endpoint of AWS.
Url == [kind : {"s3"}, bucket : BucketName, scheme : {"none", "http", "https"},
        host : Host \cup {Empty}]
        \cup [kind : Other, place : Place]

ASSUME InputsAssumption ==
    /\ Inputs \subseteq Input
    /\ Unset \notin Endpoint \cup BucketName
    /\ NoStorage \notin Storage
    /\ Empty # Blank
    /\ \A e \in {Empty, Blank} : e \notin [scheme : {"none", "http", "https"}, host : Host \cup {Empty}]

\* The scheme is gone: it lives on in insecure.
Normal(s) == s.provider \in S3 /\ s.endpoint # Empty => s.endpoint.scheme = "none"

\* A client that is built holds a normal location, which bucketURL relies on.
TypeOK ==
    /\ input \in Inputs
    /\ stage \in {"loaded", "resolved", "built", "opened", "refused"}
    /\ cfg \in Storage \cup {NoStorage}
    /\ stage \in {"built", "opened"} => cfg # NoStorage /\ Normal(cfg)
    /\ url \in Url \cup {Unset}

Init ==
    /\ input \in Inputs
    /\ stage = "loaded"
    /\ cfg = input.yaml
    /\ url = Unset

-------------------------------------------------------------------------------
(* config.Resolve                                                          *)

\* pickString: a flag counts even when it is empty, a variable does not.
Pick(yaml, flag, env, default) ==
    CASE flag # Unset -> flag
      [] flag = Unset /\ env \notin {Unset, Empty} -> env
      [] flag = Unset /\ env \in {Unset, Empty} -> IF yaml # Empty THEN yaml ELSE default

\* overrideValue(...) != ""
Said(flag, env) == IF flag # Unset THEN flag # Empty ELSE env \notin {Unset, Empty}

\* inferS3Storage, for when there is no storage block.
Inferred ==
    IF Said(input.flag.bucket, input.env.bucket) \/ Said(input.flag.endpoint, input.env.endpoint)
    THEN [provider |-> "aws", bucket |-> Empty, endpoint |-> Empty, insecure |-> FALSE]
    ELSE NoStorage

\* applyStorageOverrides: flags the provider has no use for.
Unsupported(s) ==
    /\ s.provider \in Other
    /\ \/ input.flag.bucket # Unset
       \/ input.flag.endpoint # Unset
       \/ input.flag.region

\* Mutant: an endpoint is taken for a thing of the S3 aliases only.
OverriddenAliasesOnly(s) ==
    IF s.provider \in Other THEN s
    ELSE [s EXCEPT !.bucket = Pick(@, input.flag.bucket, input.env.bucket, DefaultBucket),
                   !.endpoint = IF s.provider = "aws" THEN @
                                ELSE Pick(@, input.flag.endpoint, input.env.endpoint, Empty)]

\* applyStorageOverrides
Overridden(s) ==
    IF s.provider \in Other THEN s
    ELSE [s EXCEPT !.bucket = Pick(@, input.flag.bucket, input.env.bucket, DefaultBucket),
                   !.endpoint = Pick(@, input.flag.endpoint, input.env.endpoint, Empty)]

\* Mutant: every S3 alias takes a missing endpoint for AWS.
MissingBucketOnly(s) ==
    \/ s.provider \in S3 /\ s.bucket \in {Empty, Blank}
    \/ s.provider \in Other /\ s.place.form \in {"empty", "blank"} /\ ~s.place.scheme

\* The Validate of each provider, with requireFields.
Missing(s) ==
    \/ s.provider \in S3 /\ s.bucket \in {Empty, Blank}
    \/ s.provider \in S3 \ {"aws"} /\ s.endpoint \in {Empty, Blank}
    \/ s.provider \in Other /\ s.place.form \in {"empty", "blank"} /\ ~s.place.scheme

Refuse == stage' = "refused" /\ UNCHANGED <<cfg, url>>

Resolve ==
    /\ stage = "loaded"
    /\ LET found == IF cfg = NoStorage THEN Inferred ELSE cfg IN
       \/ found = NoStorage /\ Refuse
       \/ found # NoStorage /\ (Unsupported(found) \/ Missing(Overridden(found))) /\ Refuse
       \/ /\ found # NoStorage /\ ~Unsupported(found) /\ ~Missing(Overridden(found))
          /\ cfg' = Overridden(found)
          /\ stage' = "resolved"
          /\ UNCHANGED url
    /\ UNCHANGED input

-------------------------------------------------------------------------------
(* store.New                                                               *)

Bare(host) == IF host = Empty THEN Empty ELSE [scheme |-> "none", host |-> host]

\* Mutant: the secure bit goes into Insecure as it is.
SecureAsInsecure(s) ==
    [s EXCEPT !.endpoint = Bare(s.endpoint.host),
              !.insecure = IF s.endpoint.scheme = "none" THEN ~@ ELSE s.endpoint.scheme = "https"]

\* Mutant: only https:// is cut off.
HttpKept(s) ==
    [s EXCEPT !.endpoint = IF s.endpoint.scheme = "http" THEN @ ELSE Bare(s.endpoint.host),
              !.insecure = IF s.endpoint.scheme = "none" THEN @ ELSE s.endpoint.scheme = "http"]

\* normalizeEndpoint: a scheme outranks the insecure key, and what is left is
\* the host.
Normalized(s) ==
    [s EXCEPT !.endpoint = Bare(s.endpoint.host),
              !.insecure = IF s.endpoint.scheme = "none" THEN @ ELSE s.endpoint.scheme = "http"]

\* validateUrl's rule for the shape of a location.
Malformed(s) ==
    \/ s.provider \in S3 /\ s.endpoint = Blank
    \/ s.provider = "azure" /\ s.place.form # "name"
    \/ s.provider = "file" /\ s.place.form # "absolute"

New ==
    /\ stage = "resolved"
    /\ \/ Malformed(cfg) /\ Refuse
       \/ /\ ~Malformed(cfg)
          /\ cfg' = CASE cfg.provider \in S3 /\ cfg.endpoint # Empty -> Normalized(cfg)
                      [] cfg.provider \in {"azure", "file"} -> [cfg EXCEPT !.place.scheme = FALSE]
                      [] OTHER -> cfg
          /\ stage' = "built"
          /\ UNCHANGED url
    /\ UNCHANGED input

-------------------------------------------------------------------------------
(* bucketURL, when a bucket is opened                                      *)

UrlOf(s) ==
    IF s.provider \in Other THEN [kind |-> s.provider, place |-> s.place]
    ELSE IF s.endpoint = Empty
         THEN [kind |-> "s3", bucket |-> s.bucket, scheme |-> "none", host |-> Empty]
         ELSE [kind |-> "s3", bucket |-> s.bucket,
               scheme |-> IF s.insecure THEN "http" ELSE "https", host |-> s.endpoint.host]

OpenBucket ==
    /\ stage = "built"
    /\ url' = UrlOf(cfg)
    /\ stage' = "opened"
    /\ UNCHANGED <<input, cfg>>

Next == Resolve \/ New \/ OpenBucket

Spec == Init /\ [][Next]_vars

-------------------------------------------------------------------------------
(* Properties                                                              *)

Opened == stage = "opened"
OpenedS3 == Opened /\ url.kind = "s3"

\* What the flag, the variable and the file say of a setting, in this order; the
\* first that counts is the one to follow.
Sayings(setting) ==
    LET voices == {<<1, input.flag[setting]>>, <<2, input.env[setting]>>}
                    \cup (IF input.yaml = NoStorage THEN {} ELSE {<<3, input.yaml[setting]>>})
    IN {w \in voices : w[2] # Unset /\ (w[1] = 1 \/ w[2] # Empty)}

Strongest(setting) == {w \in Sayings(setting) : \A v \in Sayings(setting) : w[1] <= v[1]}

\* The host of an endpoint, if it has one.
HostOf(e) == IF e \in {Empty, Blank} THEN Empty ELSE e.host

\* config.go:612-615 and the precedence of Resolve: the bucket and the host that
\* are opened are those of the strongest voice.  The bucket is the default, and
\* the host that of AWS, only if nobody names one, or if the strongest voice names
\* an endpoint without a host: no flag is dropped on the way, whatever the provider.
OpensWhatWasNamed ==
    /\ OpenedS3 => \A w \in Strongest("bucket") : url.bucket = w[2]
    /\ OpenedS3 /\ Sayings("bucket") = {} => url.bucket = DefaultBucket
    /\ OpenedS3 => \A w \in Strongest("endpoint") : url.host = HostOf(w[2])
    /\ OpenedS3 /\ Sayings("endpoint") = {} => url.host = Empty
    /\ Opened /\ ~OpenedS3 =>
          /\ url.kind = input.yaml.provider
          /\ input.flag.bucket = Unset /\ input.flag.endpoint = Unset /\ ~input.flag.region

\* blob.go:79-92: an endpoint is spoken to without TLS only if it is written with
\* http://, or without a scheme in a block that says insecure.  An explicit
\* https:// is never downgraded, and a block that is inferred is never insecure.
NeverDowngraded ==
    OpenedS3 /\ url.scheme = "http" =>
        \E w \in Strongest("endpoint") :
            \/ w[2].scheme = "http"
            \/ w[2].scheme = "none" /\ input.yaml # NoStorage /\ input.yaml.insecure

\* config.go:109-112: AWS itself is spoken to only if the provider is "aws", which
\* without a storage block takes a bucket or an endpoint that is named.  (The
\* exception is an endpoint that is a scheme and no host: Validate sees a text,
\* and normalizeEndpoint leaves nothing of it.)
BareScheme(e) == e \notin {Empty, Blank} /\ e.host = Empty
AwsOnlyIfNamed ==
    OpenedS3 /\ url.scheme = "none" =>
        \/ input.yaml # NoStorage /\ input.yaml.provider = "aws"
        \/ /\ input.yaml = NoStorage
           /\ \/ Said(input.flag.bucket, input.env.bucket)
              \/ Said(input.flag.endpoint, input.env.endpoint)
        \/ \E w \in Strongest("endpoint") : BareScheme(w[2])

===============================================================================
