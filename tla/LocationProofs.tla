------------------------------ MODULE LocationProofs ----------------------------
(***************************************************************************)
(* Proofs about Location: at every stage the location is what the          *)
(* functions Resolve and New compute from the input, so the properties are *)
(* those of these functions.                                               *)
(***************************************************************************)
EXTENDS Location, TLAPS

\* What Resolve starts from, and what it makes of it.
Found == IF input.yaml = NoStorage THEN Inferred ELSE input.yaml
Resolution == Overridden(Found)

\* What New leaves.
Built(s) ==
    CASE s.provider \in S3 /\ s.endpoint # Empty -> Normalized(s)
      [] s.provider \in {"azure", "file"} -> [s EXCEPT !.place.scheme = FALSE]
      [] ~(s.provider \in S3 /\ s.endpoint # Empty) /\ s.provider \notin {"azure", "file"} -> s

StageInv ==
    /\ input \in Input
    /\ stage \in {"loaded", "resolved", "built", "opened", "refused"}
    /\ stage = "loaded" => cfg = input.yaml
    /\ stage \in {"resolved", "built", "opened"} =>
          Found # NoStorage /\ ~Unsupported(Found) /\ ~Missing(Resolution)
    /\ stage = "resolved" => cfg = Resolution
    /\ stage \in {"built", "opened"} => ~Malformed(Resolution) /\ cfg = Built(Resolution)
    /\ stage = "opened" => url = UrlOf(cfg)
    /\ url # Unset => stage = "opened"

LEMMA StageInit == Init => StageInv
  BY InputsAssumption DEF Init, StageInv, InputsAssumption

LEMMA StageNext == StageInv /\ [Next]_vars => StageInv'
  <1> SUFFICES ASSUME StageInv, [Next]_vars PROVE StageInv'
    OBVIOUS
  <1>1. input' = input /\ Found' = Found /\ Resolution' = Resolution
        /\ Unsupported(Found)' = Unsupported(Found)
    BY DEF Next, Resolve, New, OpenBucket, vars, Found, Resolution, Inferred, Overridden,
       Unsupported
  <1>2. CASE Resolve
    BY <1>1, <1>2 DEF Resolve, Refuse, StageInv, Found, Resolution
  <1>3. CASE New
    BY <1>1, <1>3 DEF New, Refuse, StageInv, Built
  <1>4. CASE OpenBucket
    BY <1>1, <1>4 DEF OpenBucket, StageInv
  <1>5. CASE UNCHANGED vars
    BY <1>1, <1>5 DEF vars, StageInv
  <1> QED
    BY <1>2, <1>3, <1>4, <1>5 DEF Next

THEOREM StageInvariant == Spec => []StageInv
  BY StageInit, StageNext, PTL DEF Spec

-------------------------------------------------------------------------------
(* Who is heard.                                                           *)

\* The value that Pick chooses, unless it is the default, is that of the strongest
\* voice, and there is no other strongest voice.
LEMMA PickIsStrongest ==
    ASSUME NEW setting,
           input.yaml # NoStorage => input.yaml[setting] # Unset,
           NEW yaml, input.yaml # NoStorage => yaml = input.yaml[setting],
           input.yaml = NoStorage => yaml = Empty,
           NEW default,
           NEW value, value = Pick(yaml, input.flag[setting], input.env[setting], default)
    PROVE  /\ \A w \in Strongest(setting) : value = w[2]
           /\ Sayings(setting) = {} => value = default
           /\ value = default \/ \E w \in Strongest(setting) : value = w[2]
  <1> DEFINE flag == input.flag[setting]
             env == input.env[setting]
  <1>1. CASE flag # Unset
    <2>1. value = flag
      BY <1>1 DEF Pick
    <2>2. <<1, flag>> \in Sayings(setting)
      BY <1>1 DEF Sayings
    <2>3. \A v \in Sayings(setting) : v[1] \in {1, 2, 3} /\ (v[1] = 1 => v = <<1, flag>>)
      BY DEF Sayings
    <2>4. <<1, flag>> \in Strongest(setting)
      BY <2>2, <2>3 DEF Strongest
    <2>5. \A w \in Strongest(setting) : w = <<1, flag>>
      BY <2>2, <2>3 DEF Strongest
    <2> QED
      BY <2>1, <2>2, <2>4, <2>5
  <1>2. CASE flag = Unset /\ env \notin {Unset, Empty}
    <2>1. value = env
      BY <1>2 DEF Pick
    <2>2. <<2, env>> \in Sayings(setting)
      BY <1>2 DEF Sayings
    <2>3. \A v \in Sayings(setting) : v[1] \in {2, 3} /\ (v[1] = 2 => v = <<2, env>>)
      BY <1>2 DEF Sayings
    <2>4. <<2, env>> \in Strongest(setting)
      BY <2>2, <2>3 DEF Strongest
    <2>5. \A w \in Strongest(setting) : w = <<2, env>>
      BY <2>2, <2>3 DEF Strongest
    <2> QED
      BY <2>1, <2>2, <2>4, <2>5
  <1>3. CASE flag = Unset /\ env \in {Unset, Empty} /\ yaml # Empty
    <2>1. value = yaml /\ input.yaml # NoStorage /\ yaml = input.yaml[setting]
      BY <1>3 DEF Pick
    <2>2. Sayings(setting) = {<<3, yaml>>}
      BY <1>3, <2>1 DEF Sayings
    <2>3. <<3, yaml>> \in Strongest(setting)
      BY <2>2 DEF Strongest
    <2>4. \A w \in Strongest(setting) : w = <<3, yaml>>
      BY <2>2 DEF Strongest
    <2>5. Sayings(setting) # {}
      BY <2>2
    <2> QED
      BY <2>1, <2>3, <2>4, <2>5
  <1>4. CASE flag = Unset /\ env \in {Unset, Empty} /\ yaml = Empty
    <2>1. value = default
      BY <1>4 DEF Pick
    <2>2. Sayings(setting) = {}
      BY <1>4 DEF Sayings
    <2> QED
      BY <2>1, <2>2 DEF Strongest
  <1> QED
    BY <1>1, <1>2, <1>3, <1>4

\* The resolution of an S3 location, field by field.
LEMMA ResolutionS3 ==
    ASSUME input \in Input, Found # NoStorage, Found.provider \in S3
    PROVE  /\ Found \in Storage
           /\ Resolution.provider = Found.provider
           /\ Resolution.insecure = Found.insecure
           /\ Resolution.bucket = Pick(Found.bucket, input.flag.bucket, input.env.bucket, DefaultBucket)
           /\ Resolution.endpoint = Pick(Found.endpoint, input.flag.endpoint, input.env.endpoint, Empty)
           /\ Resolution.bucket \in BucketName
           /\ Resolution.endpoint \in Endpoint
           /\ Resolution \in Storage
           /\ input.yaml = NoStorage =>
                 /\ Found.bucket = Empty /\ Found.endpoint = Empty /\ ~Found.insecure
                 /\ Found.provider = "aws"
                 /\ \/ Said(input.flag.bucket, input.env.bucket)
                    \/ Said(input.flag.endpoint, input.env.endpoint)
  <1>1. /\ input.flag.bucket \in BucketName \cup {Unset} /\ input.env.bucket \in BucketName \cup {Unset}
        /\ input.flag.endpoint \in Endpoint \cup {Unset} /\ input.env.endpoint \in Endpoint \cup {Unset}
        /\ input.yaml \in Storage \cup {NoStorage}
    BY DEF Input
  <1>2. Empty \in BucketName /\ Empty \in Endpoint /\ DefaultBucket \in BucketName
    BY DEF BucketName, Endpoint
  <1>3. Found \in [provider : S3, bucket : BucketName, endpoint : Endpoint, insecure : BOOLEAN]
    <2>1. CASE input.yaml = NoStorage
      BY <1>2, <2>1 DEF Found, Inferred, S3
    <2>2. CASE input.yaml # NoStorage
      BY <1>1, <2>2 DEF Found, Storage, S3, Other
    <2> QED
      BY <2>1, <2>2
  <1>4. input.yaml = NoStorage =>
           /\ Found.bucket = Empty /\ Found.endpoint = Empty /\ ~Found.insecure
           /\ Found.provider = "aws"
           /\ \/ Said(input.flag.bucket, input.env.bucket)
              \/ Said(input.flag.endpoint, input.env.endpoint)
    BY DEF Found, Inferred
  <1>5. Resolution =
          [Found EXCEPT !.bucket = Pick(@, input.flag.bucket, input.env.bucket, DefaultBucket),
                        !.endpoint = Pick(@, input.flag.endpoint, input.env.endpoint, Empty)]
    BY DEF Resolution, Overridden, S3, Other
  <1>6. /\ Pick(Found.bucket, input.flag.bucket, input.env.bucket, DefaultBucket) \in BucketName
        /\ Pick(Found.endpoint, input.flag.endpoint, input.env.endpoint, Empty) \in Endpoint
    BY <1>1, <1>2, <1>3 DEF Pick
  <1>7. /\ Resolution.provider = Found.provider
        /\ Resolution.insecure = Found.insecure
        /\ Resolution.bucket = Pick(Found.bucket, input.flag.bucket, input.env.bucket, DefaultBucket)
        /\ Resolution.endpoint = Pick(Found.endpoint, input.flag.endpoint, input.env.endpoint, Empty)
        /\ Resolution \in [provider : S3, bucket : BucketName, endpoint : Endpoint, insecure : BOOLEAN]
    BY <1>3, <1>5, <1>6
  <1> QED
    BY <1>3, <1>4, <1>6, <1>7 DEF Storage

LEMMA ResolutionOther ==
    ASSUME input \in Input, Found # NoStorage, Found.provider \notin S3
    PROVE  /\ Found = input.yaml /\ Resolution = Found /\ Found \in Storage
           /\ Found \in [provider : Other, place : Place]
  <1>1. input.yaml # NoStorage
    BY DEF Found, Inferred, S3
  <1>2. input.yaml \in [provider : Other, place : Place]
    BY <1>1 DEF Input, Found, Storage
  <1> QED
    BY <1>1, <1>2 DEF Found, Resolution, Overridden, Storage

-------------------------------------------------------------------------------
(* What is opened.                                                         *)

\* The URL of an S3 location is that of its resolution, with the scheme of the
\* endpoint turned into TLS or not.
LEMMA OpenedS3Url ==
    ASSUME StageInv, OpenedS3
    PROVE  /\ Found # NoStorage /\ Found.provider \in S3
           /\ url.bucket = Resolution.bucket
           /\ Resolution.endpoint = Empty => url.scheme = "none" /\ url.host = Empty
           /\ Resolution.endpoint # Empty =>
                 LET e == Resolution.endpoint IN
                 /\ e \in [scheme : {"none", "http", "https"}, host : Host \cup {Empty}]
                 /\ url.host = e.host
                 /\ url.scheme = "none" => e.host = Empty
                 /\ url.scheme = "http" =>
                       e.scheme = "http" \/ (e.scheme = "none" /\ Resolution.insecure)
  <1>1. /\ input \in Input /\ Found # NoStorage /\ ~Malformed(Resolution)
        /\ cfg = Built(Resolution) /\ url = UrlOf(cfg) /\ url.kind = "s3"
    BY DEF OpenedS3, Opened, StageInv
  <1>2. Found.provider \in S3
    <2> SUFFICES ASSUME Found.provider \notin S3 PROVE FALSE
      OBVIOUS
    <2>1. /\ Resolution \in [provider : Other, place : Place]
      BY <1>1, ResolutionOther
    <2>2. cfg.provider \in Other
      BY <1>1, <2>1 DEF Built, Other, S3, Place
    <2> QED
      BY <1>1, <2>2 DEF UrlOf, Other
  <1>3. /\ Resolution.provider \in S3
        /\ Resolution \in [provider : S3, bucket : BucketName, endpoint : Endpoint, insecure : BOOLEAN]
        /\ Resolution.endpoint \in Endpoint /\ Resolution.endpoint # Blank
    <2>1. Resolution.provider \in S3 /\ Resolution \in Storage /\ Resolution.endpoint \in Endpoint
      BY <1>1, <1>2, ResolutionS3
    <2> QED
      BY <1>1, <2>1 DEF Malformed, Storage, S3, Other
  <1>4. CASE Resolution.endpoint = Empty
    <2>1. cfg = Resolution
      BY <1>1, <1>3, <1>4 DEF Built, S3
    <2>2. url = [kind |-> "s3", bucket |-> Resolution.bucket, scheme |-> "none", host |-> Empty]
      BY <1>1, <1>3, <1>4, <2>1 DEF UrlOf, S3, Other
    <2> QED
      BY <1>1, <1>2, <1>4, <2>2
  <1>5. CASE Resolution.endpoint # Empty
    <2> DEFINE e == Resolution.endpoint
    <2>1. e \in [scheme : {"none", "http", "https"}, host : Host \cup {Empty}]
      BY <1>3, <1>5 DEF Endpoint
    <2>2. cfg = Normalized(Resolution)
      BY <1>1, <1>3, <1>5 DEF Built, S3
    <2>3. /\ cfg.bucket = Resolution.bucket /\ cfg.endpoint = Bare(e.host)
          /\ cfg.insecure = IF e.scheme = "none" THEN Resolution.insecure ELSE e.scheme = "http"
          /\ cfg.provider \in S3
      BY <1>3, <2>2 DEF Normalized
    <2>4. CASE Bare(e.host) = Empty
      <3>1. e.host = Empty
        BY <2>1, <2>4, InputsAssumption DEF Bare, InputsAssumption
      <3>2. url = [kind |-> "s3", bucket |-> cfg.bucket, scheme |-> "none", host |-> Empty]
        BY <1>1, <2>3, <2>4 DEF UrlOf, S3, Other
      <3> QED
        BY <1>1, <1>2, <1>5, <2>1, <2>3, <3>1, <3>2
    <2>5. CASE Bare(e.host) # Empty
      <3>1. e.host # Empty /\ Bare(e.host).host = e.host
        BY <2>5 DEF Bare
      <3>2. url = [kind |-> "s3", bucket |-> cfg.bucket,
                   scheme |-> IF cfg.insecure THEN "http" ELSE "https", host |-> cfg.endpoint.host]
        BY <1>1, <2>3, <2>5 DEF UrlOf, S3, Other
      <3>3. url.bucket = Resolution.bucket /\ url.host = e.host /\ url.scheme # "none"
        BY <2>3, <3>1, <3>2
      <3>4. url.scheme = "http" => cfg.insecure
        BY <3>2
      <3>5. CASE e.scheme = "none"
        <4>1. url.scheme = "http" => Resolution.insecure
          BY <2>3, <3>4, <3>5
        <4> QED
          BY <1>1, <1>2, <1>5, <2>1, <3>3, <3>5, <4>1
      <3>6. CASE e.scheme # "none"
        <4>1. url.scheme = "http" => e.scheme = "http"
          BY <2>3, <3>4, <3>6
        <4> QED
          BY <1>1, <1>2, <1>5, <2>1, <3>3, <4>1
      <3> QED
        BY <3>5, <3>6
    <2> QED
      BY <2>4, <2>5
  <1> QED
    BY <1>4, <1>5

\* The bucket and the endpoint of the resolution are those of the strongest voice.
LEMMA ResolutionIsStrongest ==
    ASSUME input \in Input, Found # NoStorage, Found.provider \in S3
    PROVE  /\ \A w \in Strongest("bucket") : Resolution.bucket = w[2]
           /\ Sayings("bucket") = {} => Resolution.bucket = DefaultBucket
           /\ \A w \in Strongest("endpoint") : Resolution.endpoint = w[2]
           /\ Sayings("endpoint") = {} => Resolution.endpoint = Empty
           /\ Resolution.endpoint = Empty \/ \E w \in Strongest("endpoint") : Resolution.endpoint = w[2]
  <1>1. /\ Resolution.bucket = Pick(Found.bucket, input.flag.bucket, input.env.bucket, DefaultBucket)
        /\ Resolution.endpoint = Pick(Found.endpoint, input.flag.endpoint, input.env.endpoint, Empty)
        /\ input.yaml = NoStorage => Found.bucket = Empty /\ Found.endpoint = Empty
        /\ Found \in Storage
    BY ResolutionS3
  <1>2. Found.bucket \in BucketName /\ Found.endpoint \in Endpoint
    BY <1>1 DEF Storage, S3, Other
  <1>3. Found.bucket # Unset /\ Found.endpoint # Unset
    BY <1>2, InputsAssumption DEF InputsAssumption
  <1>4. input.yaml # NoStorage => Found = input.yaml
    BY DEF Found
  <1>5. /\ \A w \in Strongest("bucket") : Resolution.bucket = w[2]
        /\ Sayings("bucket") = {} => Resolution.bucket = DefaultBucket
    <2>1. /\ input.yaml # NoStorage => input.yaml["bucket"] # Unset /\ Found.bucket = input.yaml["bucket"]
          /\ input.yaml = NoStorage => Found.bucket = Empty
          /\ Resolution.bucket
                = Pick(Found.bucket, input.flag["bucket"], input.env["bucket"], DefaultBucket)
      BY <1>1, <1>3, <1>4
    <2> HIDE DEF Resolution, Found
    <2> QED
      BY <2>1, PickIsStrongest
  <1>6. /\ \A w \in Strongest("endpoint") : Resolution.endpoint = w[2]
        /\ Sayings("endpoint") = {} => Resolution.endpoint = Empty
        /\ Resolution.endpoint = Empty \/ \E w \in Strongest("endpoint") : Resolution.endpoint = w[2]
    <2>1. /\ input.yaml # NoStorage => input.yaml["endpoint"] # Unset /\ Found.endpoint = input.yaml["endpoint"]
          /\ input.yaml = NoStorage => Found.endpoint = Empty
          /\ Resolution.endpoint
                = Pick(Found.endpoint, input.flag["endpoint"], input.env["endpoint"], Empty)
      BY <1>1, <1>3, <1>4
    <2> HIDE DEF Resolution, Found
    <2> QED
      BY <2>1, PickIsStrongest
  <1> QED
    BY <1>5, <1>6

LEMMA StageSaysNeverDowngraded == StageInv => NeverDowngraded
  <1> SUFFICES ASSUME StageInv, OpenedS3, url.scheme = "http"
               PROVE  \E w \in Strongest("endpoint") :
                          \/ w[2].scheme = "http"
                          \/ w[2].scheme = "none" /\ input.yaml # NoStorage /\ input.yaml.insecure
    BY DEF NeverDowngraded
  <1>1. input \in Input /\ Found # NoStorage /\ Found.provider \in S3
    BY OpenedS3Url DEF StageInv
  <1>2. /\ Resolution.endpoint # Empty
        /\ \/ Resolution.endpoint.scheme = "http"
           \/ Resolution.endpoint.scheme = "none" /\ Resolution.insecure
    BY OpenedS3Url
  <1>3. PICK w \in Strongest("endpoint") : Resolution.endpoint = w[2]
    BY <1>1, <1>2, ResolutionIsStrongest
  <1>4. Resolution.insecure => input.yaml # NoStorage /\ input.yaml.insecure
    <2>1. Resolution.insecure = Found.insecure /\ (input.yaml = NoStorage => ~Found.insecure)
      BY <1>1, ResolutionS3
    <2>2. input.yaml # NoStorage => Found = input.yaml
      BY DEF Found
    <2> QED
      BY <2>1, <2>2
  <1> QED
    BY <1>2, <1>3, <1>4

LEMMA StageSaysAwsOnlyIfNamed == StageInv => AwsOnlyIfNamed
  <1> SUFFICES ASSUME StageInv, OpenedS3, url.scheme = "none"
               PROVE  \/ input.yaml # NoStorage /\ input.yaml.provider = "aws"
                      \/ /\ input.yaml = NoStorage
                         /\ \/ Said(input.flag.bucket, input.env.bucket)
                            \/ Said(input.flag.endpoint, input.env.endpoint)
                      \/ \E w \in Strongest("endpoint") : BareScheme(w[2])
    BY DEF AwsOnlyIfNamed
  <1>1. /\ input \in Input /\ Found # NoStorage /\ Found.provider \in S3
        /\ ~Missing(Resolution)
    BY OpenedS3Url DEF StageInv, OpenedS3, Opened
  <1>2. CASE input.yaml = NoStorage
    BY <1>1, <1>2, ResolutionS3
  <1>3. CASE input.yaml # NoStorage /\ Resolution.endpoint = Empty
    <2>1. Found = input.yaml /\ Resolution.provider = Found.provider
      BY <1>1, <1>3, ResolutionS3 DEF Found
    <2>2. Resolution.provider \notin S3 \ {"aws"}
      BY <1>1, <1>3 DEF Missing
    <2> QED
      BY <1>1, <1>3, <2>1, <2>2
  <1>4. CASE input.yaml # NoStorage /\ Resolution.endpoint # Empty
    <2>1. PICK w \in Strongest("endpoint") : Resolution.endpoint = w[2]
      BY <1>1, <1>4, ResolutionIsStrongest
    <2>2. /\ w[2] \in [scheme : {"none", "http", "https"}, host : Host \cup {Empty}]
          /\ w[2].host = Empty
      BY <1>4, <2>1, OpenedS3Url
    <2>3. w[2] \notin {Empty, Blank}
      BY <2>2, InputsAssumption DEF InputsAssumption
    <2> QED
      BY <2>2, <2>3 DEF BareScheme
  <1> QED
    BY <1>2, <1>3, <1>4

LEMMA StageSaysOpensWhatWasNamed == StageInv => OpensWhatWasNamed
  <1> SUFFICES ASSUME StageInv PROVE OpensWhatWasNamed
    OBVIOUS
  <1>1. CASE OpenedS3
    <2>1. input \in Input /\ Found # NoStorage /\ Found.provider \in S3 /\ url.bucket = Resolution.bucket
      BY <1>1, OpenedS3Url DEF StageInv
    <2>2. /\ \A w \in Strongest("bucket") : url.bucket = w[2]
          /\ Sayings("bucket") = {} => url.bucket = DefaultBucket
      BY <2>1, ResolutionIsStrongest
    <2>4. url.host = HostOf(Resolution.endpoint)
      <3>1. CASE Resolution.endpoint = Empty
        BY <1>1, <3>1, OpenedS3Url DEF HostOf
      <3>2. CASE Resolution.endpoint # Empty
        <4>1. /\ Resolution.endpoint \in [scheme : {"none", "http", "https"}, host : Host \cup {Empty}]
              /\ url.host = Resolution.endpoint.host
          BY <1>1, <3>2, OpenedS3Url
        <4>2. Resolution.endpoint \notin {Empty, Blank}
          BY <4>1, InputsAssumption DEF InputsAssumption
        <4> QED
          BY <4>1, <4>2 DEF HostOf
      <3> QED
        BY <3>1, <3>2
    <2>3. /\ \A w \in Strongest("endpoint") : url.host = HostOf(w[2])
          /\ Sayings("endpoint") = {} => url.host = Empty
      BY <2>1, <2>4, ResolutionIsStrongest DEF HostOf
    <2> QED
      BY <1>1, <2>2, <2>3 DEF OpensWhatWasNamed
  <1>2. CASE Opened /\ ~OpenedS3
    <2>1. /\ input \in Input /\ Found # NoStorage /\ ~Unsupported(Found)
          /\ cfg = Built(Resolution) /\ url = UrlOf(cfg) /\ url.kind # "s3"
      BY <1>2 DEF OpenedS3, Opened, StageInv
    <2>2. Found.provider \notin S3
      <3> SUFFICES ASSUME Found.provider \in S3 PROVE FALSE
        OBVIOUS
      <3>1. Resolution \in [provider : S3, bucket : BucketName, endpoint : Endpoint, insecure : BOOLEAN]
        BY <2>1, ResolutionS3 DEF Storage, S3, Other
      <3>2. cfg.provider \in S3
        BY <2>1, <3>1 DEF Built, Normalized, S3
      <3> QED
        BY <2>1, <3>2 DEF UrlOf, S3, Other
    <2>3. /\ Found = input.yaml /\ Resolution = Found
          /\ Found \in [provider : Other, place : Place]
      BY <2>1, <2>2, ResolutionOther
    <2>4. cfg.provider = Found.provider
      BY <2>1, <2>3 DEF Built, S3, Other
    <2>5. url.kind = input.yaml.provider
      BY <2>1, <2>3, <2>4 DEF UrlOf
    <2>6. input.flag.bucket = Unset /\ input.flag.endpoint = Unset /\ ~input.flag.region
      BY <2>1, <2>3 DEF Unsupported
    <2> QED
      BY <1>2, <2>5, <2>6 DEF OpensWhatWasNamed
  <1>3. CASE ~Opened
    BY <1>3 DEF OpensWhatWasNamed, OpenedS3
  <1> QED
    BY <1>1, <1>2, <1>3

\* The bucket and the host that are opened are those of the strongest of flag,
\* variable and file, and the host is that of AWS only where that voice names none:
\* for every set of inputs, no flag is dropped on the way.
THEOREM OpensWhatWasNamedHolds == Spec => []OpensWhatWasNamed
  BY StageInvariant, StageSaysOpensWhatWasNamed, PTL

\* A connection without TLS was asked for, by the endpoint or by the file.
THEOREM NeverDowngradedHolds == Spec => []NeverDowngraded
  BY StageInvariant, StageSaysNeverDowngraded, PTL

\* AWS itself is spoken to only when it was named.
THEOREM AwsOnlyIfNamedHolds == Spec => []AwsOnlyIfNamed
  BY StageInvariant, StageSaysAwsOnlyIfNamed, PTL

-------------------------------------------------------------------------------
(* Types.                                                                  *)

\* What New leaves is a location again, and its endpoint has no scheme.
LEMMA BuiltType ==
    ASSUME NEW s \in Storage, ~Malformed(s)
    PROVE  /\ Built(s) \in Storage /\ Normal(Built(s))
           /\ s.provider \in S3 => Built(s).provider \in S3 /\ Built(s).endpoint # Blank
  <1>1. CASE s.provider \in S3
    <2>1. /\ s \in [provider : S3, bucket : BucketName, endpoint : Endpoint, insecure : BOOLEAN]
          /\ s.endpoint # Blank
      BY <1>1 DEF Storage, S3, Other, Malformed
    <2>2. CASE s.endpoint = Empty
      BY <1>1, <2>1, <2>2 DEF Built, Storage, Normal, S3
    <2>3. CASE s.endpoint # Empty
      <3>1. s.endpoint \in [scheme : {"none", "http", "https"}, host : Host \cup {Empty}]
        BY <2>1, <2>3 DEF Endpoint
      <3>2. Bare(s.endpoint.host) \in Endpoint /\ Bare(s.endpoint.host) # Blank
        <4>1. Blank \notin [scheme : {"none", "http", "https"}, host : Host \cup {Empty}] /\ Empty # Blank
          BY InputsAssumption DEF InputsAssumption
        <4> QED
          BY <3>1, <4>1 DEF Bare, Endpoint
      <3>3. /\ Normalized(s) \in [provider : S3, bucket : BucketName, endpoint : Endpoint, insecure : BOOLEAN]
            /\ Normalized(s).endpoint = Bare(s.endpoint.host)
            /\ Normalized(s).provider \in S3
        BY <2>1, <3>1, <3>2 DEF Normalized
      <3>4. Built(s) = Normalized(s)
        BY <1>1, <2>3 DEF Built, S3
      <3>5. Normal(Normalized(s))
        BY <3>3 DEF Normal, Bare
      <3> QED
        BY <3>2, <3>3, <3>4, <3>5 DEF Storage
    <2> QED
      BY <2>2, <2>3
  <1>2. CASE s.provider \notin S3
    <2>1. s \in [provider : Other, place : Place]
      BY <1>2 DEF Storage
    <2>2. CASE s.provider \in {"azure", "file"}
      <3>1. Built(s) = [s EXCEPT !.place.scheme = FALSE]
        BY <1>2, <2>2 DEF Built
      <3>2. [s EXCEPT !.place.scheme = FALSE] \in [provider : Other, place : Place]
        BY <2>1 DEF Place
      <3> QED
        BY <3>1, <3>2 DEF Storage, Normal, S3, Other
    <2>3. CASE s.provider \notin {"azure", "file"}
      BY <1>2, <2>1, <2>3 DEF Built, Storage, Normal
    <2> QED
      BY <2>2, <2>3
  <1> QED
    BY <1>1, <1>2

\* The URL of a location without a scheme.
LEMMA UrlType ==
    ASSUME NEW s \in Storage, Normal(s), s.provider \in S3 => s.endpoint # Blank
    PROVE  UrlOf(s) \in Url
  <1>1. CASE s.provider \in Other
    BY <1>1 DEF Storage, UrlOf, Url, S3, Other
  <1>2. CASE s.provider \notin Other
    <2>1. /\ s \in [provider : S3, bucket : BucketName, endpoint : Endpoint, insecure : BOOLEAN]
          /\ s.endpoint # Blank
          /\ s.endpoint # Empty => s.endpoint.scheme = "none"
      BY <1>2 DEF Storage, Normal, S3, Other
    <2>2. CASE s.endpoint = Empty
      BY <1>2, <2>1, <2>2 DEF UrlOf, Url
    <2>3. CASE s.endpoint # Empty
      <3>1. s.endpoint.host \in Host \cup {Empty}
        BY <2>1, <2>3 DEF Endpoint
      <3> QED
        BY <1>2, <2>1, <2>3, <3>1 DEF UrlOf, Url
    <2> QED
      BY <2>2, <2>3
  <1> QED
    BY <1>1, <1>2

LEMMA TypeInit == Init => TypeOK
  BY InputsAssumption DEF Init, TypeOK, InputsAssumption, Input

LEMMA TypeNext == TypeOK /\ StageInv /\ [Next]_vars => TypeOK'
  <1> SUFFICES ASSUME TypeOK, StageInv, [Next]_vars PROVE TypeOK'
    OBVIOUS
  <1>1. StageInv'
    BY StageNext
  <1>2. input' = input /\ input \in Input /\ Found' = Found /\ Resolution' = Resolution
    BY DEF Next, Resolve, New, OpenBucket, vars, Found, Resolution, Inferred, Overridden, StageInv
  <1>3. Found # NoStorage => Resolution \in Storage
    BY <1>2, ResolutionS3, ResolutionOther
  <1>4. CASE Resolve
    <2>1. CASE Refuse
      BY <1>2, <1>4, <2>1 DEF Refuse, Resolve, TypeOK
    <2>2. CASE stage' = "resolved"
      <3>1. cfg' = Resolution /\ Found # NoStorage
        BY <1>1, <1>2, <2>2 DEF StageInv
      <3> QED
        BY <1>2, <1>3, <1>4, <2>2, <3>1 DEF Resolve, Refuse, TypeOK
    <2> QED
      BY <1>4, <2>1, <2>2 DEF Resolve
  <1>5. CASE New
    <2>1. CASE Refuse
      BY <1>2, <1>5, <2>1 DEF Refuse, New, TypeOK
    <2>2. CASE stage' = "built"
      <3>1. cfg' = Built(Resolution) /\ Found # NoStorage /\ ~Malformed(Resolution)
        BY <1>1, <1>2, <2>2 DEF StageInv, Malformed, Built, Normalized, Bare
      <3>2. Built(Resolution) \in Storage /\ Normal(Built(Resolution))
        BY <1>3, <3>1, BuiltType
      <3>3. cfg' # NoStorage
        BY <3>1, <3>2, InputsAssumption DEF InputsAssumption
      <3>4. url' = url /\ Normal(cfg')
        BY <1>5, <2>2, <3>1, <3>2 DEF New, Refuse
      <3> QED
        BY <1>2, <2>2, <3>1, <3>2, <3>3, <3>4 DEF TypeOK, Normal
    <2> QED
      BY <1>5, <2>1, <2>2 DEF New
  <1>6. CASE OpenBucket
    <2>1. cfg = Built(Resolution) /\ Found # NoStorage /\ ~Malformed(Resolution)
      BY <1>6 DEF OpenBucket, StageInv
    <2>2. UrlOf(cfg) \in Url
      <3>1. cfg \in Storage /\ Normal(cfg) /\ (Resolution.provider \in S3 => cfg.endpoint # Blank)
        BY <1>3, <2>1, BuiltType
      <3>2. cfg.provider \in S3 => Resolution.provider \in S3
        BY <2>1 DEF Built
      <3> QED
        BY <3>1, <3>2, UrlType
    <2> QED
      BY <1>2, <1>6, <2>2 DEF OpenBucket, TypeOK, Normal
  <1>7. CASE UNCHANGED vars
    BY <1>7 DEF vars, TypeOK, Normal
  <1> QED
    BY <1>4, <1>5, <1>6, <1>7 DEF Next

\* Every value has its type; a client that is built holds a location without a
\* scheme, which is what bucketURL relies on.
THEOREM TypeCorrect == Spec => []TypeOK
  BY StageInvariant, TypeInit, TypeNext, PTL DEF Spec

===============================================================================
