SPECIFICATION Spec
CONSTANTS
    fb = fb  yb = yb  eb = eb
    fh = fh  yh = yh  eh = eh
    Bucket = {fb, yb, eb}
    Host = {fh, yh, eh}
    DefaultBucket = DefaultBucket
    Unset = Unset
    Empty = Empty
    Blank = Blank
    NoStorage = NoStorage
    Inputs <- Cases
INVARIANTS TypeOK OpensWhatWasNamed NeverDowngraded AwsOnlyIfNamed
CHECK_DEADLOCK FALSE
