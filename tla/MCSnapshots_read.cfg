SPECIFICATION Spec
CONSTANTS
    p1 = p1
    p2 = p2
    u1 = u1
    old = old
    nested = nested
    folder = folder
    sibling = sibling
    Absent = Absent
    NoKey = NoKey
    NoBody = NoBody
    Packs = {p1, p2}
    Readers = {u1}
    Client = {p1, p2, u1}
    Name <- MCName
    Payload <- MCPayload
    Body <- MCBody
    Key <- MCKey
    Preexisting <- MCPreexisting
    Expirable <- SomeKeys
    Oversized = {}
    Skew <- MCSkew
    Rand4 <- DistinctRand4
    Select <- SelectNewestOrAt
    MaxTime = 2
    Waits = 1
    Requests = 1
    Interruptible = {}
    Faults <- FlakyForU1
INVARIANTS TypeOK ListingInv
PROPERTIES NothingNewerMissed PickedFromTheBucket PickedWasNewest
CHECK_DEADLOCK FALSE
