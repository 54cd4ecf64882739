SPECIFICATION FairSpec
CONSTANTS
    p1 = p1
    p2 = p2
    u1 = u1
    old = old
    nested = nested
    folder = folder
    sibling = sibling
    Absent = Absent
    NoKey = NoKey
    NoBody = NoBody
    Packs = {p2}
    Readers = {u1}
    Client = {p2, u1}
    Name <- MCName
    Payload <- MCPayload
    Body <- MCBody
    Key <- MCKey
    Preexisting <- MCPreexisting
    Expirable <- SomeKeys
    Oversized = {sibling}
    Skew <- MCSkew
    Rand4 <- DistinctRand4
    Select <- SelectAny
    MaxTime = 1
    Waits = 1
    Requests = 1
    Interruptible = {p2, u1}
    Faults <- HostileForPacks
INVARIANTS WaitsOnlyForFlakes RestoredIsPicked
PROPERTIES Termination
CHECK_DEADLOCK FALSE
