SPECIFICATION Spec
CONSTANTS
    p1 = p1
    p2 = p2
    u1 = u1
    old = old
    nested = nested
    folder = folder
    sibling = sibling
    Absent = Absent
    NoKey = NoKey
    NoBody = NoBody
    Packs = {p1, p2}
    Readers = {}
    Client = {p1, p2}
    Name <- MCName
    Payload <- MCPayload
    Body <- MCBody
    Key <- MCKey
    Preexisting <- MCPreexisting
    Expirable <- SomeKeys
    Oversized = {}
    Skew <- MCSkew
    Rand4 <- DistinctRand4
    Select <- SelectAny
    MaxTime = 2
    Waits = 1
    Requests = 2
    Interruptible = {p1}
    Faults <- HostileForP1
INVARIANTS SuccessIsStored FlakesAreWaitedOut
CHECK_DEADLOCK FALSE
