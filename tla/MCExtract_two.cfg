SPECIFICATION FairSpec
CONSTANTS
    p1 = p1
    p2 = p2
    a = a
    b = b
    c = c
    old = old
    new1 = new1
    new2 = new2
    m1 = m1
    m2 = m2
    Torn = Torn
    Private = Private
    Missing = Missing
    Directory = Directory
    NoTemp = NoTemp
    Proc = {p1, p2}
    Path = {a, b, c}
    Data = {new1, new2}
    Mode = {m1, m2}
    Archive <- TwoArchives
    Overwrite <- MCOverwrite
    Unreadable = {a}
    Editable = {b}
INVARIANTS TypeOK NeverTorn NoLitter TempInv PutOrReported
PROPERTIES ImplementsAtomicExtract KeptWhenAlone Termination
CHECK_DEADLOCK FALSE
