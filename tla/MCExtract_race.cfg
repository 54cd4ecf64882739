SPECIFICATION Spec
CONSTANTS
    p1 = p1
    p2 = p2
    a = a
    b = b
    c = c
    old = old
    new1 = new1
    new2 = new2
    m1 = m1
    m2 = m2
    Torn = Torn
    Private = Private
    Missing = Missing
    Directory = Directory
    NoTemp = NoTemp
    Proc = {p1}
    Path = {a, b}
    Data = {old, new1, new2}
    Mode = {m1, m2}
    Archive <- GoodArchive
    Overwrite <- NoOverwrite
    Unreadable = {}
    Editable = {b}
PROPERTIES ExistingKept
CHECK_DEADLOCK FALSE
