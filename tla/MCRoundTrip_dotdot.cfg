SPECIFICATION Spec
CONSTANTS
    d1 = d1
    d2 = d2
    d3 = d3
    m1 = m1
    m2 = m2
    pw1 = pw1
    pw2 = pw2
    OddMode = OddMode
    Missing = Missing
    Directory = Directory
    Special = Special
    EmptyPassword = EmptyPassword
    Version = 2
    OtherVersion = 1
    Data = {d1, d2, d3}
    Mode = {m1, m2}
    Password = {pw1, pw2}
    Salt = {1, 2}
    Nonce = {1, 2}
    Ram = 20
    MaxDoubleStarDirs = 2
    Editable = {}
    Edited = {}
    Place <- MCPlace
    Inputs <- MCInputs
    DefaultParams <- MCDefault
    Blocks <- MCBlocks
    Decayed <- MCDecayed
    Shared <- MCShared
    Appearing <- MCAppearing
INVARIANTS RefusesOnlyUnsafe
CHECK_DEADLOCK FALSE
