SPECIFICATION GatherSpec
CONSTANTS
    old = old
    new = new
    outside = outside
    m1 = m1
    m2 = m2
    OddMode = OddMode
    Missing = Missing
    Directory = Directory
    Special = Special
    Data = {old, new, outside}
    Mode = {m1, m2}
    MaxDoubleStarDirs = 2
    Place <- MCPlace
    Editable <- MCEditable
    Edited <- MCEdited
    Inputs <- MCInputs
INVARIANTS GatherTypeOK UntouchedArePacked OnlySelectedArePacked ArchivedInOrder
CHECK_DEADLOCK FALSE
