SPECIFICATION Spec
CONSTANTS
    a = a
    b = b
    Phrase = {a, b}
    Blank = Blank
    Nothing = Nothing
    Attempts = 3
INVARIANTS OverrideWiped
CHECK_DEADLOCK FALSE
