SPECIFICATION Spec
CONSTANTS
    a = a
    b = b
    Phrase = {a, b}
    Blank = Blank
    Nothing = Nothing
    Attempts = 3
PROPERTIES CancelledPromptYieldsNothing
CHECK_DEADLOCK FALSE
