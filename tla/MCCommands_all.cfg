SPECIFICATION FairSpec
CONSTANTS
    a = a
    b = b
    Phrase = {a, b}
    Blank = Blank
    Nothing = Nothing
    Attempts = 3
INVARIANTS TypeOK SealedAsTyped SourcesInOrder SecretsWiped SecretInv ConfigErrorsComeFirst
PROPERTIES Termination
CHECK_DEADLOCK FALSE
