SPECIFICATION Spec
CONSTANTS
    None = None
    Keys = {"asymmetric", "symmetric", "second"}
    Users = {"alice"}
    Emails = {}
    Settings <- MCSettings
    Tokens <- MCTokens
    MaxTime = 4
\* The clock stops at MaxTime.
CHECK_DEADLOCK FALSE
INVARIANTS
    
    LapseIsFinal
