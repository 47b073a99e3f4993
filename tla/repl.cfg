SPECIFICATION FairSpec
CONSTANTS
    Scripts <- MCScripts
    Codes = {0, 3}
    Wide = 1024
    MaxSignals = 3
INVARIANTS
    TypeOK
    TermStopsSoon
    CodeSeen
PROPERTIES
    Ends
    ExitAsMeant
CHECK_DEADLOCK FALSE
