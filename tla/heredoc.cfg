SPECIFICATION FairSpec
CONSTANTS
    Text = {"D", "E", "x", "y"}
    CommandLines <- MCLines
    MAX_HEREDOCS = 3
    PipeCapacity = 2
    MaxInterrupts = 2
    MaxKills = 1
INVARIANTS
    TypeOK
    EndsClosed
    CancelRespected
    GivenUpClean
PROPERTIES
    ImplementsJob
    EndsOrBlocks
    
CHECK_DEADLOCK FALSE
