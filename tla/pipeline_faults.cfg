SPECIFICATION Spec
CONSTANTS
    OpenMax = 8
    CommandTables <- FaultTables
    ExitCodes = {0, 3}
    MaxCommands = 4
    MaxPipeFailures = 2
    MaxForkFailures = 2
INVARIANTS
    TypeOK
    ChildrenWired
    StatusOfLast
    AllReaped
    NothingLeftOpen
