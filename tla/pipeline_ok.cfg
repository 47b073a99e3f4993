SPECIFICATION FairSpec
CONSTANTS
    OpenMax = 11
    CommandTables <- OkTables
    ExitCodes = {0, 3}
    MaxCommands = 3
    MaxPipeFailures = 0
    MaxForkFailures = 0
PROPERTIES
    ImplementsJob
