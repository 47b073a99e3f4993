SPECIFICATION Spec
CONSTANTS
    OpenMax = 7
    Lines <- SomeLines
    Builtins = {"echo"}
    MaxHeredocs = 2
    ArenaFails = TRUE
INVARIANTS
    TypeOK
    RejectedClean
    TableOwned
    LineMeaning
