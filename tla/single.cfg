SPECIFICATION Spec
CONSTANTS
    OpenMax = 6
    ExitCodes = {0, 3}
    Lines <- SomeLines
INVARIANTS
    TypeOK
    StreamsBack
    NothingHeld
    ChildWired
