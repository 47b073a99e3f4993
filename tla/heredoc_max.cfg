SPECIFICATION Spec
CONSTANTS
    Text = {"D", "E", "x", "y"}
    CommandLines <- MaxLines
    MAX_HEREDOCS = 3
    PipeCapacity = 2
    MaxInterrupts = 0
    MaxKills = 0
PROPERTIES
    RefusedAboveMax
CHECK_DEADLOCK FALSE
