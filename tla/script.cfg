SPECIFICATION FairSpec
CONSTANTS
    h = h
    c = c
    d = d
    newline = newline
    Scripts <- MCScripts
    NL = newline
    HereChar = h
    ProgramChar = c
    BUFFER_SIZE = 4
    ARG_MAX = 5
PROPERTIES
    RefinesScript
CHECK_DEADLOCK FALSE
