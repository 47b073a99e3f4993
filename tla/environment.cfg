SPECIFICATION DirSpec
CONSTANTS
    Environs <- MCEnvirons
    Exports <- MCExports
    Unsets <- MCUnsets
    Dirs <- MCDirs
    Deep <- MCDeep
    Parts <- MCParts
    Values <- MCValues
    NextLevel <- MCNextLevel
    FirstLevel <- MCFirstLevel
    ShellPath <- MCShellPath
    Oversized <- MCOversized
    ArenaWords = 10
INVARIANTS
    TypeOK
    TerminatorFits
    CrashOnlyAtLimits
    DirectoriesAgree
PROPERTIES
    RefinesMap
CHECK_DEADLOCK FALSE
