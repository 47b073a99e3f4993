SPECIFICATION Spec
CONSTANTS
    Texts <- AllTexts
    Inputs <- MCInputs
    Letters <- MCLetters
    Digits <- MCDigits
    Code <- MCCode
    PathName <- MCPathName
    Files <- MCFiles
    NULL = NULL
INVARIANTS
    HandsOver
    TokensTile
    QuotesProtect
    ExpandedAsMeant
    FoundAsMeant
