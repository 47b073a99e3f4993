SPECIFICATION GrowthSpec
CONSTANTS
    Capacity = 16
    Sizes <- SomeSizes
    MaxBlocks = 5
    Commands <- MCCommands
    Lookups <- MCLookups
    StructSize = 2
    PointerSize = 1
    DaCap = 2
    StrCap = 2
    BufCap = 4
INVARIANTS
    PlacesApart
    ArgumentsIntact
PROPERTIES
    StoresInside
