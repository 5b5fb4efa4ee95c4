CONSTANTS
    WordBits = 3
    Libraries <- MCLibraries
    Allowed = {"alloc", "free"}
    NarrowBits = 2
    MaxIndex = 31
    MaxSymbols = 2
    StackSlots = 2
    Window = 3
    MaxOdd = 2
SPECIFICATION Spec
INVARIANTS
    LibraryTypeOK
    ExpandsEachOnce
    MetadataAgrees
    ListsIntact
    CallsArrive
    StencilComputes
    SelectFinds
    EmptyForRepeats
    LongJumpIsWide
CHECK_DEADLOCK FALSE
