CONSTANTS
    WordCells = 2
    MaxNarrow = 1
    ConstMod = 8
    SymbolAddr <- Addresses
    Clients <- OneAndTwoBlocks
    StackSlots = {3}
    Targets <- JumpTargets
    MaxStencils = 3
SPECIFICATION ProgramSpec
INVARIANTS
    ProgramTypeOK
    ImageRuns
    DelayedInCode
    RefusedForCause
PROPERTIES
    OwnRegionOnly
CHECK_DEADLOCK FALSE
