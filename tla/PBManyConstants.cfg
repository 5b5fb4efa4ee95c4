CONSTANTS
    WordCells = 2
    MaxNarrow = 1
    ConstMod = 2
    SymbolAddr <- Addresses
    Clients <- ManyConstants
    StackSlots = {0}
    Targets <- JumpTargets
    MaxStencils = 4
SPECIFICATION ProgramSpec
INVARIANTS
    ImageRuns
CHECK_DEADLOCK FALSE
