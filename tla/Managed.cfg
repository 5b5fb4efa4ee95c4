CONSTANTS
    Regs = 1
    U16Max = 2
    NoBlock = NoBlock
    MaxBlocks = 3
    MaxScopes = 3
    MaxNest = 1
    MaxVars = 2
    MaxJumps = 2
    SwitchOnce = TRUE
    OneParent = TRUE
    ContinueAfterError = FALSE
    MaxStencils = 5
SPECIFICATION ManagedSpec
INVARIANTS
    VariablesKeepValues
    LocationsStay
    FrameHoldsCode
    RunStaysInCode
CHECK_DEADLOCK FALSE
