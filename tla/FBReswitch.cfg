CONSTANTS
    Regs = 1
    U16Max = 2
    NoBlock = NoBlock
    MaxBlocks = 3
    MaxScopes = 4
    MaxNest = 1
    MaxVars = 2
    MaxJumps = 1
    SwitchOnce = FALSE
    OneParent = TRUE
    ContinueAfterError = FALSE
SPECIFICATION FBSpec
INVARIANTS
    AcceptedHandlesLive
CHECK_DEADLOCK FALSE
