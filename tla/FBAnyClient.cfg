CONSTANTS
    Regs = 1
    U16Max = 2
    NoBlock = NoBlock
    MaxBlocks = 2
    MaxScopes = 3
    MaxNest = 1
    MaxVars = 2
    MaxJumps = 1
    SwitchOnce = FALSE
    OneParent = FALSE
    ContinueAfterError = TRUE
SPECIFICATION FBSpec
INVARIANTS
    OwnedExactlyOnce
    ParamsInEntry
CHECK_DEADLOCK FALSE
