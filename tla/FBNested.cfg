CONSTANTS
    Regs = 1
    U16Max = 2
    NoBlock = NoBlock
    MaxBlocks = 3
    MaxScopes = 3
    MaxNest = 2
    MaxVars = 1
    MaxJumps = 1
    SwitchOnce = TRUE
    OneParent = TRUE
    ContinueAfterError = FALSE
SPECIFICATION FBSpec
INVARIANTS
    AcceptedEncloses
CHECK_DEADLOCK FALSE
