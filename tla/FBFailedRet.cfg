CONSTANTS
    Regs = 1
    U16Max = 2
    NoBlock = NoBlock
    MaxBlocks = 3
    MaxScopes = 3
    MaxNest = 1
    MaxVars = 0
    MaxJumps = 1
    SwitchOnce = TRUE
    OneParent = TRUE
    ContinueAfterError = TRUE
SPECIFICATION FBSpec
INVARIANTS
    NoRunOff
CHECK_DEADLOCK FALSE
