CONSTANTS
    Regs = 1
    U16Max = 2
    NoBlock = NoBlock
    MaxBlocks = 3
    MaxScopes = 3
    MaxNest = 1
    MaxVars = 3
    MaxJumps = 1
    SwitchOnce = TRUE
    OneParent = TRUE
    ContinueAfterError = FALSE
SPECIFICATION FBSpec
INVARIANTS
    FBTypeOK
    AcceptedHandlesLive
    LeftScopesEmpty
    StackInFrame
    FrameIsPeak
    CodeIsTargeted
    NoRunOff
    AcceptedEncloses
    ScopesDominate
CHECK_DEADLOCK FALSE
