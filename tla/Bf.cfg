CONSTANTS
    MaxLen = 5
    MaxLoopLen = 6
    MaxIoLen = 3
    MaxPrinted = 3
    TapeSize = 2
    CheckAfter = 2
    Padding = 3
    CellSize = 3
    Fuel = 30
SPECIFICATION Spec
INVARIANTS
    BfTypeOK
    SameOutcome
    InPaddedTape
    BlocksUsedUp
    ParserPromises
PROPERTY
    Terminates
CHECK_DEADLOCK FALSE
