CONSTANTS
    MaxLen = 0
    MaxLoopLen = 6
    MaxIoLen = 0
    MaxPrinted = 0
    TapeSize = 2
    CheckAfter = 2
    Padding = 3
    CellSize = 3
    Fuel = 30
SPECIFICATION Spec
INVARIANT ClosedLoopsAdd
CHECK_DEADLOCK FALSE
