SPECIFICATION Spec
CONSTANTS
    Far = 3
    InitWait = 0
    Settle1 = 0
    Settle2 = 1
    DriftPeriod = 1
    SyncPeriod = 4
    FixTimeout = 1
    PowerTimeout = 3
    FilterSize = 2
    MaxSlew = 2
    MaxTrouble = 2
INVARIANTS TypeOK SteppedOnce NoTimerLeft
PROPERTIES CompensatesTrueError 
CHECK_DEADLOCK FALSE
