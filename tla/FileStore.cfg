\* Five instruments; two periods of two packet times, and a day of three; two stations
\* with slots of four seconds.
SPECIFICATION StoreSpec
CONSTANTS
    Kinds <- AllKinds
    MaxTime = 5
    Period = 2
    Day = 3
    MaxSize = 3
    NumSystems = 2
    TxPeriod = 4
    TxDeadTime = 2
    TxTime = 2
    CallTime = 1
    MaxPowerOns = 2
INVARIANTS TypeOK NoGapInFile ClosedInTime NothingLostSilently AirInSlot
PROPERTIES QueueIsHandled BothStop NotLeftKeyed
CHECK_DEADLOCK FALSE
