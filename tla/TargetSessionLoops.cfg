SPECIFICATION Spec
CONSTANTS
    RingSize = 1
    PersistEvery = 2
    JoinTimesOut = FALSE
    MaxSeq = 3
    MaxPush = 3
    MaxRun = 2
    MaxLoop = 2
    MaxCrash = 1
    MaxFault = 1
INVARIANT TypeOK
INVARIANT NoSilentLoss
INVARIANT NothingTwice
PROPERTY Delivered
CHECK_DEADLOCK FALSE
