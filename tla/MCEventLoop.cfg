CONSTANTS
    kMsPerSec = 2
    U64 = 64
    U32 = 8
    MaxTime = 5
    Interval = {0, 1, 3, 5}
    Count <- MCCount
    kIdleWait = 2
    MaxEvents = 2
SPECIFICATION Spec
INVARIANT FiringBudget
PROPERTY DueTimersFire
