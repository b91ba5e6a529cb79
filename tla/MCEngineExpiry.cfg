CONSTANTS
    k1 = k1
    k2 = k2
    a = a
    b = b
    Key = {k1, k2}
    NoName = NoName
    INT64_MAX = 8
    kBase = 2
    kCandidates = 10
    kMsPerSec = 3
    U64 = 18
    MaxTime = 3
    Requests <- ExpiryRequests
    Lru = FALSE
    kEvictBatch = 1
    ServePressure = {FALSE}
    RestorePressure = {TRUE, FALSE}
    MaxLog = 4
    MaxLogAfter = 3
    MaxRestarts = 1
    MaxEventId = 3
    MaxEvictions = 1
    Rewrites = {FALSE}
SPECIFICATION Spec
INVARIANT ExpiresMapMatchesTimers
INVARIANT PoolMatchesContent
PROPERTY NoEarlyExpiry
