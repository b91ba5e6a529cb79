CONSTANTS
    k1 = k1
    k2 = k2
    a = a
    b = b
    Key = {k1, k2}
    NoName = NoName
    INT64_MAX = 2
    kBase = 2
    kCandidates = 10
    kMsPerSec = 1
    U64 = 6
    MaxTime = 1
    Requests <- DataRequests
    Lru = TRUE
    kEvictBatch = 1
    ServePressure = {TRUE, FALSE}
    RestorePressure = {FALSE}
    MaxLog = 3
    MaxLogAfter = 0
    MaxRestarts = 1
    MaxEventId = 2
    MaxEvictions = 0
    Rewrites = {TRUE, FALSE}
SPECIFICATION Spec
INVARIANT RestoreBringsBack
INVARIANT RewriteBringsBack
PROPERTY EvictionsAreLogged
PROPERTY IntegersNeverWrap
