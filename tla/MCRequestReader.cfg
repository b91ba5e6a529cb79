SPECIFICATION Spec
CONSTANTS
    Streams <- MCStreams
    kInitialCapacity = 8
    MaxFirstReads = 2
INVARIANTS
    StreamKept
    ErrorsOnlyAtStarOrFullBuffer
    EveryRecordLoaded
PROPERTIES
    StallsOnlyAfterAnArgument
    AtMostOneReadLate
CHECK_DEADLOCK FALSE
