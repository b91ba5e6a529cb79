CONSTANTS
    GroupBits = 2
    IntBits = 5
    Contents <- MCContents
    MaxSaves = 2
    MaxFailures = 1
SPECIFICATION Spec
INVARIANTS DumpIsLastSnapshot LoadBringsBack TornDumpKeepsWholeItems
PROPERTY DumpOnlyReplaced
CHECK_DEADLOCK FALSE
