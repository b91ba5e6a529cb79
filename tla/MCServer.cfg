SPECIFICATION Spec
CONSTANTS
    c1 = c1
    Channel = {c1}
    Requests <- MCRequests
    MaxConnections = 2
    MaxRequests = 3
    MaxForks = 1
    SndBuf = 3
INVARIANTS
    SessionsAreWatched
    FreedSessionsAreForgotten
    SubscriptionsAgree
    MessagesGoToSubscribers
    OnlyMessagesCutOff
    RepliesAreWhole
PROPERTIES
    EverythingIsAnswered
CHECK_DEADLOCK FALSE
