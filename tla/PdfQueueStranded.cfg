SPECIFICATION FairSpec
CONSTANTS
    p1 = p1
    p2 = p2
    t1 = t1
    t2 = t2
    Publication <- TwoPublications
    Task <- OneTask
    NoPublication = NoPublication
    MaxAttempts = 1
    AttemptBound = 2
    WritesGetLost = FALSE
    RestartBound = 0
PROPERTIES
    EnqueuedIsSettled
CHECK_DEADLOCK FALSE
