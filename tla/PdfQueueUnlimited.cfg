SPECIFICATION UnattendedSpec
CONSTANTS
    p1 = p1
    p2 = p2
    t1 = t1
    t2 = t2
    Publication <- OnePublication
    Task <- OneTask
    NoPublication = NoPublication
    MaxAttempts = 2
    AttemptBound = 4
    WritesGetLost = FALSE
    RestartBound = 0
INVARIANTS
    AttemptsWithinLimit
CHECK_DEADLOCK FALSE
