SPECIFICATION MCSpec
CONSTANTS
    p1 = p1
    p2 = p2
    t1 = t1
    t2 = t2
    Publication <- OnePublication
    Task <- TwoTasks
    NoPublication = NoPublication
    MaxAttempts = 2
    AttemptBound = 2
    WritesGetLost = TRUE
    RestartBound = 1
    a1 = a1
    a2 = a2
    a3 = a3
    Client = {a1, a2, a3}
    n1 = n1
    n2 = n2
    Name = {n1, n2}
    Nobody = Nobody
    BlockThreshold = 2
    CooldownTime = 1
    MinInterval = 1
    Jitter = 1
    Retries = 1
    AlertAt = 2
    AnswerTtl = 2
    BlockedTtl = 1
    CacheSize = 1
INVARIANTS
    ResolvedHasPdf
    InFlightAttended
    BreakerTrips
    AlertIsThisCooldowns
PROPERTIES
    QueuedIsServed
    AutomaticRetry
    ScholarIsPaced
    SearchEnds
CHECK_DEADLOCK FALSE
