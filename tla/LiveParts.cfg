SPECIFICATION MCSpec
CONSTANTS
    q1 = q1
    q2 = q2
    k1 = k1
    k2 = k2
    s1 = s1
    s2 = s2
    r1 = r1
    t1 = t1
    t2 = t2
    t3 = t3
    p1 = p1
    p2 = p2
    p3 = p3
    ScholarCount = 3
    PassPages = 3
    NetworkRetries = 1
    RateLimitRetries = 1
    BlockedThreshold = 1
    NetworkThreshold = 2
    Paper = {p1, p2, p3}
    TitleOf <- SharedTitle
    ChunkSize = 2
    Attempts = 3
    DateRanges = 3
    MaxPasses = 2
    Request = {q1, q2}
    Key = {k1, k2}
    NoKey = NoKey
    Attempt <- MCAttempt
    NoHolder = NoHolder
    Stream = {s1, s2}
    Watched = {r1}
    NoRun = NoRun
    QueueSize = 2
    MaxEvents = 4
    Task = {t1, t2, t3}
    Nesting = {t1, t2}
    PoolSize = 1
    MaxOverflow = 2
    Reserved = 1
    Session = {s1, s2}
    NoSession = NoSession
    BlockedTime = 3
    NetworkTime = 1
INVARIANTS
    PartsTypeOK
    VerdictMatchesEntries
    ProgressAddsUp
    AsksNoMore
    OneRunPerKey
    RetryNamesItsRun
    RegistryHoldsOpenStreams
    SomebodyGoesOn
PROPERTIES
    KeepsFeed
    BackgroundServed
    CooldownEnds
CHECK_DEADLOCK FALSE
