SPECIFICATION MCSpec
CONSTANTS
    resolver = resolver
    second = second
    c1 = c1
    c2 = c2
    c3 = c3
    here = here
    there = there
    paper = paper
    Caller <- Callers
    Process = {here, there}
    ProcessOf <- TwoProcesses
    Query = {paper}
    Interval = 1
    Cooldown = 2
    Ttl = 1
    MaxEntries = 1
    PoolSize = 2
    None = None
    Task = {resolver, second}
    Worker = {w1}
    BatchSize = 2
    Attempts = 2
    Ranges = 2
    Crawls = 1
    SlotInterval = 1
    Budget = 1
INVARIANTS
    WaitersAttended
PROPERTIES
    ArxivIsPaced
    UnpaywallSpaced
    LookupEnds
    RowDecided
