SPECIFICATION PassSpec
CONSTANTS
    ScholarCount = 2
    PassPages = 3
    NetworkRetries = 1
    RateLimitRetries = 1
    BlockedThreshold = 1
    NetworkThreshold = 2
INVARIANTS
    BlockedRunCoolsDown
CHECK_DEADLOCK FALSE
