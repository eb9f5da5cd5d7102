SPECIFICATION FairSpec
CONSTANTS
    s1 = s1
    s2 = s2
    Scholar <- OneScholar
    MaxAttempts = 2
    AutoQueue = TRUE
    DepthPass = TRUE
    NoScholar = NoScholar
    MaxDisturbances = 3
INVARIANTS
    RetryingIsDue
PROPERTIES
    NoRunPastMaxAttempts
    DropHonoured
    
CHECK_DEADLOCK FALSE
