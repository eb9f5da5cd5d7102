SPECIFICATION MCSpec
CONSTANTS
    Publication <- SevenPublications
    PageSize = 2
    MaxPages = 3
    FingerprintRows = 1
    None = None
    ChangeBound = 2
    FaultBound = 1
INVARIANTS
    ContinuationHidesNothing
    SkipMissesNothing
    RunWithinBudget

    
