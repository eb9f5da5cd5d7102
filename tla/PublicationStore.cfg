SPECIFICATION MCSpec
CONSTANTS
    a = a
    b = b
    s1 = s1
    s2 = s2
    None = None
    Scholar <- TwoScholars
    Session <- TwoSessions
    Candidate <- Candidates
    Page <- Pages
    MaxId = 3
    NearTitles <- TitlesNear
    Kinds <- SplitKinds
    Own <- Users
INVARIANTS
    StoredIsFound
PROPERTIES
    LinksSurvive
    IdentifiersSurvive
CHECK_DEADLOCK FALSE
