SPECIFICATION Spec
CONSTANTS
    u1 = u1
    u2 = u2
    r1 = r1
    r2 = r2
    r3 = r3
    User <- OneUser
    Run <- TwoRuns
    NoRun = NoRun
    NoUser = NoUser
    Outcome = {"success", "failed"}
    MaxBoundaries = 1
PROPERTY CanceledIsFinal
