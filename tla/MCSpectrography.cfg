SPECIFICATION Spec
CONSTANTS
    ma = ma
    mb = mb
    p1 = p1
    p2 = p2
    Model = {ma, mb}
    Probes <- MCProbes
    Dim <- MCDim
    DimsOf <- MCDimsOf
    Unit = 2
    Options <- MCOptions
    Score <- MCScore
    Confirm = 0
    Review = 1
    MinResults = 2
    MaxRuns = 2
    MaxCrashes = 1
INVARIANTS
    FinishedRunIsBacked
    KillLosesOneCall
PROPERTIES
    PaidOnce
    WritesAreAnnounced
CHECK_DEADLOCK FALSE
