\* A cascading caller and two pinned ones, limits per minute and day and tokens.
SPECIFICATION Spec
CONSTANTS
    Cascading = {c1}
    Pinned = {p1, p2}
    Rows = {r1, r2, r3, r4, r5}
    Tokens = {1}
    MaxTokens = 1
    MaxAttempts = 2
    RpmLimit = 1
    RpdLimit = 2
    TpmLimit = 1
    DailyTokenCap = 2
    Window = 1
    Day = 3
    CleanupEvery = 2
SYMMETRY Symmetry
INVARIANTS
    OvershootIsBounded
    DayIsComplete
