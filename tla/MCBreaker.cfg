\* Two dispatches, restarts and crashes, a saved snapshot that may be
\* arbitrarily old.
SPECIFICATION FairSpec
CONSTANTS
    Threshold = 2
    Window = 3
    Cooldown = 2
    MaxJitter = 1
    Dispatchers = {d1, d2}
INVARIANTS
    CooldownHonoured
PROPERTIES
    TripsAreEarned
    OpenIsLeft
