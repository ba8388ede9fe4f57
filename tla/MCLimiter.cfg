\* Two processes, one limited and one unlimited key, clocks that lag by up to two.
SPECIFICATION FairSpec
CONSTANTS
    Processes = {p1, p2}
    Keys = {k1, k2}
    OneKey = k1
    OneLimit = 2
    Slots = {s1, s2, s3}
    Limit <- MCLimit
    SlotTtl = 2
    Window = 3
    MaxDelay = 2
INVARIANTS
    LiveWithinLimit
PROPERTIES
    AskersAreServed
