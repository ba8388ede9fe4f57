SPECIFICATION IntentSpec
CONSTANTS
    ma = ma
    broken = broken
    Model = {ma}
    Candidates <- MCCandidates
    Dim <- MCDim
    Table <- MCTable
    Intents <- MCIntents
    Unit = 10
    Full = 2
    Trusted = 1
    Feedback <- MCFeedback
    Contents <- MCContents
    Broken = broken
    Request = {"r1", "r2"}
    Message = {"hello", "bye"}
    Ttl = 0
    MaxEntries = 1
    MaxWrites = 2
    MaxFeedback = 1
    MaxCrashes = 1
INVARIANTS
    IntentIsAnswered
    RatingsAreWhole
PROPERTIES
    ReloadCatchesUp
CHECK_DEADLOCK FALSE
