\* One call and three backends; all other calls are part of the world.
SPECIFICATION FairSpec
CONSTANTS
    Backends = {b1, b2, b3}
    Calls = {c1}
    Odd = b1
    Alone = b3
    Tier <- MCTier
    ProviderOf <- MCProviderOf
INVARIANTS
    ExhaustionIsEarned
    TextCallsAreAccounted
    PolicyIsHonoured
PROPERTIES
    KeepsPromise
    NothingAskedWhileOut
    EveryCallEnds
