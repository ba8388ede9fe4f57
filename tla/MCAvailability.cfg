\* Two processes that share the database, two models of one provider.
SPECIFICATION Spec
CONSTANTS
    Processes = {p1, p2}
    Models = {m1, m2}
    OneProvider = v1
    Providers <- MCProviders
    ProviderOf <- MCProviderOf
    Ttl403 = 2
    Ttl429 = 1
    Ttl5xx = 1
    ProviderTtl = 2
    ProviderThreshold = 2
SYMMETRY Symmetry
INVARIANTS
    GoneStaysOut
    SuspensionIsEarned
    ProviderSuspensionIsCounted
PROPERTY
    KeepsAvailability
