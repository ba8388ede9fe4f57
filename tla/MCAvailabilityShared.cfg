\* An expired row is pruned after another process has renewed it.
\* All TTLs are equal, so that no suspension is shortened by a later one.
SPECIFICATION Spec
CONSTANTS
    Processes = {p1, p2}
    Models = {m1}
    OneProvider = v1
    Providers <- MCProviders
    ProviderOf <- MCProviderOf
    Ttl403 = 2
    Ttl429 = 2
    Ttl5xx = 2
    ProviderTtl = 4
    ProviderThreshold = 2
INVARIANT
    SuspensionIsShared
