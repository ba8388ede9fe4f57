SPECIFICATION SelectionSpec
CONSTANTS
    Backends <- MCBackends
    Tier <- MCTier
    ProviderOf <- MCProviderOf
    NameOf <- MCNameOf
    Cost <- MCCost
    Priority <- MCPriority
    ToolUsers = {"a1", "a2", "b1", "c1"}
    Dear = {}
    Limit <- MCLimit
    Tracked = {"a", "b", "c", "ollama"}
    Window = 131072
    Heard = {"a1", "a3"}
    FloorOf <- MCFloorOf
    StakesOf <- MCStakesOf
    Orders <- MCOrders
    Matches <- MCMatches
    RoleRank <- MCRoleRank
    MaxConsecutive = 1
    MaxChanges = 2
INVARIANTS
    EscalationIsMonotone
    OnlyTheTailRepeats
PROPERTIES
    RefusalIsEarned
    LoadedIsLeft
    BetterRanksFirst
    ListingIsWhole
CHECK_DEADLOCK FALSE
