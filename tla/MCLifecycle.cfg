\* One model, two roles, two faults and two uses of the command.
SPECIFICATION FairSpec
CONSTANTS
    profiled = profiled
    plain = plain
    coding = coding
    review = review
    Models = {profiled}
    Roles <- MCRoles
    Heuristic <- MCHeuristic
    Profile <- MCProfile
    MaxMisses = 3
    MaxFaults = 2
    MaxUpdates = 2
PROPERTIES
    GoneIsDelisted
    CataloguedIsListed
