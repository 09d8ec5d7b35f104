SPECIFICATION FairSpec
CONSTANTS
    w1 = w1 w2 = w2 c1 = c1 c2 = c2
    None = None
    Services = {w1, w2}
    Configs = {c1, c2}
    UserSpecs <- AllSpecs
    Users = {alice}
    MaxCopies = 1
    MaxLag = 1
    MaxNotif = 3
    Scenarios <- UpdateScenarios
INVARIANTS
    CleanIsApplied
    PendingIsScheduled
PROPERTIES
    Converges
    SpecOnlyByUsers
CHECK_DEADLOCK FALSE
