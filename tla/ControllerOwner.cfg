SPECIFICATION Spec
CONSTANTS
    w1 = w1 w2 = w2 c1 = c1 c2 = c2
    None = None
    Services = {w1}
    Configs = {c1, c2}
    UserSpecs <- AllSpecs
    Users = {alice, bob}
    MaxCopies = 1
    MaxLag = 2
    MaxNotif = 3
    Scenarios <- HandingScenarios
PROPERTIES
    OwnerOnlyByUsers
CHECK_DEADLOCK FALSE
