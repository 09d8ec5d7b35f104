SPECIFICATION FairSpec
CONSTANTS
    None = None
    Junk = Junk
    Hosts = {h1, h2, h3}
    FirstHosts = {h1, h2}
    NVersions = 2
    MaxAttempts = 2
    MaxFaults = 2
INVARIANTS
    ServingIsTrusted
    OneCAPerName
PROPERTIES
    AllServe
CHECK_DEADLOCK FALSE
