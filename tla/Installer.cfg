SPECIFICATION FairSpec
CONSTANTS
    Stacks = {s1, s2}
    CommandLines <- MCCommandLines
    Embedded <- MCEmbedded
    UpdateTags = {v2}
    KubeVersions <- MCKubeVersions
    v2 = v2
    bundle = bundle
    image = image
    Debug = debug
    Old = old
    None = None
    Failed = Failed
    UpdateFrom = {"crd"}
    MaxCommands = 2
    MaxInterruptions = 1
    MaxFailures = 1
    MaxCreates = 1
INVARIANTS StacksKept UpdateRestores InstallComplete UninstallComplete
PROPERTIES WorkloadsKept CommandsEnd
CHECK_DEADLOCK FALSE
