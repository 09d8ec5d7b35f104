SPECIFICATION FairSpec
CONSTANTS
    Specs = {s1, s2, s3}
    Labels = {l1, l2}
    Edits = {s2, e1}
    None = None
    Workloads <- Predictable
    MaxUpdates = 2
    MaxEdits = 2
    MaxConflicts = 2
INVARIANTS
    MatchIsOurs
PROPERTIES
    Repairs
CHECK_DEADLOCK FALSE
