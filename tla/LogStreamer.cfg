SPECIFICATION FairSpec
CONSTANTS
    p1 = p1
    p2 = p2
    Pods = {p1, p2}
    Logs <- ShortLogs
    None = None
    Bad = Bad
    Requests <- Arguments
    Cap = 2
    MaxEvents = 2
    MaxFailures = 1
INVARIANTS DrainedIsComplete SignalClosesAll
PROPERTIES Answers Follows GoroutinesEnd
CHECK_DEADLOCK FALSE
