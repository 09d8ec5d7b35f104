SPECIFICATION FairSpec
CONSTANTS
    Values = {v1, v2, v3, v4}
    NoValue = NoValue
    BufferSize = 2
INVARIANTS
    NoLostValue
PROPERTIES
    EveryValueOutput
    ImplementsCoalescingQueue
CHECK_DEADLOCK FALSE
