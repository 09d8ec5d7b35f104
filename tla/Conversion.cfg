SPECIFICATION Spec
CONSTANTS
    None = None
    Failed = Failed
    Texts <- MCStrings
    Words <- MCStrings
    Labels = {"a", "b", "service"}
    Word <- MCWord
    Names <- MCNames
    Scenarios <- MCScenarios
    NodePorts <- MCNodePorts
    Nodes <- MCNodes
INVARIANTS
    HistoryFree
    PlacementAsWritten
    ReachableAsWritten
PROPERTIES
    SettledIsQuiet
    OthersKept
    RefusedExplained
