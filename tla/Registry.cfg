SPECIFICATION FairSpec
CONSTANTS
    fa = fa
    fb = fb
    bad = bad
    a = a
    b = b
    odd = odd
    alice = alice
    bob = bob
    front = front
    back = back
    agent = agent
    None = None
    NoFile = NoFile
    Files = {fa, bad}
    Contents = {a, b, odd}
    Convertible = {a, b}
    ParsedAs <- Parses
    Services = {front, back, agent}
    Globals = {agent}
    Counts = {2}
    Users = {alice, bob}
    Skips = {"1", "true"}
    Bodies = {"kept"}
    OldEra = TRUE
    MaxWrites = 3
INVARIANT FileTellsStack
INVARIANT AvailableIsApplied
PROPERTY StatusKeepsFile
PROPERTY Converges
PROPERTY FailureReported
PROPERTY StatusSettles
