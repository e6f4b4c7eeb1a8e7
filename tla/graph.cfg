SPECIFICATION Spec
CONSTANTS
    Wallet = {"a", "b", "c", "d"}
    Weight = {1, 3}
    Time = {1, 2}
    NoTime = NoTime
    None = None
    Links <- MCDetours
    Cutoff = 2
    MaxEdges = 4
    MaxDepth = 2
INVARIANTS
    TypeOK
    WindowBfsIsReach
    TemporalIsCheapest
