SPECIFICATION FairSpec
CONSTANTS
    Addr = {"s", "p", "q", "r", "v", "w", "m", "x"}
    NoAddr = NoAddr
    Chain = {"eth", "bnb", "sol"}
    NoChain = NoChain
    Registered = {"eth", "bnb"}
    Suspect = "s"
    SourceChain = "eth"
    Role <- MCRole
    Labelled = {}
    MaxOneChain = 5
    MaxTwoChains = 4
    Ledgers <- MCLedgers
    MaxHops = 3
    MaxCandidates = 3
    HubThreshold = 2
    TxLimit = 3
INVARIANTS
    TypeOK
    TrailsAreReal
    StopsAtTerminals
    HopBudget
    ReportedOnce
    FindsNearest
PROPERTY Terminates
