SPECIFICATION Spec
CONSTANTS
    Addr = {"s", "p", "q", "v", "w", "m", "x"}
    NoAddr = NoAddr
    Chain = {"eth", "bnb", "sol"}
    NoChain = NoChain
    Registered = {"eth", "bnb"}
    Suspect = "s"
    SourceChain = "eth"
    Role <- MCRole
    Labelled = {}
    MaxOneChain = 0
    MaxTwoChains = 3
    Ledgers <- MCLedgers
    MaxHops = 3
    MaxCandidates = 2
    HubThreshold = 3
    TxLimit = 3
INVARIANT WalksNodesChain
