SPECIFICATION EngineSpec
CONSTANTS
    Addr = {"s", "p", "q", "r", "v", "w", "m", "x"}
    NoAddr = NoAddr
    Chain = {"eth", "bnb"}
    NoChain = NoChain
    Registered = {"eth", "bnb"}
    Suspect = "s"
    SourceChain = "eth"
    Role <- MCRole
    Labelled = {"v", "m", "x", "q"}
    AddrOrder <- MCOrder
    MaxOneChain = 6
    MaxDecaying = 6
    MaxTwoChains = 6
    Ledgers <- MCLedgers
    MaxHops = 4
    MaxCandidates = 64
    HubThreshold = 2
    TxLimit = 100
INVARIANTS
    EngineTypeOK
    OutcomeFitsLedger
    AttributionIsBacked
    MixerHardStop
    TierMeansEvidence
    AgeCostsTwoHops
    ResultsComeFromSearch
