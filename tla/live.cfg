SPECIFICATION Spec
CONSTANTS
    s = s
    t = t
    u = u
    v = v
    w = w
    NoAddress = NoAddress
    NoChain = NoChain
    Unknown = Unknown
    Nobody = Nobody
    DemoAddress = {s, t}
    DemoChain = {"ethereum", "bitcoin"}
    Configured <- MCConfigured
    Datasets <- MCDatasets
    Times = {0, 1}
    Limits = {2, 9}
    Party = {s, t, u, v, w}
    Sats = {0, 1, 2}
    Many = 2
    Suspect = s
    LiveLedger <- MCLedger
    LiveTime <- MCTime
    MaxHops = 3
    MaxCandidates = 2
    TxLimit = 4
INVARIANTS
    TypeOK
    DemoStaysOffline
    DemoKeepsPromise
    TrailsArePaid
    NothingMissed
    DeadEndsWereIdle
PROPERTY RequestsEnd
