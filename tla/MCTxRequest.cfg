SPECIFICATION FairSpec
CONSTANTS
    p1 = p1
    p2 = p2
    p3 = p3
    wtxid = wtxid
    parent = parent
    Peers = {p1, p2, p3}
    TxHashes = {wtxid, parent}
    Wtxids = {wtxid}
    Transactions <- MCTransactions
    Preferred = {p2}
    RelayPeers = {p3}
    WtxidPeers = {p1}
    Rank <- MCRank
    MaxAnnouncements = 1
    MaxInFlight = 1
    NonprefDelay = 1
    TxidDelay = 0
    OverloadDelay = 1
    GetdataInterval = 1
    MaxBack = 1
    MaxTracked = 3
INVARIANTS
    TypeOK
    SanityCheck
    OnlyBestRequested
    NoStrays
    LimitKept
PROPERTIES
    BestIsAsked
    ImplementsRules
    CandidatesServed
