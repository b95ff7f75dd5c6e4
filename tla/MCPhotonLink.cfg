SPECIFICATION Spec
CONSTANTS
    Ends = {a, b}
    CounterMax = 3
    WrapGap = 0
    HistoryLimit = 2
    ConnectTimeout = 1
    KeepaliveInterval = 1
    StaleTimeout = 3
    InitialBackoff = 1
    MaxBackoff = 3
    MaxCuts = 1
    MaxLosses = 2
    MaxRestarts = 2
INVARIANTS TypeOK RecoversInTime
PROPERTY ExchangesEnd
