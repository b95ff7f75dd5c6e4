SPECIFICATION Spec
CONSTANTS
    a = a
    b = b
    Nodes = {a, b}
    CounterMax = 4
    WrapGap = 1
    HistoryLimit = 2
    StartsA = 2
    StartsB = 1
    SendsA = 3
    SendsB = 3
    MaxNet = 6
    MaxIncarnation <- MCMaxIncarnation
    SendBound <- MCSendBound
INVARIANTS
    TypeOK
    SessionContiguous
    SessionOrder
    PostResetBaseline
CONSTRAINT
    NetBound
CHECK_DEADLOCK FALSE
