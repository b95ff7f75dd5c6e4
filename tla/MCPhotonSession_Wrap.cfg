SPECIFICATION Spec
CONSTANTS
    a = a
    b = b
    Nodes = {a, b}
    CounterMax = 4
    WrapGap = 2
    HistoryLimit = 2
    StartsA = 1
    StartsB = 1
    SendsA = 5
    SendsB = 1
    MaxNet = 6
    MaxIncarnation <- MCMaxIncarnation
    SendBound <- MCSendBound
INVARIANT
    AcceptedOnce
CHECK_DEADLOCK FALSE
