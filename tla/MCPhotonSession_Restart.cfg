SPECIFICATION Spec
CONSTANTS
    a = a
    b = b
    Nodes = {a, b}
    CounterMax = 4
    WrapGap = 1
    HistoryLimit = 2
    StartsA = 2
    StartsB = 1
    SendsA = 2
    SendsB = 2
    MaxNet = 6
    MaxIncarnation <- MCMaxIncarnation
    SendBound <- MCSendBound
INVARIANT
    LiveNotRetired
CHECK_DEADLOCK FALSE
