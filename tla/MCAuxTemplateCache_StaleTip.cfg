SPECIFICATION Spec
CONSTANTS
    Workers = {w1, w2}
    Contents = {x, y}
    Expiry = 1
    CacheLimit = 2
    MaxTip = 1
    MaxTime = 1
    MaxStores = 2
SYMMETRY Symmetry
INVARIANTS
    CachedWhileCurrent
