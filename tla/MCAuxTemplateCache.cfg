SPECIFICATION Spec
CONSTANTS
    Workers = {w1, w2}
    Contents = {x, y}
    Expiry = 1
    CacheLimit = 1
    MaxTip = 1
    MaxTime = 2
    MaxStores = 3
SYMMETRY Symmetry
INVARIANTS
    TypeOK
    CacheBounded
    FreshWhenSubmitted
