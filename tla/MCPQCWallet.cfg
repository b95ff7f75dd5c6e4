SPECIFICATION FairSpec
CONSTANTS
    Keys = {k1}
    Signers = {s1, s2}
    MaxSignatures = 3
    MaxBatch = 2
INVARIANTS
    TypeOK
    SignaturesDurable
    TagsMatch
    LockWaits
PROPERTIES
    NeverReassigned
    CounterMonotone
    LockEnds
