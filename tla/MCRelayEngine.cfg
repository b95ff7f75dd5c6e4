SPECIFICATION Spec
CONSTANTS
    Prefixes = {1, 2, 3}
    Peers = {1, 2}
    Groups = {g}
    ChunkIds = {c1, c2}
    DataChunks = 2
    BadChunk = bad
    MaxEntries = 2
    MaxPerEntry = 2
    MaxBuffered = 3
    MaxAge = 0
    SeenCapacity = 2
    ChunksPerTick = 1
    TotalChunks = 1
    MaxTime = 1
SYMMETRY Symmetry
INVARIANTS
    TypeOK
    BufferAccounted
    KnownIsDone
    SeenMirrored
    KnownLongEnough
PROPERTIES
    NoRevival
    FullRejects
