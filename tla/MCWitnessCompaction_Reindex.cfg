SPECIFICATION Spec
CONSTANTS
    MaxFile = 2
    EmptyFiles = {1}
    HeightLast <- MCHeightLast
    Depth = 1
    MaxHeight = 3
    MaxFaults = 0
INVARIANTS
    ReindexGuarded
