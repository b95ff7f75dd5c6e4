SPECIFICATION ServingSpec
CONSTANTS
    MaxFile = 0
    EmptyFiles = {}
    HeightLast <- MCHeightLast
    Depth = 1
    MaxHeight = 1
    MaxFaults = 0
INVARIANTS
    WitnessBlocksWhole
