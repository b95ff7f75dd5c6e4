SPECIFICATION Spec
CONSTANTS
    MaxFile = 3
    EmptyFiles = {1}
    HeightLast <- MCHeightLast
    Depth = 1
    MaxHeight = 4
    MaxFaults = 1
INVARIANTS
    TypeOK
    StartupSucceeds
    IndexMatchesFiles
    WitnessesKept
    FlagInTime
    WatermarkSound
    NeverRefuses
PROPERTY EligibleCompacted
