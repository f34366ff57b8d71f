SPECIFICATION Spec
CONSTANTS
    T <- SmallT
    Environments <- Slow
    RetentionPeriod = 9
    RetentionSamples = 3
    MinRank = 1
CHECK_DEADLOCK FALSE
PROPERTY ResolvedMeansCleared
