SPECIFICATION Spec
CONSTANTS
    T <- SmallT
    Environments <- Silent
    RetentionPeriod = 9
    RetentionSamples = 3
    MinRank = 1
CHECK_DEADLOCK FALSE
INVARIANT StaleIsReported
