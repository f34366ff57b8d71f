SPECIFICATION Spec
CONSTANTS
    T <- SmallT
    Environments <- Quick
    RetentionPeriod = 9
    RetentionSamples = 2
    MinRank = 1
CHECK_DEADLOCK FALSE
INVARIANT RetentionOutlastsSustain
