SPECIFICATION ApiSpec
CONSTANTS
    T <- BriefT
    Environments <- Irregular
    RetentionPeriod = 6
    RetentionSamples = 3
    MinRank = 1
    Filters <- Asked
    Requests = {r1}
CHECK_DEADLOCK FALSE
INVARIANTS
    TypeOK
    SustainedIsPersistence
    SustainedIsReal
    AnswerNotContradictory
    AnswerEvidenceIsTrue
PROPERTY BlindnessWithdrawsNothing
