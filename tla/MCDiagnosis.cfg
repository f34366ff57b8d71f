SPECIFICATION Spec
CONSTANTS
    T <- BriefT
    Environments <- LongAndBroad
    RetentionPeriod = 8
    RetentionSamples = 8
    MinRank = 1
CHECK_DEADLOCK FALSE
INVARIANTS
    RetentionSuffices
    NoOppositeDiagnoses
    NothingSilencedInVain
    EvidenceIsTrue
