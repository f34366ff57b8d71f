SPECIFICATION Spec
CONSTANTS
    Targets <- EachKind
    DeploymentVersions <- Versions
    AutoscalerVersions <- Autoscalers
    MaxChanges = 3
CHECK_DEADLOCK FALSE
INVARIANTS
    EstimateInBucket
    PercentilesOrdered
    MissingIsTrue
    OwnModelOnly
    SaturatedDeviceShows
    WarnedOncePerOutage
    ContextWasReal
