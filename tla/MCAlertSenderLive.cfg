SPECIFICATION FairSpec
CONSTANTS
    f1 = f1
    f2 = f2
    Ids <- Findings
    RecSeverities = {"critical"}
    MinSeverity = "warning"
    QueueSize = 1
    DeliveryAttempts = 2
    CounterModulus = 2
INVARIANT CountersAddUp
PROPERTIES
    ImplementsFairLifecycle
    CloseTerminates
    Converges
