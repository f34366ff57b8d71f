SPECIFICATION Spec
CONSTANTS
    f1 = f1
    f2 = f2
    Ids <- Findings
    RecSeverities = {"critical", "warning", "info"}
    MinSeverity = "warning"
    QueueSize = 2
    DeliveryAttempts = 2
    CounterModulus = 1
SYMMETRY Symmetry
INVARIANTS
    TypeOK
    OpenTracksFindings
    ReceiverAgrees
    ClosedMeansDrained
PROPERTY ImplementsLifecycle
