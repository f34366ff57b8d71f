SPECIFICATION FairSpec
CONSTANTS
    NTargets = 3
    Concurrency = 2
    SinkQueue = 1
    Kubernetes = TRUE
    MaxCycles = 2
INVARIANTS
    TypeOK
    CyclesDoNotOverlap
    ReadyMeansScraped
    ClosedAfterCollector
    SnapshotsAccountedFor
PROPERTIES
    ShutdownCompletes
    BecomesReady
