SPECIFICATION FairSpec
CONSTANTS
    NTargets = 2
    Concurrency = 1
    SinkQueue = 1
    Kubernetes = TRUE
    MaxCycles = 1
PROPERTY ScrapesWithoutKubernetes
