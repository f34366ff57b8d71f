SPECIFICATION Spec
CONSTANTS
    Exposed <- SomeExposed
    Requests <- AnyRequest
    MaxValue = 2
    Elapses <- ClockSteps
    MaxScrapes = 3
    MaxRestarts = 1
CHECK_DEADLOCK FALSE
INVARIANTS
    TypeOK
    RatesAreTrue
    RatiosAreShares
