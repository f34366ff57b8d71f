CONSTANTS
    DurationRange = 30000
    Files <- Written
    Environs <- Started
    Tokens = {"t1", "t2"}
SPECIFICATION Spec
INVARIANTS
    AssumptionsHold
    ValidatedStarts
    TokenDecides
CHECK_DEADLOCK FALSE
