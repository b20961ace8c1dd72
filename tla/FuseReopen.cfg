SPECIFICATION Spec
CONSTANTS
    Paths = {f}
    LargeFrom = 3
    SharedPaths = {}
    Handles = {h1}
    Workers = {w1}
    MaxWrites = 3
    MaxPending = 2
    MaxRetries = 1
    MaxFaults = 0
    MaxCrashes = 0
    Backpressure = FALSE
    Reopen = TRUE
    None = None
INVARIANT AckedSurvives
CHECK_DEADLOCK FALSE
