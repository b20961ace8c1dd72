SPECIFICATION FairSpec
CONSTANTS
    Paths = {f}
    LargeFrom = 2
    SharedPaths = {f}
    Handles = {h1}
    Workers = {w1}
    MaxWrites = 3
    MaxPending = 2
    MaxRetries = 2
    MaxFaults = 1
    MaxCrashes = 1
    Backpressure = TRUE
    Reopen = FALSE
    None = None

    
    
PROPERTIES
    NothingHangs
CHECK_DEADLOCK FALSE
