SPECIFICATION QSpec
SYMMETRY QueueSymmetry
CONSTANTS
    QueueModes = {"semantic", "uploads"}
    Files = {f1}
    Images = {}
    Workers = {w1, w2}
    MaxRev = 2
    MaxAttempts = 2
    LeaseTicks = 2
    RetryDelays = {1}
    MaxFaults = 2
    u1 = u1
    u2 = u2
    Uploads = {u1, u2}
    QuotaFiles = {u1, u2}
    Size <- MCSize
    MaxStorageBytes = 3
    MaxRetries = 2
    MaxQuotaFaults = 1
    Paths = {"p"}
    V2Uploads = {u2}
    ExpectedRevs <- AllRevs
    Handlers = {w1, w2}
    Serial = TRUE
INVARIANTS
    OneOwner
    VectorOfCurrentRevision
    SucceededIsIndexed
    
    ObjectsAccounted
    StorageConverges
CHECK_DEADLOCK FALSE
