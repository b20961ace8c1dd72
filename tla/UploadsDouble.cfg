SPECIFICATION QSpec
SYMMETRY QueueSymmetry
CONSTANTS
    QueueModes = {"uploads"}
    Files = {f1}
    Images = {}
    Workers = {w1, w2}
    MaxRev = 2
    MaxAttempts = 2
    LeaseTicks = 2
    RetryDelays = {1}
    MaxFaults = 2
    u1 = u1
    u2 = u2
    Uploads = {u1, u2}
    QuotaFiles = {u1, u2}
    Size <- MCSize
    MaxStorageBytes = 3
    MaxRetries = 2
    MaxQuotaFaults = 0
    Paths = {"p"}
    V2Uploads = {}
    ExpectedRevs <- NoRevs
    Handlers = {w1, w2}
    Serial = FALSE
INVARIANT ConfirmedHasObject
CHECK_DEADLOCK FALSE
