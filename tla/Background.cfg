SPECIFICATION BSpec
CONSTANTS
    Files = {f1}
    Images = {f1}
    Workers = {w1, w2}
    MaxRev = 1
    MaxAttempts = 2
    LeaseTicks = 1
    RetryDelays = {1}
    MaxFaults = 2
    QuotaFiles = {g1}
    Uploads = {u1}
    Size <- MCUploadSize
    Sizes = {1, 2}
    MaxStorageBytes = 20
    MaxRetries = 3
    GcMaxRev = 2
    MaxQuotaFaults = 2
    GcMaxAttempts = 2
    FailOpen = {"file_create", "file_overwrite"}
    GcHandlers = {h1, h2}
    GcWorkers = {w1, w2}
INVARIANTS
    DeletesFollowThrough
PROPERTIES
    FinishedStaysFinished
    QueuesFinish
CHECK_DEADLOCK FALSE
