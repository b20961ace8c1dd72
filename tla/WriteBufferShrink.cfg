SPECIFICATION MSpec
CONSTANTS
    None = None
    MountModes = {"buffer"}
    EvNames = {a, b}
    RingSize = 1
    DirCacheMax = 1
    MaxEvChanges = 3
    MaxNameChanges = 2
    MaxRestarts = 1
    ShClients = {a, b}
    ShPaths = {pa, pb}
    MaxFds = 3
    MaxGens = 2
    MaxShWrites = 2
    MaxShRestarts = 1
    Overlap = FALSE
    PartSize = 3
    InlineMax = 2
    MaxFile = 7
    MaxLen = 3
    MaxOps = 3
    OrigSizes = {0, 1, 4, 6}
    Patterns <- MCShrink
INVARIANT CleanMeansSaved
CHECK_DEADLOCK FALSE
