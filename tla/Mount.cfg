SPECIFICATION MSpec
SYMMETRY MountSymmetry
CONSTANTS
    None = None
    MountModes = {"events", "shadow", "buffer"}
    EvNames = {a, b}
    RingSize = 1
    DirCacheMax = 1
    MaxEvChanges = 3
    MaxNameChanges = 1
    MaxRestarts = 1
    ShClients = {a, b}
    ShPaths = {pa, pb}
    MaxFds = 3
    MaxGens = 2
    MaxShWrites = 1
    MaxShRestarts = 1
    Overlap = FALSE
    PartSize = 3
    InlineMax = 2
    MaxFile = 7
    MaxLen = 4
    MaxOps = 2
    OrigSizes = {0, 1, 4, 6}
    Patterns <- MCPatterns
INVARIANTS
    
    PinnedStaysReadable
    
    BufferFaithful
CHECK_DEADLOCK FALSE
