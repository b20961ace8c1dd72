SPECIFICATION RSpec
SYMMETRY RecordSymmetry
CONSTANTS
    None = None
    Secrets = {"s"}
    Fields = {"a", "b"}
    Clients = {x, y}
    Tokens = {"k"}
    MountToken = "k"
    FieldSets <- FieldSetsDef
    Scopes <- ScopesDef
    Handles = {"h"}
    MaxWrites = 2
    Journals = {1}
    Writers = {"w1", "w2"}
    AppendIds = {x, y}
    RawNames = {"Job", "job", "run", "%%"}
    Canonical <- MCCanonical
    CreateLabels <- MCCreateLabels
    SearchNames = {"Job"}
    Batches <- MCBatches
    Permissions <- MCPermissions
    JournalPage = 1
    SinceWindow = 0
    JournalMaxTime = 2
INVARIANTS
    ChainIntact
    AckedIsStored
    ReadersHonest
    SecretsWhole
    
PROPERTIES
    ImplementsLog
CHECK_DEADLOCK FALSE
