CONSTANTS
  None = None
  NParts = 3
  UParallel = 2
  MaxCalls = 2
  SourceEdits = FALSE
  SParts = {1, 2, 3}
  FinalPart = 4
  SSlots = 2
  NChunks = 5
  DWorkers = 2
  MaxVersions = 2
  Appenders = {"a1", "a2"}
  ApPartSize = 2
  ApInline = 2
  ApLengths = {1, 2, 3}
  MaxForeign = 2
  TNodes <- MCTNodes
  TDirs <- MCTDirs
  TParent <- MCTParent
  TUnsafe <- MCTUnsafe
  TBatch = 2
  TSlots = 1
  MaxOthers = 1
  Uploads = {u1}
  QuotaFiles = {u1}
  Size <- MCLiveSize
  MaxStorageBytes = 4
  MaxRetries = 2
  MaxQuotaFaults = 2
  Paths = {"p"}
  V2Uploads = {u1}
  ExpectedRevs <- MCNoRevs
  Handlers = {1, 2}
  Serial = FALSE
SPECIFICATION XSpec
INVARIANTS
    
    UploadAnswerTrue
    StreamAnswerTrue
    DownloadWhole
    AppendsAreExact
    CopyAnswerTrue
PROPERTIES
    CentralSettles
    CallsEnd
CHECK_DEADLOCK FALSE
