SPECIFICATION CaptureSpec
CONSTANTS
  EventRing = 4
  CounterModulus = 2
  ConnIds = {1, 2}
  MaxConnections = 2
  WriteRing = 2
  MaxMessageBytes = 5
  IdleAlarm = 0
  CloseThreshold = 0
  WriteSpacing = 0
  RejectIncomplete = FALSE
  AnnouncePlayer = FALSE
  AnnounceReady = FALSE
  AckFits = TRUE
  Reads <- SessionReads
  Messages <- Status
  PlayerInputs = {}
  SessionInputs = {"ACTIVE"}
  Unknown = "unknown"
  NoDevice = ""
  NoShot = 0
  ErrorCap = 1
  MaxNow = 0
  ChunkMax = 3
  PendingMax = 2
  IdTables = {1, 2}
  MaxLog = 5
  MaxOdd = 2
  FileChunkMax = 1
  BatchMax = 2
  MaxChunks = 3
INVARIANTS
  CaptureIsEvidence
  ReplayTellsTheSession
  ReportBalances
PROPERTIES
  ReplayEnds
CHECK_DEADLOCK FALSE
VIEW LiveEventsApart
