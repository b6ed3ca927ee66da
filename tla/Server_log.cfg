SPECIFICATION Spec
CONSTANTS
  EventRing = 3
  CounterModulus = 1
  ConnIds = {1}
  MaxConnections = 1
  WriteRing = 1
  MaxMessageBytes = 2
  IdleAlarm = 1
  CloseThreshold = 2
  WriteSpacing = 0
  RejectIncomplete = TRUE
  AnnouncePlayer = FALSE
  AnnounceReady = FALSE
  AckFits = TRUE
  Reads <- WholeObjects
  Messages <- Varied
  PlayerInputs = {}
  SessionInputs = {}
  Unknown = "unknown"
  NoDevice = ""
  NoShot = 0
  ErrorCap = 3
  MaxNow = 1
INVARIANTS
  TypeOK
  LogIsCoherent
  LogTellsState
