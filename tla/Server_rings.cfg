SPECIFICATION Spec
CONSTANTS
  EventRing = 1
  CounterModulus = 1
  ConnIds = {1, 2}
  MaxConnections = 2
  WriteRing = 2
  MaxMessageBytes = 2
  IdleAlarm = 1
  CloseThreshold = 0
  WriteSpacing = 1
  RejectIncomplete = FALSE
  AnnouncePlayer = FALSE
  AnnounceReady = TRUE
  AckFits = TRUE
  Reads <- OneObject
  Messages <- PlainOnly
  PlayerInputs = {}
  SessionInputs = {"ACTIVE"}
  Unknown = "unknown"
  NoDevice = ""
  NoShot = 0
  ErrorCap = 1
  MaxNow = 1
INVARIANTS
  NoOrphanWrites
  DueIsExact
PROPERTIES
  SpacingKept
  WritesKeepTheirPlace
VIEW WithoutEvents
