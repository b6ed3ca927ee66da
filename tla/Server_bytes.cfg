SPECIFICATION Spec
CONSTANTS
  EventRing = 1
  CounterModulus = 1
  ConnIds = {1}
  MaxConnections = 1
  WriteRing = 2
  MaxMessageBytes = 3
  IdleAlarm = 0
  CloseThreshold = 0
  WriteSpacing = 0
  RejectIncomplete = FALSE
  AnnouncePlayer = TRUE
  AnnounceReady = FALSE
  AckFits = TRUE
  Reads <- BraceReads
  Messages <- PlainOnly
  PlayerInputs = {"known"}
  SessionInputs = {}
  Unknown = "unknown"
  NoDevice = ""
  NoShot = 0
  ErrorCap = 1
  MaxNow = 0
INVARIANTS
  UnfinishedFits
  FramerMatchesBuffer
PROPERTIES
  FreshMessageAnswered
  EveryCallEnds
VIEW WithoutEvents
