SPECIFICATION PumpedSpec
CONSTANTS
  EventRing = 1
  CounterModulus = 1
  ConnIds = {1, 2}
  MaxConnections = 2
  WriteRing = 2
  MaxMessageBytes = 4
  IdleAlarm = 0
  CloseThreshold = 0
  WriteSpacing = 0
  RejectIncomplete = FALSE
  AnnouncePlayer = FALSE
  AnnounceReady = FALSE
  AckFits = TRUE
  Reads <- PumpReads
  Messages <- PlainOnly
  PlayerInputs = {}
  SessionInputs = {"ACTIVE", "ENDED"}
  Unknown = "unknown"
  NoDevice = ""
  NoShot = 0
  ErrorCap = 1
  MaxNow = 0
PROPERTIES
  EverySendQueued
  ShortReadsKept
  RetainedConsumed
VIEW PumpedWithoutEvents
