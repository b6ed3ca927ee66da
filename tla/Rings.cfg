SPECIFICATION RingsSpec
CONSTANTS
  EventRing = 3
  CounterModulus = 7
  Types = {"SHOT", "STATUS"}
  WriteRing = 4
  Conns = {1, 2}
  Codes = {200, 201}
  NoRequest = NoRequest
  WireRings = {1, 2, 3}
  ChunkMax = 3
  WireModulus = 3
  RecordIdentifiers = FALSE
  Objects <- ClientObjects
  Lines <- ServerLines
INVARIANTS
  Contiguous
  Accounted
  OneWarningPerRun
  ArrayHoldsTheLog
  GapsAreTold
  MaskedAcrossChunks
PROPERTIES
  NewestSurvives
  ImplementsQueue
VIEW WithoutWarnings
