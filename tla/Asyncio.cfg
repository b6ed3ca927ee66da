SPECIFICATION Spec
CONSTANTS
  Clients = 2
  Tables = {1, 2}
  WriteRing = 1
  RxCapacity = 1
  HighWater = 1
  MaxTraffic = 3
  MaxAnnounced = 1
INVARIANTS
  TransportAgrees
PROPERTIES
  NobodyHangs
CHECK_DEADLOCK FALSE
