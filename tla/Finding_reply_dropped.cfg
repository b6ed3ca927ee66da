SPECIFICATION Spec
CONSTANTS
  Clients = {a, b}
  NoClient = none
  MaxConns = 2
  ServerMax = 2
  IdMax = 3
  WriteRing = 1
  SendQueue = 1
  RxCapacity = 4
  ReadSize = 3
  Retries = 2
  WaitForever = FALSE
  SendBuffer = 1
  MaxRequests = 2
  Window = 2
INVARIANTS
  NoReplyDropped
