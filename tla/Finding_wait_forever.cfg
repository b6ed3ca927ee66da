SPECIFICATION FairSpec
CONSTANTS
  Clients = {a}
  NoClient = none
  MaxConns = 1
  ServerMax = 1
  IdMax = 2
  WriteRing = 1
  SendQueue = 1
  RxCapacity = 6
  ReadSize = 6
  Retries = 1
  WaitForever = TRUE
  SendBuffer = 3
  MaxRequests = 3
  Window = 3
PROPERTIES
  RepliesArrive
