SPECIFICATION Spec
CONSTANTS
  Clients = {a, b}
  NoClient = none
  MaxConns = 2
  ServerMax = 2
  IdMax = 2
  WriteRing = 1
  SendQueue = 1
  RxCapacity = 2
  ReadSize = 2
  Retries = 1
  WaitForever = FALSE
  SendBuffer = 1
  MaxRequests = 2
  Window = 1
SYMMETRY Symmetry
INVARIANTS
  TablesAgree
  RepliesWhole
  NothingForgotten
