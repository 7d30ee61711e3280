SPECIFICATION LoopSpec
CONSTANTS
  Clients = {c1, c2, c3}
  MaxFd = 2
  MaxInbox = 2
  Patience = 2
  Batch = 2
INVARIANTS
  IInv
PROPERTIES
  ServesAsFlat
CHECK_DEADLOCK FALSE
