SPECIFICATION Spec
CONSTANTS
  ann = ann
  bob = bob
  cyd = cyd
  pw1 = pw1
  pw2 = pw2
  Names <- MCNames
  Passwords <- OnePassword
  Statuses = {}
  MaxFd = 2
  MaxUsers = 2
  MaxRoom = 1
  MaxHistory = 2
  MaxLog = 3
  SlowFd = {2}
SYMMETRY NameSymmetry
INVARIANTS
  ViewSuffix
PROPERTIES
  RoomsAreBoards
CHECK_DEADLOCK FALSE
