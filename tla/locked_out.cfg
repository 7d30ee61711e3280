SPECIFICATION Spec
CONSTANTS
  ann = ann
  bob = bob
  cyd = cyd
  pw1 = pw1
  pw2 = pw2
  Names <- MoreNames
  Passwords <- MCPasswords
  Statuses = {"busy"}
  MaxFd = 2
  MaxUsers = 2
  MaxRoom = 2
  MaxHistory = 1
  MaxLog = 0
  SlowFd = {}
SYMMETRY SessionSymmetry
INVARIANT
  RefusalHasHolder
CHECK_DEADLOCK FALSE
