SPECIFICATION FairSpec
CONSTANTS
  Rows = 3
  Cols = 3
INVARIANTS
  IInv
  SentWalksOut
  FoundIfReachable
PROPERTIES
  SearchEnds
CHECK_DEADLOCK FALSE
