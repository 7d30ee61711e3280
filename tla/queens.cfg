SPECIFICATION FairSpec
CONSTANTS
  N = 6
  Known = 2
  order <- OutsideIn
INVARIANTS
  TrueIsSolved
  FalseIsHopeless
  IInv
PROPERTIES
  SearchEnds
CHECK_DEADLOCK FALSE
