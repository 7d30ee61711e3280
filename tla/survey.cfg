SPECIFICATION FairSpec
CONSTANTS
  Mazes <- SomeMazes
  Ports <- SomePorts
  MaxOff = 2
INVARIANTS
  IInv
  AllRead
PROPERTIES
  SurveyEnds
CHECK_DEADLOCK FALSE
