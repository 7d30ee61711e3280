SPECIFICATION Spec
CONSTANTS
  SIZE = 2
  Jobs <- ShortFiles
  MaxResend = 2
INVARIANTS
  FinishedIsSource
CHECK_DEADLOCK FALSE
