SPECIFICATION FairSpec
CONSTANTS
  SIZE = 2
  Jobs <- MCJobs
  MaxResend = 2
INVARIANTS
  DiskSound
  OneFileIsSource
  NeverAhead
PROPERTIES
  ClientStops
  Completes
CHECK_DEADLOCK FALSE
