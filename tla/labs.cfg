SPECIFICATION LabsSpec
CONSTANTS
  Rows = 2
  Cols = 4
  HalfH = 1
  HalfW = 1
  Origin = 4
  Width = 10
  Char = {37, 48, 50, 70, 47, 32, 103}
  MaxLen = 3
  BufSize = 6
  Lines = 7
  NoteAt = 5
  RoomRows = 3
  RoomCols = 3
  HeaderLen = 3
  RestLen = 3
  ReplyLen = 3
  First = 2
  Last = 5
  Enough = 4
  MaxSent = 5
  AskAt = 3
  Queue = 3
  MaxSize = 6
  Half = 4
  Shortest = 2
  Damages = 1
  Flags = 1
  Clients = {c1, c2}
  Greeting = 1
  Data = 3
INVARIANTS
  ExploreInv
  DecodesInPlace
  RoundTrip
  MazeRight
  RoomRight
  OtpRight
  MessageRight
  FlagRight
PROPERTIES
  ExplorerGetsOut
  OtpFinishes
  VerifyEnds
  MetersEnd
CHECK_DEADLOCK FALSE
