SPECIFICATION FairSpec
CONSTANTS
  Client = {k1, k2}
  Name <- MCName
  Dotted <- MCDotted
  Decoded <- MCDecoded
  Kind <- MCKind
  Indexed <- MCIndexed
  Index = "index.html"
  Request <- MCRequest
  Limit = 3
INVARIANTS
  IInv
  AnswerDeserved
  RedirectFinds
PROPERTIES
  Served
CHECK_DEADLOCK FALSE
