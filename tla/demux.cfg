SPECIFICATION FairSpec
CONSTANTS
  c1 = c1
  c2 = c2
  c3 = c3
  Callers <- TwoCallers
  Cap = 1
  MaxCalls = 3
  NoOne = NoOne
INVARIANTS TypeOK NoFatal OwnReply
PROPERTY SendReceiveReturns
CHECK_DEADLOCK FALSE
