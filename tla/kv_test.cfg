SPECIFICATION FairSpec
CONSTANTS
  c1 = c1
  c2 = c2
  s1 = s1
  Checker = Checker
  Clients <- MCClients
  Ids = {"op"}
  Keys = {"k"}
  Key = "k"
  Values <- MCValues
  NoValue = NoValue
  NoOp = NoOp
  NoReply = NoReply
  Unreliable = TRUE
  Partitions = TRUE
  LateSlots <- OneSlot
  MaxPuts <- MCMaxPuts
  NTry = 2
INVARIANTS NoFatal PutsCounted
PROPERTIES NoAppendLost TestEnds
CHECK_DEADLOCK FALSE
