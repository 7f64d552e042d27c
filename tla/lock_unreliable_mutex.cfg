SPECIFICATION Spec
CONSTANTS
  c1 = c1
  c2 = c2
  Clients <- TwoClients
  Ids <- TwoClients
  Keys = {"l"}
  LockOf <- OneLock
  Values = {"free", "held"}
  NoValue = NoValue
  NoOp = NoOp
  NoReply = NoReply
  Unreliable = TRUE
  Partitions = FALSE
  LateSlots <- NoSlots
  MaxRounds = 2
  MaxVersion = 6
INVARIANT MutualExclusion
CHECK_DEADLOCK FALSE
