SPECIFICATION FairSpec
CONSTANTS
  c1 = c1
  c2 = c2
  Clients <- TwoClients
  Ids <- TwoClients
  Keys = {"l"}
  LockOf <- OneLock
  Values = {"free", "held"}
  NoValue = NoValue
  NoOp = NoOp
  NoReply = NoReply
  Unreliable = TRUE
  Partitions = TRUE
  LateSlots <- OneSlot
  MaxRounds = 1
  MaxVersion = 5
INVARIANTS TypeOK FaultsAreContained
PROPERTIES SomebodyAcquires ReleaseReturns
CHECK_DEADLOCK FALSE
