SPECIFICATION FairSpec
CONSTANTS
  s1 = s1
  s2 = s2
  c1 = c1
  Servers <- TwoServers
  Clients <- OneClient
  MaxInst = 2
  MaxCalls = 1
  Unreliable = TRUE
  NoEnd = NoEnd
INVARIANTS TypeOK SnapshotInSync ConnectedAsAsked AckedIsDurable CutOffClient
PROPERTY EveryCallReturns
CHECK_DEADLOCK FALSE
