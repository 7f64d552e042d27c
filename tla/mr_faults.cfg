SPECIFICATION FairSpec
CONSTANTS
  w1 = w1
  w2 = w2
  f1 = f1
  f2 = f2
  Workers <- TwoWorkers
  Maps <- TwoFiles
  Reduces <- OneBucket
  Emits <- OneBucketEmit
  NoTask = NoTask
  RPCRetryCount = 2
  MaxCallFaults = 2
  MaxIOFaults = 1
  MaxCrashes = 1
INVARIANTS TypeOK ReduceInputExact CompletedHasOutput NoEarlyExit
PROPERTIES FilenamesFrozen ImplementsJob JobEnds OutputSettles
CHECK_DEADLOCK FALSE
