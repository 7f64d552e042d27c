SPECIFICATION Spec
CONSTANTS
  w1 = w1
  w2 = w2
  f1 = f1
  f2 = f2
  Workers <- TwoWorkers
  Maps <- TwoFiles
  Reduces <- TwoBuckets
  Emits <- TwoFilesEmit
  NoTask = NoTask
  RPCRetryCount = 3
  MaxCallFaults = 0
  MaxIOFaults = 0
  MaxCrashes = 0
INVARIANT OutputFinalAtExit
CHECK_DEADLOCK FALSE
