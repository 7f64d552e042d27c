SPECIFICATION FairSpec
CONSTANTS
  s1 = s1
  s2 = s2
  x = x
  y = y
  Servers <- TwoServers
  Commands <- TwoCommands
  Chosen <- XY
  OneCalls <- OneCallsXY
  WaitCalls <- WaitForTwo
  SnapShotInterval = 2
  Nil = Nil
  NoEntry = NoEntry
  MaxIndex = 2
  MaxKills = 1
  MaxWrong = 1
PROPERTIES OneReturnsCommitted ErrorReported
CHECK_DEADLOCK FALSE
