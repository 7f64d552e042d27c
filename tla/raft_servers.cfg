SPECIFICATION Spec
CONSTANTS
  s1 = s1
  s2 = s2
  x = x
  y = y
  Servers <- TwoServers
  Commands <- TwoCommands
  Chosen <- XYX
  OneCalls <- None
  WaitCalls <- None
  SnapShotInterval = 2
  Nil = Nil
  NoEntry = NoEntry
  MaxIndex = 3
  MaxKills = 2
  MaxWrong = 1
INVARIANTS TypeOK NoFalseAlarm DisagreementNoticed GapNoticed
CHECK_DEADLOCK FALSE
