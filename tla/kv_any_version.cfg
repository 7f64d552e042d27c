SPECIFICATION Spec
SYMMETRY Symmetry
CONSTANTS
  c1 = c1
  c2 = c2
  s1 = s1
  s2 = s2
  Clients <- MCClients
  Ids <- MCIds
  Keys = {"k"}
  Values = {"a"}
  NoValue = NoValue
  NoOp = NoOp
  NoReply = NoReply
  NoStep = NoStep
  Unreliable = TRUE
  Partitions = TRUE
  LateSlots <- TwoSlots
  MaxOps = 2
  MaxVersion = 2
  AnyVersion = TRUE
INVARIANTS TypeOK AtMostOnce VersionReplacedOnce AnswerIsTrue
CHECK_DEADLOCK FALSE
