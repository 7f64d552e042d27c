SPECIFICATION Spec
SYMMETRY Symmetry
CONSTANTS
  c1 = c1
  c2 = c2
  s1 = s1
  s2 = s2
  Clients <- MCClients
  Ids <- MCIds
  Keys = {"k"}
  Values = {"a", "b"}
  NoValue = NoValue
  NoOp = NoOp
  NoReply = NoReply
  NoStep = NoStep
  Unreliable = TRUE
  Partitions = TRUE
  LateSlots <- OneSlot
  MaxOps = 2
  MaxVersion = 2
  AnyVersion = FALSE
PROPERTIES SettledWhenReturned Linearizable
CHECK_DEADLOCK FALSE
