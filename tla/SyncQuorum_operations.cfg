SPECIFICATION OperationsSpec
CONSTANTS
  Node = {a, b, c}
  Write = {w1}
  Read = {r1}
  Plan = {p1, p2}
  NoPlan = NoPlan
  Ratios <- AllRatios
  Failing <- FirstUnfit
  CutSets = {}
  DeployAt = {}
  Gossipers = {}
  MaxDup = 0
CHECK_DEADLOCK FALSE
INVARIANTS ReadsFindEarlier AckAccounting
PROPERTIES ImplementsStore RequestsNeedNoTimer
