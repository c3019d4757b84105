SPECIFICATION SharedCoordinatorSpec
CONSTANTS
  Node = {a, b, c}
  Write = {w1}
  Read = {r1, r2}
  Plan = {p1}
  NoPlan = NoPlan
  Ratios <- Majorities
  Failing = {}
  CutSets = {}
  DeployAt = {}
  Gossipers = {}
  MaxDup = 0
CHECK_DEADLOCK FALSE
INVARIANT ReadsNeverGoBack
CONSTRAINT ReadsInTurn
