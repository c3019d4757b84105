SPECIFICATION Spec
CONSTANTS
  Node = {a, b, c}
  Write = {w1}
  Read = {}
  Plan = {p1, p2}
  NoPlan = NoPlan
  Ratios <- AllRatios
  Failing <- FirstUnfit
  CutSets <- IsolateFirst
  DeployAt <- TwoDeployers
  Gossipers = {a}
  MaxDup = 1
CHECK_DEADLOCK FALSE
INVARIANTS TypeOK QuorumReplicated
CONSTRAINT GossipOrQuorum
