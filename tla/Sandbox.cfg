SPECIFICATION FairSpec
CONSTANTS
  Node = {a, b}
  Deployer = {d1, d2}
  Operator = {o}
  Resetter = {r}
  Linker = {l}
  Shutter = {s}
  None = None
CHECK_DEADLOCK FALSE
INVARIANTS TypeOK NoStalePartition PinnedIsInstalled
PROPERTIES PlanSpreads NoDeliveryLeaks RequestsFinish
