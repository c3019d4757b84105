SPECIFICATION Spec
CONSTANTS
  Node = {a, b}
  Deployer = {}
  Operator = {o}
  Resetter = {r}
  Linker = {}
  Shutter = {s}
  None = None
CHECK_DEADLOCK FALSE
INVARIANT StoppedOnce
