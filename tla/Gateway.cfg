SPECIFICATION FairSpec
CONSTANTS
  a = a
  b = b
  Node = {a, b}
  Deploy = {"d1", "d2"}
  Update = {"u1", "u2"}
  Query = {"q1"}
  Inputs <- Clients
  Digits = 2
CHECK_DEADLOCK FALSE
INVARIANTS TypeOK StatusTellsEffect KeysWelcome OneDocumentPerKey PageMatchesPlan
PROPERTY DocumentsConverge
