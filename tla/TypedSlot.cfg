SPECIFICATION Spec
CONSTANTS
  Unit = 2
  Values <- Halves
  LooseProducts = FALSE
CHECK_DEADLOCK FALSE
INVARIANTS TypeOK TermsSound PeersAcceptSlot
