SPECIFICATION Spec
CONSTANTS
  Unit = 2
  Values <- Halves
  LooseProducts = TRUE
CHECK_DEADLOCK FALSE
INVARIANT TermsSound
