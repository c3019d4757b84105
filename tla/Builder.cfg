SPECIFICATION MCSpec
CONSTANTS
  Unit = 1
  Program <- Programs
  Values <- Ints
  MaxSlots = 2
  BodiesResolve <- FunsResolve
  BodiesTyped <- FunsTyped
  MethodFits <- MethodAccepted
  Outcomes <- MethodOutcomes
  None = None
CHECK_DEADLOCK FALSE
INVARIANTS TypeOK TypesResolveRight ReturnsAnchored ReturnsSound MethodsSound UpdatesFitSlot
PROPERTY Terminates
