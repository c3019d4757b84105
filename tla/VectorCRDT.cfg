SPECIFICATION Spec
CONSTANTS
  Node = {a, b, c}
  Value <- Values
  Zero = 0
  Absent = Absent
  Level <- Values
  Proj <- Identity
  Program <- Programs
  MaxUpdates = 2
  MaxSnapshots = 1
CHECK_DEADLOCK FALSE
INVARIANTS TypeOK OwnerLeads SameUpdatesSameState
PROPERTY OnlyUp
SYMMETRY NodeSymmetry
