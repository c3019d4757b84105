SPECIFICATION Spec
CONSTANTS
  Updater = {u1, u2, u3}
  Merger = {m1, m2}
  Reader = {r}
  Bad = {u3}
  Incoming <- Snapshots
  None = None
SYMMETRY ThreadSymmetry
CHECK_DEADLOCK FALSE
INVARIANTS TypeOK UpdatesCountOnce MergesKept DocumentsHaveContent
PROPERTY VisibleGrows
