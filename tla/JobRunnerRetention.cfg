SPECIFICATION Spec
CONSTANTS
  j1 = j1
  j2 = j2
  j3 = j3
  w1 = w1
  Jobs = {j1, j2, j3}
  NoJob = NoJob
  Workers = {w1}
  NumNodes = 1
  RetentionMax = 1
  CkptDurable = TRUE
  DropSource = FALSE
  Faulty = {"jobs"}
  MaxCrashes = 1
  MaxFaults = 1
SYMMETRY Symmetric
INVARIANTS
  PruneDefinitive
PROPERTIES
  PrunedStaysGone
  ImplementsLifecycle
CHECK_DEADLOCK FALSE
