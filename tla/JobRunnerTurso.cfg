\* Two jobs, two worker threads, checkpoints on an ephemeral disk, uploads
\* deleted at the end of a job, one crash and two raising calls of any service.
SPECIFICATION Spec
CONSTANTS
  j1 = j1
  j2 = j2
  w1 = w1
  w2 = w2
  Jobs = {j1, j2}
  NoJob = NoJob
  Workers = {w1, w2}
  NumNodes = 2
  RetentionMax = 2
  CkptDurable = FALSE
  DropSource = TRUE
  Faulty = {"jobs", "users", "blobs"}
  MaxCrashes = 1
  MaxFaults = 2
SYMMETRY Symmetric
INVARIANTS
  SingleOwner
  WriteThrough
  NothingStranded
  SourceKept
  DeliveredAtLeastOnce
CHECK_DEADLOCK FALSE
