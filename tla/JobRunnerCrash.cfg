\* Two jobs, one worker thread (RUNNER_WORKER_CONCURRENCY), three stages, two
\* crashes, a durable checkpoint file, room for both rows; safety and liveness.
SPECIFICATION FairSpec
CONSTANTS
  j1 = j1
  j2 = j2
  w1 = w1
  Jobs = {j1, j2}
  NoJob = NoJob
  Workers = {w1}
  NumNodes = 3
  RetentionMax = 2
  CkptDurable = TRUE
  DropSource = FALSE
  Faulty = {}
  MaxCrashes = 2
  MaxFaults = 0
INVARIANTS
  CompletedNodesExact
PROPERTIES
  ProgressKept
  EveryJobSettles
CHECK_DEADLOCK FALSE
