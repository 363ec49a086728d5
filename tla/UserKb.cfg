\* Two runs of a user, up to two findings each, three models of two
\* dimensions, one crash, one failing write.
SPECIFICATION FairSpec
CONSTANTS
  Runs = {r1, r2}
  NoRun = NoRun
  MaxFindings = 2
  Models = {m1, m2, m3}
  Wide = {m3}
  NoModel = NoModel
  MaxCrashes = 1
  MaxFaults = 1
INVARIANTS
  InStep
  HandlesInStep
  LearnedOnce
  RowsNeverLead
PROPERTIES
  EveryRunSettles
CHECK_DEADLOCK FALSE
