\* One clause, thresholds of one, two crashes, a setting that may change over
\* a crash, the report files on the local disk; safety and liveness.
SPECIFICATION FairSpec
CONSTANTS
  MaxClauses = 1
  EmbedThreshold = 1
  JudgeThreshold = 1
  RiskThreshold = 1
  RewriteThreshold = 1
  MaxAttempts = 2
  JudgmentModes = {TRUE, FALSE}
  RedlineLevels = {"medium", "high"}
  DefaultLevel = "high"
  DegradedPercent = 75
  Turso = FALSE
  MaxCrashes = 2
INVARIANTS
  ReportPairAgrees
  ErrorsCountedOnce
PROPERTIES
  PipelineEnds
