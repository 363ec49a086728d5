\* Three clauses, the merged and the sequential judges, every breaker within
\* reach, no crash, report files in Turso.  DegradedPercent is above 2/3, so
\* that two fail-safe findings of three are degraded only through the breaker.
SPECIFICATION Spec
CONSTANTS
  MaxClauses = 3
  EmbedThreshold = 2
  JudgeThreshold = 2
  RiskThreshold = 2
  RewriteThreshold = 2
  MaxAttempts = 2
  JudgmentModes = {TRUE, FALSE}
  RedlineLevels = {"medium", "high"}
  DefaultLevel = "high"
  DegradedPercent = 75
  Turso = TRUE
  MaxCrashes = 0
INVARIANTS
  DiscardJustified
  OutageBounded
  RewriteCoversRisk
  OutageSurfaced
