\* Two addresses with two attempts in two units of time; two failures in a
\* window of two lock the account for two; the clock stops at five.
SPECIFICATION Spec
CONSTANTS
  Clients = {c1, c2}
  RateLimitMax = 2
  RateLimitWindow = 2
  MaxFailures = 2
  LockoutWindow = 2
  LockoutDuration = 2
  MaxTime = 5
INVARIANTS
  SpacedOut
  RefusedOnlyWhenFull
  GuessesBounded
CHECK_DEADLOCK FALSE
