\* Two connections, two nodes, one restart; safety and liveness.
SPECIFICATION FairSpec
CONSTANTS
  Conns = {c1, c2}
  NumNodes = 2
  MaxRestarts = 1
INVARIANTS
  StreamsTruthful
PROPERTIES
  ImplementsEventLog
  LiveStreamEnds
CHECK_DEADLOCK FALSE
