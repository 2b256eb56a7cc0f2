SPECIFICATION MCSpec
CONSTANTS
  Modes = {"stream", "stream-only", "generate"}
  MaxParts = 2
CHECK_DEADLOCK FALSE
INVARIANTS LogIsReal TimerGuardsUpstream
PROPERTIES FirstFailureStays RequestCompletes StreamSettles
