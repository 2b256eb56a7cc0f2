SPECIFICATION Spec
CONSTANTS
  Providers = {p}
  ClientCredentials = {}
  Callers = {c1, c2}
  MaxGeneration = 2
INVARIANT OneRefreshAtATime
CHECK_DEADLOCK FALSE
