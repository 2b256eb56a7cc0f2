SPECIFICATION FairSpec
CONSTANTS
  Providers = {p}
  ClientCredentials = {}
  Callers = {c1, c2}
  MaxGeneration = 2
PROPERTIES
  RequestReturns
  DrainReturns
CHECK_DEADLOCK FALSE
