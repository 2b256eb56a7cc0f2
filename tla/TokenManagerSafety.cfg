SPECIFICATION Spec
CONSTANTS
  Providers = {p}
  ClientCredentials = {}
  Callers = {c1, c2, c3}
  MaxGeneration = 2
SYMMETRY Symmetry
INVARIANTS
  SingleLiveRefresh
  NoWaiterOnAborted
  YieldsOwnOrNewerToken
  HandedOutIsDurable
  RefreshStartsFromLogin
PROPERTIES
  NewestWins
  DrainLeavesNoRefresh
CHECK_DEADLOCK FALSE
