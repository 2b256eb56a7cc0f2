SPECIFICATION MCSpec
CONSTANTS
  Requests = {r1, r2, r3}
  KeyCount = 2
  MaxRetries = 2
  MaxParts = 2
  Parts = {"", "m", "n", "p", "x"}
  Empty = ""
  ProviderNames <- MCProviderNames
  Names <- MCNames
  MaxModels = 2
  MaxAliases = 1
  PluginNames = {"a", "b"}
  MaxPlugins = 2
  Tools = {"t1", "t2"}
  NoTools = NoTools
  MaxFetches = 3
  Providers = {v1, v2}
  Unknown = v0
  MaxLogins = 3
  MaxPendingStates = 2
  Ttl = 2
  MaxTime = 3
  Commands = {s1, s2}
  Edits = {e1}
  firstFile = firstFile
  dead = dead
  None = None
  SyncNames = {m1, m2, m3}
  NoModel = NoModel
CHECK_DEADLOCK FALSE
SYMMETRY RequestSymmetry
INVARIANTS OneCallHeard OneStreamOpen KeysTakeTurns RoutesRight CatalogFetchedOnce LoginsHonoured NoLostUpdate PlanIsTheChoice
