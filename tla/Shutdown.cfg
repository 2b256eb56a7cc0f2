SPECIFICATION MCSpec
CONSTANTS
  Requests = {r1, r2}
  MaxRepeats = 1
  Plugins = {p1, p2}
  Providers = {v1, v2}
  HookSets = {{"init", "beforeServerStart", "afterServerStart", "dispose"}, {"init", "createFetch", "dispose"}, {"beforeServerStart"}}
  MaxEntries = 2
  MaxLines = 4
  MaxDays = 3
CHECK_DEADLOCK FALSE
INVARIANTS StopsInOrder EndsWell PluginsDisposedAtRest StatusesHonest LinesArrive
PROPERTIES NoLateDisposal ShutdownEnds
