CONSTANTS
  a1 = a1
  a2 = a2
  s1 = s1
  s2 = s2
  NoApplier = NoApplier
  Appliers = {a1, a2}
  Services = {s1, s2}
  Targets <- TargetsDef
  MaxChanges = 2
SPECIFICATION WSpec
INVARIANTS CacheReachesAppliers
PROPERTIES FreshnessMonotone Directory WatchProgress
CHECK_DEADLOCK FALSE
