CONSTANTS
  Procs = {p1}
  MaxEdits = 2
  MaxCrashes = 0
  MaxLoads = 2
  Including = {0, 2}
  Broken = {1}
  QuietEdits = FALSE
SPECIFICATION CacheSpec
CHECK_DEADLOCK FALSE
INVARIANTS
  HitIsCurrent
