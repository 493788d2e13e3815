CONSTANTS
  Procs = {p1}
  MaxEdits = 3
  MaxCrashes = 2
  MaxLoads = 4
  Including = {0, 2}
  Broken = {1}
  QuietEdits = TRUE
SPECIFICATION CacheSpec
CHECK_DEADLOCK FALSE
INVARIANTS
  HitIsCurrent
  CurrentEntryIsRight
  UnchangedIsReused
