CONSTANTS
  Modules <- MCModules
  Funcs <- MCFuncs
  Effects = {"use", "set"}
  Reads = {"use"}
  Write = "set"
  Programs <- AllPrograms
  Kinds = {"resource", "uninitialized"}
  MaxPasses = 12
  MaxSccIterations = 12
  CacheMode = "memory"
  Known = {}
  MaxRuns = 1
SPECIFICATION MCSpec
CHECK_DEADLOCK FALSE
INVARIANTS
  NothingInvented
  ConvergedIsClosed
  OrderedWalkIsClosed
  CachedAsBuilt
  NothingStale
PROPERTIES
  BuildEnds
