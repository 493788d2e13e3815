CONSTANTS
  Modules <- MCModules
  Funcs <- MCFuncs
  Effects = {"use", "set"}
  Reads = {"use"}
  Write = "set"
  Programs <- SharedNamePrograms
  Kinds = {"uninitialized"}
  MaxPasses = 12
  MaxSccIterations = 12
  CacheMode = "memory"
  Known = {}
  MaxRuns = 1
SPECIFICATION MemorySpec
CHECK_DEADLOCK FALSE
INVARIANTS
  ResultIsClosed
