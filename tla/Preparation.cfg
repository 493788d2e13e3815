SPECIFICATION MCSpec
CONSTANTS
  Fns = {1, 2, 3}
  Size = 4
  Align = 2
  StackLimit = 8
  ModuleGraphs <- MCModuleGraphs
  Inputs <- AllModules
  Z3Linked = TRUE
  Vars = {"x", "m"}
  Locations = {"m"}
  Width = 2
  Widest = 3
  Components <- MCComponents
  MaxStates = 13
  MaxDepth = 6
  MaxVisitsPerNode = 1
INVARIANTS
  PopsTheComponents
  DependenciesFirst
  LevelsAreRight
  RecursiveAreOnCycles
  ExactOffCycles
  TotalsAreChains
  PathExplainsTotal
  FlaggedHasNoBaseCase
  RecursionIsFlagged
  CoupledModesAreInert
