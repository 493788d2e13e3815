SPECIFICATION StackSpec
CONSTANTS
  Fns <- FourFns
  Inputs <- CycleWithExit
  Align = 2
  StackLimit = 8
INVARIANT TotalIncludesCallees
