SPECIFICATION PipeSpec
CONSTANTS
  Programs <- MCPrograms
  StackLimits = {0}
  DefaultStack = 64
  MinThreshold = 4
CHECK_DEADLOCK FALSE
INVARIANT RolloutIsInvisible
