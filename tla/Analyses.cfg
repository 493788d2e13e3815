SPECIFICATION AnalysesSpec
CONSTANTS
  StackLimits = {0, 16}
  DefaultStack = 64
  MinThreshold = 4
  FlowSize = 3
  FlowGap = 1
  FlowRounds = 8
  ResRounds = 8
CHECK_DEADLOCK FALSE
INVARIANTS
  PipelineReportsAll
  FlowIsExact
  SummariesSettle
  NeverMeansNever
  CapLosesOnlyDeepChains
  CallsActAsInlined
  ClassesIgnoreOrder
