CONSTANTS
  WorkItemCount = 3
  JobCounts = {1, 2, 4}
SPECIFICATION FairRunSpec
CHECK_DEADLOCK FALSE
INVARIANTS
  NeverTwice
  AllDoneAtReturn
  WorkIInv
PROPERTIES
  RefinesRunContract
  RunEnds
