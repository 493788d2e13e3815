CONSTANTS
  Files = {f1, f2}
  RelativeFiles = {f1}
  Dirs = {base, d1, d2}
  BaseDir = base
  NoDir = NoDir
  Failed = Failed
  Texts = {v1}
  Settings <- ExplicitJobs
SPECIFICATION FairCwdSpec
CHECK_DEADLOCK FALSE
INVARIANTS
  CompilesInOwnDir
  CwdRestored
  FallbackFindsOwnDir
PROPERTIES
  LoadsEnd
