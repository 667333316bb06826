SPECIFICATION FairSpec
CONSTANTS
  Debug = {d}
  d = d
  NoOwner = NoOwner
  MaxRuns <- RunBound
INVARIANTS
  MutualExclusion
  StopNotLost
PROPERTIES
  StopSticks
  StopEndsRun
CHECK_DEADLOCK FALSE
