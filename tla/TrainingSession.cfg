SPECIFICATION FairSpec
CONSTANTS
  Total = 2
  NoStep = NoStep
  MaxRuns = 2
  CanPause = TRUE
INVARIANTS
  MalformedNeverSucceeds
  CheckpointBehindStep
  ControlHitsItsRun
  ActiveIffExecuting
PROPERTIES
  Lifecycle
  StopEndsRun
  RunEnds
CHECK_DEADLOCK FALSE
