SPECIFICATION FairSpec
CONSTANTS
  MaxWorks = 2
  MaxAttempts = 2
  MaxCrashes = 0
  Total = 1
  MayThrow = FALSE
  NoCheckpoint = NoCheckpoint
  Empty = Empty
PROPERTIES
  CancelEndsRun
CHECK_DEADLOCK FALSE
