SPECIFICATION Spec
CONSTANTS
  MaxWorks = 2
  MaxAttempts = 2
  MaxCrashes = 0
  Total = 1
  MayThrow = FALSE
  NoCheckpoint = NoCheckpoint
  Empty = Empty
INVARIANTS
  RunOwned
CHECK_DEADLOCK FALSE
