SPECIFICATION Spec
CONSTANTS
  MaxWorks = 2
  MaxAttempts = 2
  MaxCrashes = 1
  Total = 2
  MayThrow = TRUE
  NoCheckpoint = NoCheckpoint
  Empty = Empty
INVARIANTS
  RecordedIsIndexed
  NoLostTerminal
PROPERTIES
  FreshOnlyBeforeFirstCheckpoint
CHECK_DEADLOCK FALSE
