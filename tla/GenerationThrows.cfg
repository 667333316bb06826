SPECIFICATION Spec
CONSTANTS
  NumPaths = 1
  Hashes = {h1}
  Unusable = Unusable
  NoHash = NoHash
  MaxGenerations = 1
  MaxEvents = 0
  StorageFails = FALSE
PROPERTIES
  FailureBecomesFailed
CHECK_DEADLOCK FALSE
