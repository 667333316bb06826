SPECIFICATION FairSpec
CONSTANTS
  NumPaths = 2
  Hashes = {h1, h2}
  Unusable = Unusable
  NoHash = NoHash
  MaxGenerations = 1
  MaxEvents = 2
  StorageFails = TRUE
INVARIANTS
  PinnedSelection
  ShownIsStored
PROPERTIES
  GenerationEnds
CHECK_DEADLOCK FALSE
