SPECIFICATION Spec
CONSTANTS
  NumPaths = 2
  Hashes = {h1, h2}
  Unusable = Unusable
  NoHash = NoHash
  MaxGenerations = 2
  MaxEvents = 1
  StorageFails = TRUE
INVARIANTS
  HandleFits
  SuccessIsSound
PROPERTIES
  TerminalSticks
  RecordedWhenShown
CHECK_DEADLOCK FALSE
SYMMETRY HashSymmetry
