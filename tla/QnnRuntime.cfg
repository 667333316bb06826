SPECIFICATION Spec
CONSTANTS
  MaxContexts = 3
  MaxGraphs = 2
  RefusesNullContext = TRUE
INVARIANTS
  NoStaleGraph
  ContextsFreedOnce
  TrainingGraphsApart
CHECK_DEADLOCK FALSE
