SPECIFICATION Spec
CONSTANTS
  FirstSeed = 1
  LastSeed = 2
  Steps = 3
  FullSteps = 3
  EvaluationSteps = {0, 1}
  Losses = {0, 1, 2}
  Accuracies = {0, 1, 2}
  CpuMetrics <- FewCpuMetrics
  Tolerance = 1
  Patiences = {1, 2}
  Unset = Unset
INVARIANTS
  SelectedIsWhole
  SelectionBounded
  SimulationAgrees
  SuccessIsComplete
CHECK_DEADLOCK FALSE
