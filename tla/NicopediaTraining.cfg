SPECIFICATION Spec
CONSTANTS
  Configs = {c1}
  Shapes = {c1}
  Shape <- NamesApart
  MaxStep = 4
  Interval = 2
  Batch = 2
  Absent = Absent
INVARIANTS
  CanonicalFiles
  PromisedIsDurable
  ReportedAsNamed
  StopBounded
PROPERTIES
  Trajectory
CHECK_DEADLOCK FALSE
