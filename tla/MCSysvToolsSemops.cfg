SPECIFICATION Spec
CONSTANTS
  Shells = {p1, p2}
  Sizes = {1, 3}
  QueueSize = 1
  Types = {0, 1, 2}
  MaxRuns = 4
CHECK_DEADLOCK FALSE
PROPERTY OperationsPerformed
