SPECIFICATION Spec
CONSTANTS
  Takers = {t1, t2}
  MaxMsg = 3
  MaxSends = 6
  Rounds = 3
  FileSize = 5
  MaxSize = 3
  PipeSize = 4
  Clients = {c1, c2, c3}
  Missing = {c3}
  NLines = 2
  QueueSize = 2
  Shells = {p1, p2}
  Values = {0, 1}
  Lengths = {1, 2}
  PosixRuns = 4
  Sizes = {1, 3}
  Types = {0, 1, 2}
  SysvRuns = 4
CHECK_DEADLOCK FALSE
INVARIANTS NeverSleepsOnMessage ObjectsIntact StaysInside
PROPERTIES TransferEnds  RequestsAnswered ToolsEnd
