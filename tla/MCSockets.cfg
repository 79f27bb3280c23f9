SPECIFICATION Spec
CONSTANTS
  Clients = {c1, c2}
  Sizes = {1, 5, 6}
  Cap = 2
  BufSize = 1
  ClientBuf = 4
  StdBuf = 6
  Rounds = 2
  Messages = 2
  PipeSize = 1
  Stores = 1
  Naps = 2
  Datagrams = 2
  Lines = 2
  Long = {2}
  MaxDups = 1
  MaxStrangers = 1
CHECK_DEADLOCK FALSE
INVARIANTS Delivered ZombiesAreMerged PrintsWhatWasSent
PROPERTIES PairsEnd SurvivorEnds ForkersEnd WaitsOnlyForLost
