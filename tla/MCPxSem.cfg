SPECIFICATION Spec
CONSTANTS
  Producers = {p1, p2, p3}
  Slots = 2
  NItems = 3
  Runs = {r1, r2, r3}
  MemoryRuns = {r3}
  RunSlots = 1
  RunItems = 2
  MaxKills = 1
  Buffers = 3
  NBlocks = 5
  Numbers = 5
PROPERTIES ManyToOneFifo ManyToOneEnds RunsStayApart RunsEnd PairsComplete TurnsTaken
