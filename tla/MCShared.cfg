SPECIFICATION Spec
CONSTANTS
  Producers = {p1, p2, p3}
  nitems = 4
  Workers = {w1, w2, w3}
  Pair = {w1, w2}
  Decrementers = {w1}
  Increments = 2
  MaxKills = 1
  Clients = {c1, c2}
  NMSG = 2
  MaxLoops = 4
INVARIANTS ReadsStoredItem UpdatesCounted LogInOrder
PROPERTIES MutexEnds CountersEnd AllAccounted
