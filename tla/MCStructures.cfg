SPECIFICATION Spec
CONSTANTS
  Threads = {t1, t2, t3}
  MaxCalls = 2
  Times = {1, 2, 3}
  MaxTimers = 6
  Top = 3
  MaxWays = 5
  MaxNodes = 4
  Clients = {c1, c2, c3}
SYMMETRY Symmetry
CHECK_DEADLOCK FALSE
INVARIANTS OneInstance HeapConsistent MergesSorted ListIsMembers BroadcastReachesMembers
PROPERTIES ExpiresDueTimers CancelsOnlyThat
