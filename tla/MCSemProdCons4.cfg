SPECIFICATION LiveSpec
CONSTANTS
  Producers = {p1, p2, p3}
  Consumers = {c1, c2}
  NBUFF = 2
  nitems = 3
INVARIANTS ReadsExpectedItem IInv
PROPERTIES FifoSpec Termination
