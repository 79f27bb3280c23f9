SPECIFICATION Spec
CONSTANTS
  Clients = {c1, c2}
CHECK_DEADLOCK FALSE
INVARIANT RemovesDisconnected
