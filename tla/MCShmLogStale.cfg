SPECIFICATION Spec
CONSTANTS
  Clients = {c1, c2}
  NMSG = 2
  MaxLoops = 2
INVARIANT PrintsPlacedMessages
