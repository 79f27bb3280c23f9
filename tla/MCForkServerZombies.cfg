SPECIFICATION Spec
CONSTANTS
  Clients = {c1, c2}
  Messages = 2
  PipeSize = 1
  Stores = 1
  Naps = 2
CHECK_DEADLOCK FALSE

PROPERTY ZombiesVanish
