SPECIFICATION Spec
CONSTANTS
  Clients = {c1, c2}
  Sizes = {2, 5}
  Cap = 2
  ClientBuf = 3
  Rounds = 1
CHECK_DEADLOCK FALSE
INVARIANT NeverBlocksInRead
PROPERTIES MessagesEchoed DescriptorsFreed
