CONSTANTS
  Client = {c1}
  Controller = controller
  Faults = {"ackloss"}
  QUEUE_SIZE = 2
  MAX_RESTARTS <- NobodyRestarts
  TX_SIZE = 2
SPECIFICATION Spec
INVARIANTS
  ReadyIsMutual
\* Once every client is registered nothing happens any more.
CHECK_DEADLOCK FALSE
