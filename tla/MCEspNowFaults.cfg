CONSTANTS
  Client = {c1}
  Controller = controller
  Faults = {"loss", "ackloss", "drop", "busy", "nomem"}
  QUEUE_SIZE = 2
  MAX_RESTARTS <- AllRestartOnce
  TX_SIZE = 3
SPECIFICATION Spec
INVARIANTS
  TypeOK
  ReadyIsKnown
\* Once every client is registered nothing happens any more.
CHECK_DEADLOCK FALSE
