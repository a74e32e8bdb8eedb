CONSTANTS
  Client = {c1, c2}
  Controller = controller
  Faults = {"loss"}
  QUEUE_SIZE = 2
  MAX_RESTARTS <- OneClientRestarts
  TX_SIZE = 3
SPECIFICATION FairSpec
INVARIANTS
  ReadyIsMutual
PROPERTIES
  ReadyIsFinal
  AllRegister
  NobodyWaits
\* Once every client is registered nothing happens any more.
CHECK_DEADLOCK FALSE
