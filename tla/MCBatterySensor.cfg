CONSTANTS
  Block = {b1, b2, b3}
  NULL = NULL
  Faults = {"nomem", "receive", "transmit"}
  CAN_MESSAGE_QUEUE_SIZE = 2
  LOOPS_BETWEEN_MCU_STATUS_REQUEST = 1
  LOOPS_BETWEEN_MCU_CONFIG_REQUEST = 1
  STATUS_REQUESTS = 2
  CONFIG_REQUESTS = 2
  WIDTH = 2
SPECIFICATION FairSpec
INVARIANTS
  TypeOK
  MessagesAreOwned
PROPERTIES
  AsksAgain
  ConfigIsLearnt
\* The task stops when it has written through a null pointer.
CHECK_DEADLOCK FALSE
