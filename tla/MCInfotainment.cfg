CONSTANTS
  Faults = {"frinfo_open", "pthread_create", "malloc", "malloc_buffer", "open", "tcsetattr", "read"}
  Valid = {1, 2, 4}
  MAX_MESSAGES = 2
  MAX_SENT = 4
SPECIFICATION FairSpec
INVARIANTS
  TypeOK
  SharedWhileRunning
  NothingLeftBehind
PROPERTIES
  StatusGoesForward
  WindowClosedEnds
  LatestIsShown
\* The program ends.
CHECK_DEADLOCK FALSE
