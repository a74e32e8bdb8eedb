CONSTANTS
  Faults = {"tcsetattr"}
  Valid = {1, 2, 4}
  MAX_MESSAGES = 2
  MAX_SENT = 4
SPECIFICATION Spec
INVARIANTS
  ClosesOnlyItsOwn
\* The program ends.
CHECK_DEADLOCK FALSE
