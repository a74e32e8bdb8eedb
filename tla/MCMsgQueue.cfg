CONSTANTS
  Thread = {t1, t2}
  Msg = {m1, m2, m3, m4, m5}
  NULL = NULL
  MAX_MESSAGES = 3
SPECIFICATION FairSpec
INVARIANTS
  TypeOK
  RingIsContiguous
  SingleOwner
PROPERTIES
  ImplementsFifo
  LockIsReleased
\* A closed queue is never used again.
CHECK_DEADLOCK FALSE
