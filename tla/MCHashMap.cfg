SPECIFICATION MapSpec
CONSTANTS
  k1 = k1
  k2 = k2
  k3 = k3
  Key <- MCKey
  Value = {0, 1}
  Hash <- MCHash
  CAPACITY = 4
  MAX_CAPACITY = 8
  CALLOC_FAILS = TRUE
  NIL = NIL
  HEAD = HEAD
INVARIANTS MapTypeOK SearchEnds ListIsWhole
PROPERTY ImplementsOrderedMap
