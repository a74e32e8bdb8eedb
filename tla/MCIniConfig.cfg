CONSTANTS
  Char <- Chars
  Line <- Lines
  MAX_LINES = 4
  Faults = {"fopen", "fseek", "ftell", "fread", "malloc"}
  NULL = NULL
SPECIFICATION Spec
INVARIANTS
  TypeOK
  TokenInside
  LoadsWellFormed
  EverythingFreed
\* The program ends.
CHECK_DEADLOCK FALSE
