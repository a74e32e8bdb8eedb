CONSTANTS
  Text <- PlainTexts
  Banner <- BannerLine
  DELIM_LENGTH = 4
  READ_MAX = 8
  BUFFER_SIZE = 3
  NULL = NULL
  Lossy = {}
  MAX_FRAMES = 2
  MAX_BOOTS = 1
SPECIFICATION Spec
INVARIANTS
  ParserReturns
\* The serial thread may end, and the frames are bounded.
CHECK_DEADLOCK FALSE
