CONSTANTS
  Text <- PlainTexts
  Banner <- BannerLine
  DELIM_LENGTH = 4
  READ_MAX = 8
  BUFFER_SIZE = 4
  NULL = NULL
  Lossy = {"text", "close"}
  MAX_FRAMES = 2
  MAX_BOOTS = 1
SPECIFICATION FairSpec
INVARIANTS
  TypeOK
  DeliversClosedFrames
  MessageFitsBlock
PROPERTIES
  FramesArrive
\* The serial thread may end, and the frames are bounded.
CHECK_DEADLOCK FALSE
