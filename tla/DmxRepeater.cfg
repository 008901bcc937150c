SPECIFICATION Spec
CONSTANTS
  NULL = NULL
  DMX_BUFFERING = 3
  DMX_MAX_SLOTS = 3
  RDM_MINIMUMFRAMELENGTH = 3
  breakByteCount = 2
  Bytes <- SmallBytes
  DMX_STARTCODE = 0
  RDM_STARTCODE = 2
  Frames = {}
  Tasks = {}
  CallbackForwards = TRUE
  CallbackReplies = {}
PROPERTY SentFrameStable
