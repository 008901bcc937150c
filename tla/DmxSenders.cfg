SPECIFICATION Spec
CONSTANTS
  NULL = NULL
  DMX_BUFFERING = 2
  DMX_MAX_SLOTS = 2
  RDM_MINIMUMFRAMELENGTH = 3
  breakByteCount = 1
  Bytes = {1}
  DMX_STARTCODE = 0
  RDM_STARTCODE = 2
  Frames = {f1}
  Tasks = {t1, t2}
  CallbackForwards = FALSE
  CallbackReplies = {f1, NULL}
INVARIANT BusyPortIsServed
PROPERTY TransmissionEnds
