SPECIFICATION Spec
CONSTANTS
  NONE = NONE
  Sizes <- SmallSizes
  rxBufferSize = 2
  FrameLengths <- SmallFrames
  QueueLength = 1
  MaxErrors = 2
INVARIANT TypeOK SuccessMeansSent
PROPERTY FramesWhole SendReturns
