SPECIFICATION Spec
CONSTANTS
  NONE = NONE
  r1 = r1
  r2 = r2
  Requesters <- SmallRequesters
  length <- SmallLengths
  uxQueueLength = 2
INVARIANT TypeOK SuccessMeansTransferred ReadInBounds
PROPERTY AnsweredIsUntouched RequestAnswered
