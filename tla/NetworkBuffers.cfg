SPECIFICATION Spec
CONSTANTS
  NULL = NULL
  u1 = u1
  u2 = u2
  u3 = u3
  b1 = b1
  b2 = b2
  b3 = b3
  ipconfigNUM_NETWORK_BUFFER_DESCRIPTORS = 2
  Users <- ThreeUsers
  Blocks <- SmallBlocks
  ucEthTxBuffers <- StaticBlock
INVARIANT TypeOK SemaphoreIsCovered EveryDescriptorOnce UnlinkedHasNoMemory EveryBlockOnce
PROPERTY ImplementsPool
