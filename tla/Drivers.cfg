SPECIFICATION Spec
CONSTANTS
  NULL = NULL
  NoBuffer = NoBuffer
  ipconfigNUM_RX_BUFFERS = 2
  Descriptors = {1, 2}
  Blocks = {11, 12, 13, 14}
  ipconfigEVENT_QUEUE_LENGTH = 7
  Gives <- Lowest
  ipconfigNUM_TX_BUFFERS = 2
  TxDescriptors = {1}
  TxBlocks = {11, 12, 13}
  MayGive <- Lowest
  MaxNotifications = 2
  MaxSize = 4
  RxUnits = 3
INVARIANTS
  TypeOK
  FramesLeaveRoom RxEveryBlockOnce TakesFramesOnly BackPointerIsRight
  TxEveryBlockOnce NoneFreeUnsent
  LinkFollowsPorts DeafOnlyAfterStaleStore
  ReadIsWhole LatchShowsWholeMessages
  LinkIsKnown NextPacketIsRight
PROPERTIES
  LeavesRingOnlyBetweenStores RxKeepsPoolRules EverySlotTaken
  NetworkComesUp
  ExchangeEnds
CHECK_DEADLOCK FALSE
