SPECIFICATION MCSpec
CONSTANTS
  HeaderSize = 2
  TrailerSize = 1
  MaxFrameBody = 1
  RecvSize = 5
  SocketBuffer = 6
  MaxFrames = 3
INVARIANT TcpTypeOK
INVARIANT OnlyIntactDelivered
INVARIANT BufferBounded
PROPERTY ImplementsChannel
PROPERTY EventuallyDelivered
CHECK_DEADLOCK FALSE
