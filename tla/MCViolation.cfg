SPECIFICATION MCSpec
CONSTANTS
  HeaderSize = 2
  TrailerSize = 1
  MaxFrameBody = 1
  RecvSize = 5
  SocketBuffer = 6
  MaxFrames = 1
PROPERTY ViolationReported
CHECK_DEADLOCK FALSE
