SPECIFICATION UplinkSpec
CONSTANTS
  HdrLen = 2
  MaxFd = 2
  MaxChunk = 4
  RxMsgqLen = 2
  MaxHeard = 3
  Frames <- MCFrames
INVARIANTS
  NothingLostInside
  UplinkInOrder
