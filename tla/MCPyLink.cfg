SPECIFICATION Spec
CONSTANTS
  HdrLen = 2
  MaxFd = 2
  MaxChunk = 5
  MaxSent = 3
  Frames <- MCFrames
INVARIANTS
  TypeOK
  DecodedInOrder
  NeverRejects
  NothingHeldBack
  OrderlyEndLosesNothing
PROPERTIES
  EveryRecordDecoded
  ImplementsChannel
