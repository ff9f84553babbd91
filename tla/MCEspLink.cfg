SPECIFICATION Spec
CONSTANTS
  HdrLen = 2
  MaxFd = 3
  MaxChunk = 3
  MaxSent = 3
  MaxClassic = 2
  DumpSize = 3
  Frames <- MCFrames
INVARIANTS
  StaysInArray
  ForwardsClassicFrames
  PollsBetweenRecords
PROPERTIES
  EveryRecordHandled
\* the ESP32 program ends with its connection
CHECK_DEADLOCK FALSE
