SPECIFICATION CodecSpec
CONSTANTS
  StdIds = {0, 2047}
  ExtIds = {0, 2048, 536870911}
  Lengths = {0, 1, 2, 3}
  MaxClassic = 2
  MaxFd = 3
  MaxHops = 3
INVARIANTS
  SameDataFrame
  RemoteStaysRemote
  PlainBridgesAreSafe
\* the last bus
CHECK_DEADLOCK FALSE
