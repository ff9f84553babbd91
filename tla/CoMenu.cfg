SPECIFICATION MenuSpec
CONSTANTS
  Devices = {1, 2}
  EdsFiles = 1
  DictSub = 1
  MaxSub = 2
  MaxWrites = 2
  None = None
INVARIANTS
  SilenceMeansWritten
  EndsDisconnected
PROPERTY OthersUntouched
\* the process ends
CHECK_DEADLOCK FALSE
