SPECIFICATION Spec
CONSTANTS
  Kinds = {pdo, sdo}
  Connections = {can0}
  Initial = can0
  MaxMessages = 1
  Count = 2
  MaxIndex = 3
  CanArgument = TRUE
INVARIANT NewestFirst
PROPERTIES
  NewOnesShown
  PinFollows
  ObeysLastControl
  DriverEndCloses
\* the window is closed
CHECK_DEADLOCK FALSE
