SPECIFICATION Spec
CONSTANTS
  Nodes = {1}
  Feeds = {"heartbeat", "tpdo1"}
  MaxEvents = 3
  MaxSubscriptions = 2
  MaxObjects = 2
  MayFail = {"tpdo1"}
  Repeats = FALSE
PROPERTIES
  UpToDate
  AtMostOneLateEvent
\* the user quits
CHECK_DEADLOCK FALSE
