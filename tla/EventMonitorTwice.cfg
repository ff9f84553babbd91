SPECIFICATION Spec
CONSTANTS
  Nodes = {1}
  Feeds = {"tpdo1"}
  MaxEvents = 3
  MaxSubscriptions = 2
  MaxObjects = 2
  MayFail = {}
  Repeats = TRUE
INVARIANT UnsubscribedMeansDetached
\* the user quits
CHECK_DEADLOCK FALSE
