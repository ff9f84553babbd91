SPECIFICATION Spec
CONSTANTS
  MaxConns = 2
  MaxMsgs = 3
INVARIANTS
  TypeOK
  StreamsOfWholeRecords
  NothingSentTwice
  OpenSocketIsOwned
PROPERTIES
  StopEndsManager
  DeadPeerIsDropped
\* after stop() both threads are at their end
CHECK_DEADLOCK FALSE
