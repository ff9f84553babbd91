SPECIFICATION Spec
CONSTANTS
  NumTries = 2
  MaxEvents = 3
  RxMsgqLen = 2
INVARIANTS
  GivesBackInOrder
  ResultIsTrue
  NoMissedAnswer
PROPERTY
  EndIsNoticed
\* main() returns, and the connection manager may wait for an answer for ever
CHECK_DEADLOCK FALSE
