SPECIFICATION Spec
CONSTANTS
  Parts = 2
  Attempts = 1
  MaxTransit = 3
  MaxRuns = 3
INVARIANTS
  WritesOnlyErased
  SuccessMeansConfirmed
PROPERTIES
  ErasesStoppedStartsComplete
  ToolEnds
\* the tool ends
CHECK_DEADLOCK FALSE
