CONSTANTS
  Item = {i1}
  Tap = {q1, q2}
  MaxConcurrent = 1
  Rows = 1
  MaxTaps = 2
  MaxCrashes = 1
SPECIFICATION FairSpec
CHECK_DEADLOCK FALSE
INVARIANTS
  TypeOK
PROPERTIES
  StopIsKept
  StoppedCardKeepsItsSpec
  BuildsSettle
