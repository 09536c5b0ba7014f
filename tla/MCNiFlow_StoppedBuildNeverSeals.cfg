CONSTANTS
  Item = {i1}
  Tap = {q1}
  MaxConcurrent = 1
  Rows = 1
  MaxTaps = 2
  MaxCrashes = 0
SPECIFICATION Spec
CHECK_DEADLOCK FALSE
PROPERTIES
  StoppedBuildNeverSeals
