CONSTANTS
  Row = {r1, r2}
  Req = {q1, q2}
  Turn = {t1}
  Kind = {"scheduled"}
  Action = {a, b}
  Driver = {d1}
  MaxSession = 1
  MaxSteps = 1
  MaxCalls = 2
  MaxBatch = 2
  MaxDrives = 0
SPECIFICATION TFairSpec
CHECK_DEADLOCK FALSE
INVARIANT OneWorkerPerTurn
PROPERTY LastFinisherDrives
