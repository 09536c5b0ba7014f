CONSTANTS
  Row = {r1, r2}
  Req = {q1, q2}
  Turn = {t1}
  Kind = {"scheduled"}
  Action = {a}
  Driver = {d1}
  MaxSession = 2
  MaxSteps = 2
  MaxCalls = 2
  MaxBatch = 1
  MaxDrives = 1
SPECIFICATION TSpec
SYMMETRY Symmetry
CHECK_DEADLOCK FALSE
INVARIANTS
  TTypeOK
  DenialHolds
  BudgetCarries
  ToldTheTruth
  TailDrivenOnce
  ResumingIsHeld
PROPERTY ToldIsStable
