CONSTANTS
  Request = {t1, t2, t3}
  FreeFailures = 2
  BackoffMax = 3
  MaxFailures = 4
  MaxUnlocks = 2
SPECIFICATION Spec
SYMMETRY Symmetry
CHECK_DEADLOCK FALSE
INVARIANTS
  TypeOK
  GuessesSpaced
  UnlocksDoNotOverlap
  FailClosedAlone
  LockDropsAll
