CONSTANTS
  Vault = {v1}
  Key = {k1, k2}
  Tick = tick
  NoPin = NoPin
  Req = {q1}
  MaxSeq = 3
  RetiredAt = {2}
  FailureCount = 2
  MaxFailures = 2
SPECIFICATION FairSpec
CHECK_DEADLOCK FALSE
INVARIANTS
  TypeOK
  OnlyTrustedKeysLand
  StateMovesTogether
  UnreachableIsEarned
PROPERTIES
  FloorFallsOnlyBehindARace
  DueIsChecked
