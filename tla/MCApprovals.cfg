CONSTANTS
  Row = {r1}
  Req = {q1, q2, q3}
  MaxSession = 2
SPECIFICATION FairSpec
INVARIANTS
  TypeOK
  AtMostOnce
  RanReadsExecuted
  StoredResultIsTheHandlers
PROPERTIES
  ResolutionIsFinal
  RestartInvalidates
  ResolvedFromOwnSession
  ImplementsSingleUse
  ClaimedGetsResult
