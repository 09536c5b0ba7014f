CONSTANTS
  Sched = {s1}
  Worker = {w1}
  Caller = {c1}
  MaxPerTick = 1
  TripAfter = 2
  MaxSession = 2
SPECIFICATION FairSpec
INVARIANT TypeOK
PROPERTIES
  TickClaimsUnclaimed
  DueIsClaimed
