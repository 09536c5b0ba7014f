CONSTANTS
  Sched = {s1}
  Worker = {w1}
  Caller = {}
  MaxPerTick = 1
  TripAfter = 2
  MaxSession = 1
SPECIFICATION FairSpec
PROPERTY EmbeddingsAreOptional
