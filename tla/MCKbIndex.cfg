CONSTANTS
  Doc = {d1, d2}
  VaultDoc = {d2}
  Text = {a, b}
  LongText = {a}
  Req = {q1, q2}
  Embedder = {e1}
  Pass = e1
  MaxEdits = 3
  MaxStops = 1
SPECIFICATION FairSpec
CHECK_DEADLOCK FALSE
INVARIANTS
  TypeOK
  LiveIndexFollowsRequests
  VectorsDescribeTheText
PROPERTIES
  PendingIsEmbedded
