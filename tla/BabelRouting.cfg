SPECIFICATION FairSpec
CONSTANTS
  o = o
  a = a
  b = b
  Nodes = {o, a, b}
  LinkCost <- TriangleCost
  Origins = {o, a}
  Inf = 9
  Slack = 0
  Hold = 1
  GCTime = 2
  MaxSeq = 1
  Scenes <- Both
  None = None
INVARIANTS DistanceKept LoopsAreStale
PROPERTY Forgotten
