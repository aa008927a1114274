SPECIFICATION Spec
CONSTANTS
  o = o
  a = a
  b = b
  Nodes = {o, a, b}
  LinkCost <- TriangleCost
  Origins = {o, a}
  Inf = 9
  Slack = 0
  Hold = 2
  GCTime = 3
  MaxSeq = 1
  Scenes <- Undisturbed
  None = None
INVARIANT RetractsSelected
