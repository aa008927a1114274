SPECIFICATION FairSpec
CONSTANTS
  Watchers = {w1}
  Capacity = 2
  Buffer = 2
  Wire = 1
  MaxSeq = 5
  MaxBreak = 2
  MaxRestart = 1
CHECK_DEADLOCK FALSE
INVARIANT Delivered
PROPERTY CatchUp
