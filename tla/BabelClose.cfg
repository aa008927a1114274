SPECIFICATION FairSpec
CONSTANTS
  Dests = {p, q}
  Routers = {r, s}
  Starts = {0, 65534}
  Capacity = 4
  Hold = 2
  MaxQueue = 6
  MaxNet = 2
  Budgets <- MCClosing
  None = None
CHECK_DEADLOCK FALSE
PROPERTY CloseFinishes
