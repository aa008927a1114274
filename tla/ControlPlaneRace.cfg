SPECIFICATION Spec
CONSTANTS
  a = a
  k1 = k1
  k2 = k2
  Ids = {a}
  Keys = {k1, k2}
  Clients = {c1, c2}
  Run = Run
  KindOf <- MCRouted
  MaxRecords = 2
  MaxGen = 3
  MaxFault = 1
  MaxDrift = 1
  MaxCrash = 1
  None = None
INVARIANTS TypeOK NoOrphans StatusTruth NoLostRequest EventsAgree
