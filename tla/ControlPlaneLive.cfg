SPECIFICATION FairSpec
CONSTANTS
  a = a
  k1 = k1
  k2 = k2
  Ids = {a}
  Keys = {k1, k2}
  Clients = {c1}
  Run = Run
  KindOf <- MCIke
  MaxRecords = 2
  MaxGen = 2
  MaxFault = 1
  MaxDrift = 1
  MaxCrash = 1
  None = None
PROPERTIES Convergence RequestsFinish
