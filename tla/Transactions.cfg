SPECIFICATION Spec
CONSTANTS
  Ids = {t1, t2, t3}
  Tables = {a, b}
  Secrets = {s}
  Empty = Empty
  Clear = Clear
  MaxRecords = 2
  MaxArchived = 2
  MaxTx = 1
  MaxFault = 2
  MaxCrash = 1
  None = None
SYMMETRY Symmetry
INVARIANTS NoOrphans AllOrNothing UndoPossible RepairComes
