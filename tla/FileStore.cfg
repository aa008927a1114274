SPECIFICATION Spec
CONSTANTS
  Ids = {a, b, c}
  Names = {m, n}
  MaxRecords = 2
  MaxGen = 3
  None = None
  Torn = Torn
  MaxFault = 3
  MaxCrash = 1
CHECK_DEADLOCK FALSE
INVARIANTS CrashConsistent Acknowledged
PROPERTY ImplementsRecordStore
