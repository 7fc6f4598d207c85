CONSTANTS
  w1 = w1
  w2 = w2
  None = None
  Writers <- MCWriters
  Sharings <- MCBoth
  Processes <- MCBoth
  MaxWrites = 2
  MaxFaults = 2
SPECIFICATION Spec
INVARIANTS SnapshotCurrent RecordsWhole TempsAccounted
CHECK_DEADLOCK FALSE
