CONSTANTS
  d1 = d1
  d2 = d2
  NSignals = 3
  Deliveries <- MCDeliveries
  p1 = p1
  p2 = p2
  p3 = p3
  i1 = i1
  i2 = i2
  Stale = Stale
  Garbage = Garbage
  None = None
  Procs <- MCProcs
  Inodes <- MCInodes
SPECIFICATION MCSpec
INVARIANTS NoStrayWrite SignalsSpareRun CleanupComplete RunningIsListed EndLeavesNoPid
PROPERTIES UncertainKept SignalEndsRun
CHECK_DEADLOCK FALSE
