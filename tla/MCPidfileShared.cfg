CONSTANTS
  p1 = p1
  p2 = p2
  p3 = p3
  i1 = i1
  i2 = i2
  Stale = Stale
  Garbage = Garbage
  None = None
  Procs <- MCProcs
  Inodes <- MCInodes
SYMMETRY Symmetry
SPECIFICATION PidfileSpec
PROPERTY NeverRemovesOthers
CHECK_DEADLOCK FALSE
