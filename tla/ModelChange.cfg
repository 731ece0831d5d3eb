SPECIFICATION ModelSpec
CONSTANTS
  p1 = p1
  p2 = p2
  t1 = t1
  t2 = t2
  m1 = m1
  m2 = m2
  NoRecord = NoRecord
  NoWriter = NoWriter
  Procs <- MCProcs
  Threads <- MCThreads
  Models <- MCModels
  MaxChanges = 2
  MaxCrashes = 2
  MaxFaults = 2
SYMMETRY Symmetry
PROPERTIES ChangeIsWhole
CHECK_DEADLOCK FALSE
