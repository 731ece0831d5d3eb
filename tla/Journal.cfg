SPECIFICATION Spec
CONSTANTS
  p1 = p1
  p2 = p2
  c1 = c1
  c2 = c2
  x = x
  Nobody = Nobody
  Absent = Absent
  Original = Original
  Paths <- MCPaths
  ChangeSets <- MCChangeSets
  Contents <- MCContents
  MaxOps = 3
  MaxEdits = 1
  MaxCrashes = 2
  MaxFaults = 1
SYMMETRY MCSymmetry
INVARIANTS JournalSound
PROPERTIES WriteAhead WorkSettles
CHECK_DEADLOCK FALSE
