SPECIFICATION TranscriptSpec
CONSTANTS
  t1 = t1
  t2 = t2
  c1 = c1
  c2 = c2
  None = None
  Threads <- MCThreads
  Callers <- MCCallers
  MaxEntries = 4
  MaxCalls = 6
  PageLimit = 2
SYMMETRY MCSymmetry
INVARIANTS TranscriptWellFormed PagesComplete
PROPERTIES MaterializedIsPrefix DecisionsKept
CHECK_DEADLOCK FALSE
