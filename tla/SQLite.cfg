SPECIFICATION FairSpec
CONSTANTS
  w1 = w1
  w2 = w2
  r1 = r1
  s1 = s1
  k1 = k1
  k2 = k2
  Close = Close
  Requests <- MCRequests
  Closers <- MCClosers
  Kind <- MCKind
  Capacity = 2
PROPERTIES RequestsServed CallsReturn
CHECK_DEADLOCK FALSE
