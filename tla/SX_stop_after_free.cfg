SPECIFICATION Spec
CONSTANTS
  p1 = p1
  p2 = p2
  d1 = d1
  d2 = d2
  None = None
  Posts = {p1}
  Deletes = {d1}
  MaxResults = 1
INVARIANT NoStopAfterFree
CHECK_DEADLOCK FALSE
