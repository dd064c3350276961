SPECIFICATION FairSpec
CONSTANTS
  p1 = p1
  p2 = p2
  d1 = d1
  d2 = d2
  None = None
  Posts = {p1, p2}
  Deletes = {d1}
  MaxResults = 2
INVARIANTS RingComplete LiveIsReachable CancelledByOne
PROPERTIES CancelledIsFreed AnsweredIsFinalized
CHECK_DEADLOCK FALSE
