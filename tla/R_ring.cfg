SPECIFICATION FairSpec
CONSTANTS
  ra = ra
  rb = rb
  Readers = {ra, rb}
  Offsets = {0, 2, 7}
  Cap = 3
  MaxChunk = 5
  MaxTotal = 9
INVARIANTS RingIsSuffix ReadsAreContiguous
PROPERTIES ImplementsLog ReadersEnd
CHECK_DEADLOCK FALSE
