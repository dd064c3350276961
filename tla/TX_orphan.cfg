\* A completion of two choices and an embedding that are both given up
SPECIFICATION FairSpec
CONSTANTS
  r1 = r1
  r2 = r2
  r3 = r3
  t1 = t1
  t2 = t2
  t3 = t3
  t4 = t4
  NoTask = NoTask
  Tasks = {t1, t2, t3, t4}
  Requests = {r1, r2, r3}
  NSlots = 2
  MaxTurns = 1
  Loads <- AbandonedLoads
PROPERTY AbandonedSlotsComeFree
CHECK_DEADLOCK FALSE
