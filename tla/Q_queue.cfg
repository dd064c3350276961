\* Three HTTP workers, tasks of one or two iterations
SPECIFICATION FairSpec
CONSTANTS
  Clients = {c1, c2, c3}
  Main = Main
  NextResponse = NextResponse
  NoThread = NoThread
  MaxSteps = 2
  IdleSleep = TRUE
INVARIANTS NoLostWakeup SleepsOnlyWhenQuiet
PROPERTIES SleeperIsWoken TaskIsAnswered ShutdownUnblocksLoop
CHECK_DEADLOCK FALSE
