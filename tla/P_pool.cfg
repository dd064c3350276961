\* Four devices, three dispatches of either mode, then the destructor
SPECIFICATION FairSpec
CONSTANTS
    Workers = {w1, w2, w3}
    Main = Main
    MaxJobs = 3
INVARIANT JobIsAlive
PROPERTIES ImplementsForkJoin DispatchEnds
CHECK_DEADLOCK FALSE
