SPECIFICATION FairSpec
CONSTANTS
    r1 = r1
    r2 = r2
    t1 = t1
    Runs = {r1}
    Threads = {t1}
    ThreadOf <- OneThread
    Deep = {r1}
    Faults <- Restarts
    MaxFaultKinds = 2
INVARIANTS ExecutedOnce DoneHasAnswer RunningHasJob
PROPERTY EveryRunEnds
CHECK_DEADLOCK FALSE
