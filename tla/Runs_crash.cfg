SPECIFICATION Spec
CONSTANTS
    r1 = r1
    r2 = r2
    t1 = t1
    Runs = {r1}
    Threads = {t1}
    ThreadOf <- OneThread
    Deep = {r1}
    Faults <- OneCrash
    MaxFaultKinds = 1
INVARIANT RestartsResumeRuns
CHECK_DEADLOCK FALSE
