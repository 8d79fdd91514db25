SPECIFICATION Spec
CONSTANTS
    r1 = r1
    r2 = r2
    t1 = t1
    Runs = {r1}
    Threads = {t1}
    ThreadOf <- OneThread
    Deep = {r1}
    Faults <- OneOverrun
    MaxFaultKinds = 2
INVARIANT DuplicatesAreHarmless
CHECK_DEADLOCK FALSE
