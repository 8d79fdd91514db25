SPECIFICATION Spec
CONSTANTS
    r1 = r1
    r2 = r2
    t1 = t1
    Runs = {r1, r2}
    Threads = {t1}
    ThreadOf <- OneThread
    Deep = {}
    Faults <- ApiFaults
    MaxFaultKinds = 3
SYMMETRY Symmetry
INVARIANT OneRunPerThread
PROPERTY FinalStays
CHECK_DEADLOCK FALSE
