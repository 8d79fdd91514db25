SPECIFICATION FairSpec
CONSTANTS
    a = a
    b = b
    c = c
    A = A
    Procs = {A}
    Calls = {a, b}
    ProcOf <- InstanceProcs
    AskedOf <- InstanceAsked
    KeyOf <- InstanceKeys
    Strict = {a}
    Main = "main"
    Light = "light"
    RejectsThinking = {"light"}
    Retries = 2
    After503 = 1
    Concurrency = 1
    Rate <- InstanceRates
    DailyCap <- InstanceCaps
    MaxCuts = 1
INVARIANT CallsInv
PROPERTIES QuotaSpec EveryCallEnds
CHECK_DEADLOCK FALSE
