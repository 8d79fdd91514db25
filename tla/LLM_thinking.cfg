SPECIFICATION Spec
CONSTANTS
    a = a
    b = b
    c = c
    A = A
    Procs = {A}
    Calls = {b, c}
    ProcOf <- InstanceProcs
    AskedOf <- InstanceAsked
    KeyOf <- InstanceKeys
    Strict = {}
    Main = "main"
    Light = "light"
    RejectsThinking = {"light"}
    Retries = 2
    After503 = 1
    Concurrency = 2
    Rate <- InstanceRates
    DailyCap <- InstanceCaps
    MaxCuts = 1
INVARIANT RejectionDropsConfig
CHECK_DEADLOCK FALSE
