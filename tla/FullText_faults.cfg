SPECIFICATION FairSpec
CONSTANTS
    Papers = {p1}
    Clients = {c1, c2}
    None = None
    MaxFetchFailures = 2
    MaxParseFailures = 2
    MaxTries <- CodeTries
    MaxPushes = 2
    Faults <- EachFault
    MaxFaultKinds = 1
    TargetTokens = 6
    MaxTokens = 7
    OverlapTokens = 2
    MinTokens = 3
INVARIANTS QueuedIsCarried WorkHasJob RefsAccounted ReadyHasChunks
PROPERTIES LifecycleSpec QueuedIsServed RefsEventuallyResolved
CHECK_DEADLOCK FALSE
