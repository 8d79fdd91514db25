SPECIFICATION Spec
CONSTANTS
    Papers = {p1}
    Clients = {c1}
    None = None
    MaxFetchFailures = 3
    MaxParseFailures = 3
    MaxTries <- CodeTries
    MaxPushes = 2
    Faults <- OneConflict
    MaxFaultKinds = 1
    TargetTokens = 6
    MaxTokens = 7
    OverlapTokens = 2
    MinTokens = 3
INVARIANT ConflictsAreRetried
CHECK_DEADLOCK FALSE
