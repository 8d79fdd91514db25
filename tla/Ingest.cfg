CONSTANTS
    new = new
    old = old
    Records <- MCRecords
    InWindow <- MCInWindow
    MinCites = 1
    FirstRunDays = 3
    MaxDay = 2
    MaxVersion = 2
    MaxPasses = 2
    MaxFaults = 1
SPECIFICATION Spec
INVARIANTS MarksInv EmbeddingIsCurrent PostFollows
PROPERTY StateNeverGoesBack
CHECK_DEADLOCK FALSE
