SPECIFICATION Spec
CONSTANTS
    p1 = p1
    p2 = p2
    Hits = {p1, p2}
    Rank <- InOrder
    Share = 50
    Spare = 1
    MaxRestarts = 0
CHECK_DEADLOCK FALSE
INVARIANT NothingLeftUrgentEver
