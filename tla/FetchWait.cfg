SPECIFICATION FairSpec
CONSTANTS
    p1 = p1
    p2 = p2
    Hits = {p1, p2}
    Rank <- InOrder
    Share = 50
    Spare = 1
    MaxRestarts = 1
INVARIANTS PlanAddsUp MinimumIsMandatory NothingLeftUrgent
PROPERTIES SettledEnds StopsInTime
CHECK_DEADLOCK FALSE
