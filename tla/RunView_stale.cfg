SPECIFICATION ViewSpec
CONSTANTS
    MaxRows = 1
    MaxLoads = 2
    MaxMishaps = 0
INVARIANT EndIsShown
CHECK_DEADLOCK FALSE
