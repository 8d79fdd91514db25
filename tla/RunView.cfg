SPECIFICATION ViewFairSpec
CONSTANTS
    MaxRows = 1
    MaxLoads = 2
    MaxMishaps = 1
INVARIANT ViewInv
PROPERTIES EndIsSeen StreamEnds
CHECK_DEADLOCK FALSE
