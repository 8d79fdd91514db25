SPECIFICATION Spec
CONSTANTS
    Papers = {a, b}
    MaxTurns = 4
    Window = 1
    MaxFaults = 2
SYMMETRY Symmetry
INVARIANTS NumbersInOrder TurnsAreToldOnce
PROPERTY NumbersStay
CHECK_DEADLOCK FALSE
