SPECIFICATION Spec
CONSTANTS
    f1 = f1
    f2 = f2
    c = c
    d = d
    tf = tf
    tc = tc
    td = td
    te = te
    tn = tn
    Citing = {f1, f2}
    Cited = {c, d}
    Titles = {tf, tc, td, te, tn}
    TitleOf <- InstanceTitles
    Similar <- InstanceSimilar
    Catalog = {d}
    Lists <- InstanceLists
    None = None
    StubMin = 2
    MaxRounds = 2
    MaxFaults = 1
SYMMETRY Symmetry
INVARIANT CountsAreInDegrees
CHECK_DEADLOCK FALSE
