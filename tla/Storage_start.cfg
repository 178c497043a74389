SPECIFICATION MCSpec
CONSTANTS
    s1 = s1 p1 = p1 p2 = p2
    Sessions = {s1}
    Pages = {p1, p2}
    Hooks = {}
    Nobody = Nobody
    Parts = {"failing"}
    NumPages = 2
    MaxTxns = 1
    MaxCrashes = 1
    MaxIoErrors = 0
SYMMETRY Symmetry
INVARIANT StartUndoes
