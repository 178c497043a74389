SPECIFICATION MCSpec
CONSTANTS
    s1 = s1 p1 = p1 p2 = p2 hook = hook
    Sessions = {s1}
    Pages = {p1, p2}
    Hooks = {hook}
    Nobody = Nobody
    Parts = {"stopping"}
    NumPages = 2
    MaxTxns = 1
    MaxCrashes = 0
    MaxIoErrors = 0
SYMMETRY Symmetry
INVARIANT AbortLeavesNothing
