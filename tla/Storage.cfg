SPECIFICATION MCSpec
CONSTANTS
    s1 = s1 s2 = s2 p1 = p1 p2 = p2 p3 = p3 hook = hook
    Sessions = {s1, s2}
    Pages = {p1, p2, p3}
    Hooks = {hook}
    Nobody = Nobody
    Parts = {"failing", "stopping", "alone"}
    NumPages = 2
    MaxTxns = 3
    MaxCrashes = 1
    MaxIoErrors = 2
SYMMETRY Symmetry
INVARIANTS Durable KilledAbortLeavesNothing OpenChangesHidden WriteAhead AloneRecoverSettles
