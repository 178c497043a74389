CONSTANTS
    Txns = {t1, t2, t3}
    Pages = {p1, p2, p3}
    NoPage = NoPage
    MaxRequests <- TwoEach
SPECIFICATION Spec
SYMMETRY Symmetry
INVARIANTS Isolated NoWaitCycle
PROPERTY VictimBlocksAnother
