--------------------------- MODULE MC_LockManager ---------------------------
(***************************************************************************)
(* LockManager for TLC.                                                    *)
(***************************************************************************)
EXTENDS LockManagerProps, TLC

\* Two requests each are enough for any cycle.
TwoEach == [t \in Txns |-> 2]

\* Transactions, and pages, are only compared for equality.
Symmetry == Permutations(Txns) \cup Permutations(Pages)
=============================================================================
