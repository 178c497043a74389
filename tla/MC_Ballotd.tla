----------------------------- MODULE MC_Ballotd -----------------------------
(***************************************************************************)
(* Ballotd for TLC.                                                        *)
(***************************************************************************)
EXTENDS BallotdProps

\* One operation of either channel is enough for the control: CAST, whose result may
\* have no name on the wire, and ADMIN_RESULTS.
OneEach == {"CAST", "ADMIN_RESULTS"}

CONSTANTS v1, v2, o1
FirstAsks == [v \in Voters |-> IF v = v1 THEN 1 ELSE 0]
============================================================================
