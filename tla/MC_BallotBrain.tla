--------------------------- MODULE MC_BallotBrain ---------------------------
(***************************************************************************)
(* BallotBrain for TLC: a collision-free hash, three options of which the  *)
(* last is out of range, one voter who is not on the list.                 *)
(***************************************************************************)
EXTENDS BallotBrainProps

CONSTANTS e1, v1, v2, v3, n1

MCElections == {e1}
MCVoters == {v1, v2, v3}
MCHash(n, ver) == <<n, ver>>
MCOptions == 0..2
MCOptionCount == [e \in MCElections |-> 2]
MCEligible == [e \in MCElections |-> {v1, v2}]

CONSTANTS AdminCtxs, RecordCtxs  \* who receives lifecycle requests, and casts

\* Each eligible voter may vote twice, for another option with n1 than without;
\* one cast is of a voter not on the list and one for an option out of range.
Casts ==
    {j \in Jobs : /\ j.op = "record"
                  /\ \/ j.n = n1 /\ j.o = 0
                     \/ j.n = n1 /\ j.o = 2 /\ j.v = v1
                     \/ j.n # n1 /\ j.o = 1 /\ j.v # v3}

\* What else a voter asks, on the list or not; receipts are looked up by the
\* hash of a first and of a second version.
Queries == {j \in Jobs : \/ j.op \in {"join", "results"} /\ j.v \in {v1, v3}
                         \/ j.op = "lookup" /\ j.h \in {Hash(n1, 1), Hash(n1, 2)}}

\* Every kind of request: the voters' reach one context, the administrator's
\* another.
DaemonRequests ==
    [c \in Ctxs |->
       (IF c \in RecordCtxs THEN Casts \cup Queries ELSE {})
       \cup (IF c \in AdminCtxs
             THEN {j \in Jobs : j.op \in {"transition", "results_admin"}} ELSE {})]

\* Casts of eligible voters for options in range, and transitions.
WriterRequests ==
    [c \in Ctxs |->
       {j \in Jobs : \/ j.op = "record" /\ j.v # v3 /\ j.o < 2 /\ c \in RecordCtxs
                     \/ j.op = "transition" /\ c \in AdminCtxs}]
=============================================================================
