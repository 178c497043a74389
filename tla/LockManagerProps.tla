------------------------- MODULE LockManagerProps -------------------------
(***************************************************************************)
(* What the page locks promise.                                            *)
(***************************************************************************)
EXTENDS LockManager

ASSUME LockAssumption == NoPage \notin Pages /\ MaxRequests \in [Txns -> Nat]

Statuses == {"running", "acquiring", "aborting", "done"}

\* Types of the variables; a thread asks for a page exactly while it acquires.
TypeOK ==
    /\ holders \in [Pages -> SUBSET Txns]
    /\ exclusive \in [Pages -> BOOLEAN]
    /\ waitingFor \in [Txns -> Pages \cup {NoPage}]
    /\ status \in [Txns -> Statuses]
    /\ want \in [Txns -> Wants \cup {NoWant}]
    /\ probed \in [Txns -> Pages \cup {NoPage}]
    /\ used \in [Txns -> SUBSET Wants]
    /\ requests \in [Txns -> Nat] /\ \A t \in Txns : requests[t] <= MaxRequests[t]
    /\ stopping \in BOOLEAN
    /\ \A t \in Txns : want[t] \in Wants <=> status[t] = "acquiring"

\* Two transactions under way have not both used a page of which one wrote:
\* acquire keeps them apart and nothing is given back too early.
Isolated ==
    \A t, u \in Txns : t # u =>
       \A a \in used[t], b \in used[u] : a.pid = b.pid => ~a.x /\ ~b.x

\* No set of transactions waits in a circle: in every set there is one that
\* waits for nobody in the set.  The check in acquire finds every deadlock.
NoWaitCycle ==
    \A S \in SUBSET Txns :
       S # {} => \E t \in S : waitEdges(waitingFor, t) \cap S = {}

\* A victim of deadlock detection holds a lock that another one waits for, so
\* aborting it lets somebody go on.
VictimBlocksAnother ==
    [][\A t \in Txns : acquireDeadlocked(t) =>
          \E u \in Txns \ {t} : t \in waitEdges(waitingFor, u)]_vars

----------------------------------------------------------------------------
(* The inductive invariant. *)

\* An exclusively locked page has one holder.
ExclusiveAlone ==
    \A p \in Pages : exclusive[p] => \E t \in Txns : holders[p] = {t}

\* What a transaction has used it still holds, in the mode it used it.
UsedHeld ==
    \A t \in Txns : \A w \in used[t] :
       t \in holders[w.pid] /\ (w.x => exclusive[w.pid])

\* A page taken only to look for a slot has not been used.
ProbedUnused == \A t \in Txns : \A w \in used[t] : w.pid # probed[t]

\* Only a thread inside acquire is recorded as waiting.
WaitersAcquire ==
    \A t \in Txns : waitingFor[t] # NoPage => status[t] = "acquiring"

IInv == TypeOK /\ ExclusiveAlone /\ UsedHeld /\ ProbedUnused
        /\ WaitersAcquire /\ NoWaitCycle

----------------------------------------------------------------------------
\* Every acquire returns or throws.
EveryAcquireEnds ==
    \A t \in Txns : status[t] = "acquiring" ~> status[t] # "acquiring"
=============================================================================
