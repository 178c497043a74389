----------------------------- MODULE MC_Storage -----------------------------
(***************************************************************************)
(* Storage for TLC.  A behaviour keeps to one of three scopes, so that one *)
(* run has the failing writes, the shutdown hook and the longer sequences  *)
(* of transactions without the product of the three.                       *)
(***************************************************************************)
EXTENDS StorageProps, TLC

CONSTANT Parts

VARIABLE part

Scope ==
    CASE part = "failing" ->  \* two sessions; the process is only ever killed
           up # "stopping" /\ Len(outcome) <= 2 /\ ioErrors + crashes <= 2
      [] part = "stopping" -> \* two sessions and the shutdown hook
           ioErrors = 0 /\ Len(outcome) <= 2
      [] part = "alone" ->    \* one session at a time, more transactions
           /\ up # "stopping" /\ ioErrors <= 1
           /\ Cardinality({s \in Sessions : session[s] # Idle}) <= 1

ScopeDone ==
    /\ part # "alone" /\ Len(outcome) = 2
    /\ \A s \in Sessions : session[s] = Idle
    /\ UNCHANGED vars

MCInit == Init /\ part \in Parts

MCNext == (Next \/ ScopeDone) /\ UNCHANGED part /\ Scope'

MCSpec == MCInit /\ [][MCNext]_<<vars, part>>

\* An aborted transaction leaves nothing behind, as long as the process is not
\* stopped by its shutdown hook.
KilledAbortLeavesNothing == part # "stopping" => AbortLeavesNothing

\* recover() would settle the log and the disk of any moment, one session at a
\* time and as long as no write of a commit has failed.  After one, it would
\* not: rollback takes a page's earliest before-image, recover its last, and a
\* page flushed in part, evicted, read again and flushed again has the open
\* transaction's change in the last.
AloneRecoverSettles == part = "alone" /\ ioErrors = 0 => RecoverSettles

\* Sessions and pages are interchangeable: only safety is checked.
Symmetry == Permutations(Sessions) \cup Permutations(Pages)
=============================================================================
