----------------------------- MODULE LogdProps -----------------------------
(* Properties of the log daemon, its sender and its mirror. *)
EXTENDS Logd

(* No record vanishes uncounted.  Every record the sender ever dropped is in one
   place exactly: not reported yet, in a datagram on its way, counted by the
   daemon, refused there as a claim too large, or in a datagram that was lost
   with its socket; threads drop while another one reports (logmsg.c,
   atomic_fetch_sub).  What was handed to the mirror was inserted, rejected or
   dropped, or is still queued or being carried out (queue.c); a record counted
   as dropped may have been inserted all the same.  What the receive buffer held
   when the loop saw the stop is dealt with before the daemon closes, unless the
   file broke or the drain reached its limit (logger.c, logd_run).  And rows reach
   the log table in the order of their ids across restarts of the child and of the
   daemon; a statement carried out twice repeats its row next to the first
   (queue.c, execute; logger.c, db_seed_id). *)
RecordsAccounted ==
    /\ glb_dropped = glb_unreported + Claims(net) + past + stats.dropped + refused + lost
    /\ handed = done + errors + dropped + Len(items) + (IF worker.pc = "exec" THEN 1 ELSE 0)
    /\ pc \in {"out", "stop", "join"} /\ sig_stop /\ ~broken /\ drained < DrainMax => waiting = {}
    /\ ~misled => \A i \in 1..Len(table) - 1 : table[i] <= table[i + 1]

(* A daemon told to stop ends: db_stop's join does not wait for ever on a
   worker that sleeps or on a child that does not answer. *)
StopEnds == sig_stop /\ pc # "down" ~> pc = "down"
=============================================================================
