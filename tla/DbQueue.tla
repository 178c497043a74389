------------------------------ MODULE DbQueue ------------------------------
(***************************************************************************)
(* libtetrisdb's statement queue (pipe/queue.c) and its PipeRunner child   *)
(* (pipe/proc.c): callers hand statements over without ever waiting, one   *)
(* worker thread carries them out and replaces a child that died or that   *)
(* missed its deadline.  A statement is the number it was given.           *)
(***************************************************************************)
EXTENDS Naturals, Sequences, FiniteSets

CONSTANTS QueueCap,     \* db_opts_t.queue_cap
          RespawnMax,   \* DB_RESPAWN_MAX
          MaxFaults     \* bound: times the child or the log file fails

VARIABLES items,        \* the ring
          stopping,
          dead,         \* the child is unusable and out of respawns
          dropped, errors,
          worker,       \* [pc, sql, attempt]
          table,        \* the rows inserted, in order
          handed, done, \* statements db_submit was called with, and answered ok
          faults

qvars == <<items, stopping, dead, dropped, errors, worker, table, handed, done, faults>>

Waiting == [pc |-> "wait", sql |-> 0, attempt |-> 0]
Gone == [pc |-> "gone", sql |-> 0, attempt |-> 0]

(* db_start, once its child reported ready and answered the probe. *)
db_start ==
    /\ items' = <<>> /\ stopping' = FALSE /\ dead' = FALSE
    /\ dropped' = 0 /\ errors' = 0 /\ handed' = 0 /\ done' = 0
    /\ worker' = Waiting

(* No queue: the mirror is off, and every call on it does nothing. *)
NoQueue ==
    /\ items' = <<>> /\ stopping' = FALSE /\ dead' = FALSE
    /\ dropped' = 0 /\ errors' = 0 /\ handed' = 0 /\ done' = 0
    /\ worker' = Gone

(* Full, shutting down or no child left: the statement is dropped and counted. *)
db_submit(sql) ==
    /\ handed' = handed + 1
    /\ IF Len(items) = QueueCap \/ stopping \/ dead
       THEN dropped' = dropped + 1 /\ UNCHANGED items
       ELSE items' = Append(items, sql) /\ UNCHANGED dropped
    /\ UNCHANGED <<stopping, dead, errors, worker, table, done>>

-----------------------------------------------------------------------------
(* The worker thread. *)

(* Mutant: an empty ring is waited on even when the queue is stopping. *)
dequeue_forever ==
    /\ worker.pc = "wait" /\ items # <<>>
    /\ worker' = [pc |-> "exec", sql |-> Head(items), attempt |-> 0]
    /\ items' = Tail(items)
    /\ UNCHANGED <<stopping, dead, dropped, errors, table, handed, done, faults>>

(* worker_main's loop head: NULL, and the end of the thread, only when stopping
   with nothing left. *)
dequeue ==
    /\ worker.pc = "wait"
    /\ \/ /\ items # <<>>
          /\ worker' = [pc |-> "exec", sql |-> Head(items), attempt |-> 0]
          /\ items' = Tail(items)
       \/ /\ items = <<>> /\ stopping
          /\ worker' = Gone
          /\ UNCHANGED items
    /\ UNCHANGED <<stopping, dead, dropped, errors, table, handed, done, faults>>

(* The child answered: ok, or an error that retrying cannot help. *)
Answered ==
    /\ worker.pc = "exec" /\ ~dead
    /\ \/ table' = Append(table, worker.sql) /\ done' = done + 1 /\ UNCHANGED <<errors, faults>>
       \/ /\ faults < MaxFaults /\ faults' = faults + 1
          /\ errors' = errors + 1 /\ UNCHANGED <<table, done>>
    /\ worker' = Waiting
    /\ UNCHANGED <<items, stopping, dead, dropped, handed>>

GiveUp == dead' = TRUE /\ dropped' = dropped + 1 /\ worker' = Waiting

(* The child died or missed the deadline, having carried the statement out or
   not.  It is killed; a replacement gets the same statement again, until the
   attempts are used up or one does not come up. *)
Unanswered ==
    /\ worker.pc = "exec" /\ ~dead /\ faults < MaxFaults
    /\ faults' = faults + 1
    /\ \E carried \in BOOLEAN : table' = IF carried THEN Append(table, worker.sql) ELSE table
    /\ \/ GiveUp
       \/ /\ worker.attempt < RespawnMax
          /\ worker' = [worker EXCEPT !.attempt = @ + 1]
          /\ UNCHANGED <<dead, dropped>>
    /\ UNCHANGED <<items, stopping, errors, handed, done>>

(* The attempts after the child is given up: what is still queued is dropped. *)
DropDead ==
    /\ worker.pc = "exec" /\ dead
    /\ dropped' = dropped + 1 /\ worker' = Waiting
    /\ UNCHANGED <<items, stopping, dead, errors, table, handed, done, faults>>

execute == Answered \/ Unanswered \/ DropDead

worker_main == dequeue \/ execute

-----------------------------------------------------------------------------
(* db_stop: ask, join, close the child. *)

AskStop == stopping' = TRUE /\ UNCHANGED <<items, dead, dropped, errors, worker, table, handed, done, faults>>
Joined == worker.pc = "gone" /\ UNCHANGED qvars
=============================================================================
