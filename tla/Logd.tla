-------------------------------- MODULE Logd --------------------------------
(***************************************************************************)
(* tetrislogd (logger.c, main.c), a process that logs to it (logmsg.c) and *)
(* the database mirror behind it (DbQueue).                                *)
(*                                                                         *)
(* A datagram is its number, its level and the drops it reports; level     *)
(* "alien" is one log_level_rank does not know, "runt" a datagram of       *)
(* another size than log_msg_t.  The daemon may stop and be started again: *)
(* what its socket still holds then is lost.                               *)
(***************************************************************************)
EXTENDS DbQueue

CONSTANTS Threads,        \* threads of the logging process
          SockCap,        \* records the receive buffer holds
          MaxAttempts,    \* log_send_attempts
          DropClaimMax,   \* LOGD_DROP_CLAIM_MAX
          DrainMax,       \* LOGD_DRAIN_MAX
          Confs           \* the configurations: [db |-> the rc file's db, and the bounds:
                          \* sends, starts, windows of one start, hangups, faults]

VARIABLES conf,           \* one of Confs, for good
          thread,         \* [pc, num, level, claims, then] of each sender thread
          holder,         \* the thread that holds glb_sender_lock, or NoThread
          fd,             \* the start of the daemon glb_fd is connected to; 0: -1
          glb_dropped, glb_unreported,
          sent,           \* records and strays sent so far
          net,            \* the receive buffer
          pc,             \* the daemon's place in logd_run
          start,          \* how often it was started
          stats,          \* the datagrams counted (received, filtered, malformed), the drops reported
          window,         \* [open, ended]: the counts when it opened, the windows ended
          sig_stop, sig_reopen,
          level,          \* opts.min_level
          next_id,
          drained,        \* records read since the loop ended
          waiting,        \* what the receive buffer held when the loop ended, not dealt with yet
          past, lost, refused, \* drops of earlier starts' stats; in datagrams lost; refused
          broken,         \* serve_one or summarise could not write the file
          misled          \* a start's probe was rejected

svars == <<thread, holder, fd, glb_dropped, glb_unreported, sent>>
dvars == <<stats, window, next_id, drained, waiting, past, lost, refused, broken, misled>>
vars == <<conf, qvars, svars, net, pc, start, sig_stop, sig_reopen, level, dvars>>

NoThread == "none"
Zero == [seen |-> 0, dropped |-> 0]
Resting == [pc |-> "idle", num |-> 0, level |-> "info", claims |-> 0, then |-> "idle"]

Init ==
    /\ conf \in Confs
    /\ items = <<>> /\ stopping = FALSE /\ dead = FALSE /\ dropped = 0 /\ errors = 0
    /\ worker = Gone /\ table = <<>> /\ handed = 0 /\ done = 0 /\ faults = 0
    /\ thread = [t \in Threads |-> Resting] /\ holder = NoThread /\ fd = 0
    /\ glb_dropped = 0 /\ glb_unreported = 0 /\ sent = 0
    /\ net = <<>> /\ pc = "down" /\ start = 0
    /\ sig_stop = FALSE /\ sig_reopen = FALSE /\ level = "info"
    /\ stats = Zero /\ window = [open |-> <<Zero, 0, 0>>, ended |-> 0] /\ next_id = 1
    /\ drained = 0 /\ waiting = {}
    /\ past = 0 /\ lost = 0 /\ refused = 0 /\ broken = FALSE /\ misled = FALSE

-----------------------------------------------------------------------------
(* The sender. *)

drop_one == glb_dropped' = glb_dropped + 1 /\ glb_unreported' = glb_unreported + 1

(* log_vsend up to its first send: the lock is only tried, and the drops not
   yet reported go along. *)
log_vsend(t, l, then) ==
    /\ thread[t].pc = "idle" /\ sent < conf.sends
    /\ sent' = sent + 1
    /\ \/ /\ holder # NoThread /\ drop_one
          /\ thread' = [thread EXCEPT ![t].pc = then]
          /\ UNCHANGED holder
       \/ /\ holder = NoThread /\ holder' = t
          /\ thread' = [thread EXCEPT ![t] = [pc |-> "send", num |-> sent', level |-> l,
                                              claims |-> glb_unreported, then |-> then]]
          /\ UNCHANGED <<glb_dropped, glb_unreported>>
    /\ UNCHANGED <<fd, net>>

(* Mutant: once a record is through, nothing is left to report. *)
reportAll(n) == glb_unreported' = 0

(* atomic_fetch_sub of what the record carried. *)
report(n) == glb_unreported' = glb_unreported - n

(* A connection to an earlier start is refused once and made again; a full
   buffer ends the attempts. *)
reaches == /\ pc # "down" /\ Len(net) < SockCap
           /\ fd \in {0, start} \/ MaxAttempts > 1

(* The attempts, the count, the unlock. *)
attempts(t) ==
    /\ thread[t].pc = "send"
    /\ \/ /\ reaches
          /\ net' = Append(net, [num |-> thread[t].num, level |-> thread[t].level,
                               dropped |-> thread[t].claims])
          /\ report(thread[t].claims) /\ UNCHANGED glb_dropped
       \/ ~reaches /\ drop_one /\ UNCHANGED net
    /\ fd' = IF pc # "down" THEN start ELSE 0
    /\ holder' = NoThread
    /\ thread' = [thread EXCEPT ![t] = [Resting EXCEPT !.pc = thread[t].then]]
    /\ UNCHANGED sent

(* log_close: a last record if a drop is unreported, then the disconnect, for
   which the lock is waited for. *)
log_close(t) ==
    \/ glb_unreported > 0 /\ log_vsend(t, "info", "close")
    \/ /\ glb_unreported = 0 /\ thread[t].pc = "idle" /\ fd # 0
       /\ thread' = [thread EXCEPT ![t].pc = "close"]
       /\ UNCHANGED <<holder, fd, glb_dropped, glb_unreported, sent, net>>

sender_disconnect_socket(t) ==
    /\ thread[t].pc = "close" /\ holder = NoThread
    /\ fd' = 0 /\ thread' = [thread EXCEPT ![t] = Resting]
    /\ UNCHANGED <<holder, glb_dropped, glb_unreported, sent, net>>

(* Another program writes to the socket. *)
Stray(l) ==
    /\ pc # "down" /\ Len(net) < SockCap /\ sent < conf.sends
    /\ sent' = sent + 1
    /\ net' = Append(net, [num |-> sent + 1, level |-> l, dropped |-> 0])
    /\ UNCHANGED <<thread, holder, fd, glb_dropped, glb_unreported>>

Sender(t) == \/ log_vsend(t, "info", "idle") \/ log_vsend(t, "debug", "idle")
             \/ attempts(t) \/ log_close(t) \/ sender_disconnect_socket(t)

Senders == /\ (\E t \in Threads : Sender(t)) \/ Stray("alien") \/ Stray("runt")
           /\ UNCHANGED <<qvars, pc, start, sig_stop, sig_reopen, level, dvars>>

-----------------------------------------------------------------------------
(* The daemon. *)

nothing_mirrored == UNCHANGED <<next_id, items, stopping, dead, dropped, errors, worker, table,
                                handed, done>>

(* mirror_log_to_db: the id is used up whatever the queue says. *)
mirror_log_to_db ==
    IF worker.pc = "gone" THEN nothing_mirrored
    ELSE next_id' = next_id + 1 /\ db_submit(next_id)

(* emit: the file, then the mirror. *)
emit == mirror_log_to_db /\ UNCHANGED faults
emit_fails == faults < conf.faults /\ faults' = faults + 1 /\ nothing_mirrored

(* emit_self where its result is not looked at. *)
emit_self == emit \/ emit_fails

(* One more than the answer to select max(id); 1 if it has no row. *)
db_seed_id(rows) ==
    IF rows = <<>> THEN 1
    ELSE 1 + CHOOSE m \in {rows[i] : i \in 1..Len(rows)} : \A i \in 1..Len(rows) : rows[i] <= m

(* Without a database the mirror is off.  A probe the child rejects is taken
   for an empty table. *)
open_db ==
    \/ ~conf.db /\ NoQueue /\ next_id' = 1 /\ UNCHANGED <<faults, misled>>
    \/ conf.db /\ db_start /\ next_id' = db_seed_id(table) /\ UNCHANGED <<faults, misled>>
    \/ /\ conf.db /\ faults < conf.faults /\ faults' = faults + 1 /\ next_id' = 1
       /\ \/ NoQueue /\ UNCHANGED misled
          \/ db_start /\ misled' = TRUE

(* logd_run up to its banner: a socket left at the path is replaced. *)
logd_run ==
    /\ pc = "down" /\ start < conf.starts
    /\ start' = start + 1 /\ pc' = "banner"
    /\ open_db
    /\ past' = past + stats.dropped /\ stats' = Zero
    /\ window' = [open |-> <<Zero, 0, 0>>, ended |-> 0]
    /\ sig_stop' = FALSE /\ sig_reopen' = FALSE /\ broken' = FALSE
    /\ waiting' = {} /\ drained' = 0
    /\ UNCHANGED <<table, net, level, lost, refused>>

db_snapshot == <<stats, dropped, errors>>

(* The banner, and the first window. *)
greet ==
    /\ pc = "banner" /\ pc' = "head"
    /\ emit_self
    /\ window' = [window EXCEPT !.open = <<stats, dropped', errors>>]
    /\ UNCHANGED <<start, sig_stop, sig_reopen, level, net, stats, drained, waiting, past,
                   lost, refused, broken, misled>>

(* The loop's test and the reopening, which keeps the old file on a failure. *)
loop_head ==
    /\ pc = "head"
    /\ \/ /\ sig_stop /\ pc' = "drain"
          /\ waiting' = {net[i].num : i \in 1..Len(net)}
          /\ UNCHANGED <<sig_reopen, next_id, qvars>>
       \/ /\ ~sig_stop /\ pc' = "serve" /\ sig_reopen' = FALSE
          /\ IF sig_reopen THEN emit_self ELSE UNCHANGED <<next_id, qvars>>
          /\ UNCHANGED waiting
    /\ UNCHANGED <<start, sig_stop, level, net, stats, window, drained, past, lost,
                   refused, broken, misled>>

Filtered(l) == l = "debug" /\ level = "info"

(* serve_one on the datagram at the head of the buffer. *)
served(m) ==
    LET believed == IF m.level = "runt" \/ m.dropped > DropClaimMax THEN 0 ELSE m.dropped
    IN /\ net' = Tail(net)
       /\ stats' = [seen |-> stats.seen + 1, dropped |-> stats.dropped + believed]
       /\ refused' = refused + m.dropped - believed
       /\ \/ /\ m.level = "runt" \/ Filtered(m.level)
             /\ waiting' = waiting \ {m.num} /\ UNCHANGED <<broken, next_id, qvars>>
          \/ /\ m.level # "runt" /\ ~Filtered(m.level)
             /\ \/ emit /\ waiting' = waiting \ {m.num} /\ UNCHANGED broken
                \/ emit_fails /\ broken' = TRUE /\ UNCHANGED waiting

(* One datagram; or none within the tick, or a signal. *)
serve_one ==
    /\ pc = "serve"
    /\ \/ net # <<>> /\ served(Head(net)) /\ pc' = (IF broken' THEN "out" ELSE "summary")
       \/ /\ net = <<>> /\ pc' = "summary"
          /\ UNCHANGED <<net, refused, stats, waiting, broken, next_id, qvars>>
    /\ UNCHANGED <<start, sig_stop, sig_reopen, level, window, drained, past, lost, misled>>

(* Before the window's end, or at it: one line if any count moved. *)
summarise ==
    /\ pc = "summary"
    /\ \/ pc' = "head" /\ UNCHANGED <<window, broken, next_id, qvars>>
       \/ /\ window.ended < conf.windows
          /\ window' = [open |-> db_snapshot, ended |-> window.ended + 1]
          /\ \/ /\ db_snapshot = window.open /\ pc' = "head"
                /\ UNCHANGED <<broken, next_id, qvars>>
             \/ /\ db_snapshot # window.open
                /\ \/ emit /\ pc' = "head" /\ UNCHANGED broken
                   \/ emit_fails /\ pc' = "out" /\ broken' = TRUE
    /\ UNCHANGED <<start, sig_stop, sig_reopen, level, net, stats, drained, waiting, past,
                   lost, refused, misled>>

(* The drain goes on until nothing is left, the file breaks or DrainMax. *)
drained_onward == IF broken' \/ drained' = DrainMax THEN "out" ELSE "drain"

drain ==
    /\ pc = "drain"
    /\ \/ net # <<>> /\ served(Head(net)) /\ drained' = drained + 1 /\ pc' = drained_onward
       \/ /\ net = <<>> /\ pc' = "out"
          /\ UNCHANGED <<net, refused, stats, waiting, broken, next_id, qvars, drained>>
    /\ UNCHANGED <<start, sig_stop, sig_reopen, level, window, past, lost, misled>>

(* The closing banner. *)
farewell ==
    /\ pc = "out" /\ pc' = "stop"
    /\ emit_self
    /\ UNCHANGED <<start, sig_stop, sig_reopen, level, net, stats, window, drained, waiting,
                   past, lost, refused, broken, misled>>

ask ==
    /\ pc = "stop" /\ pc' = "join"
    /\ AskStop
    /\ UNCHANGED <<start, sig_stop, sig_reopen, level, net, dvars>>

Claims(q) == LET sum[i \in 0..Len(q)] == IF i = 0 THEN 0 ELSE sum[i - 1] + q[i].dropped IN sum[Len(q)]

(* The worker is joined, the socket closed and removed. *)
leave ==
    /\ pc = "join" /\ pc' = "down"
    /\ Joined
    /\ net' = <<>> /\ lost' = lost + Claims(net)
    /\ UNCHANGED <<start, sig_stop, sig_reopen, level, stats, window, next_id, drained, waiting,
                   past, refused, broken, misled>>

Loop == greet \/ loop_head \/ serve_one \/ summarise \/ drain \/ farewell \/ ask \/ leave

(* SIGTERM and SIGINT. *)
on_terminate ==
    /\ pc # "down" /\ ~sig_stop /\ sig_stop' = TRUE
    /\ UNCHANGED <<qvars, pc, start, sig_reopen, level, net, dvars>>

(* SIGHUP, after the operator lowered log_level: the handler itself reads the
   configuration again. *)
on_hangup ==
    /\ conf.hangups > 0
    /\ pc # "down" /\ level = "info" /\ level' = "debug" /\ sig_reopen' = TRUE
    /\ UNCHANGED <<qvars, pc, start, sig_stop, net, dvars>>

Daemon == (logd_run \/ Loop \/ on_terminate \/ on_hangup) /\ UNCHANGED svars

Worker == worker_main /\ UNCHANGED <<svars, net, pc, start, sig_stop, sig_reopen, level, dvars>>

Next == (Senders \/ Daemon \/ Worker) /\ UNCHANGED conf

Spec == Init /\ [][Next]_vars

(* The daemon's own thread and its worker run when they can. *)
FairSpec == Spec /\ WF_vars(Loop /\ UNCHANGED <<svars, conf>>) /\ WF_vars(Worker /\ UNCHANGED conf)
=============================================================================
