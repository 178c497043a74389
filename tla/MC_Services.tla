---------------------------- MODULE MC_Services ----------------------------
(***************************************************************************)
(* What serves every session, for TLC, one run for two modules: a          *)
(* behaviour picks a part, and the variables of the other part keep their  *)
(* initial values.                                                         *)
(*   "login"  two workers whose clients register and log in under one      *)
(*            folded name;                                                 *)
(*   "logd"   the log daemon without a mirror and much traffic, with       *)
(*            signals and some traffic, and with a mirror that fails.      *)
(***************************************************************************)
EXTENDS AccountsProps

CONSTANTS w1, w2
CONSTANTS QueueCap, RespawnMax, MaxFailures, Threads, SockCap, MaxAttempts, DropClaimMax, DrainMax

VARIABLE part
VARIABLES items, stopping, dead, dropped, errors, l_worker, table, handed, done, l_faults,
          conf, thread, holder, fd, glb_dropped, glb_unreported, sent, net, pc, start, stats,
          window, sig_stop, sig_reopen, level, next_id, drained, waiting, past, lost, refused,
          broken, misled

Ask(m, u, p) == [method |-> m, user |-> u, pass |-> p]
Zoe == [id |-> 4, name |-> "zoe", salt |-> None, digest |-> <<"pw3", None>>, by |-> None]
FewAsks == {Ask("REGISTER", "Ann", "pw1"), Ask("REGISTER", "bob", "pw1"),
            Ask("LOGIN", "ann", "pw2"), Ask("LOGIN", "ann", "pw1"), Ask("REGISTER", "a b", "pw1"),
            Ask("REGISTER", "ann", "short"), Ask("broken", "", ""), Ask("GUEST", "", ""),
            Ask("other", "", "")}

Conf(mirror, sends, starts, windows, hangups, errs) ==
    [db |-> mirror, sends |-> sends, starts |-> starts, windows |-> windows, hangups |-> hangups,
     faults |-> errs]
LogConfs == {Conf(FALSE, 3, 1, 0, 0, 0), Conf(FALSE, 2, 2, 0, 0, 1), Conf(FALSE, 2, 1, 0, 1, 1),
             Conf(FALSE, 1, 1, 1, 1, 1), Conf(TRUE, 0, 2, 1, 0, 2), Conf(TRUE, 0, 2, 0, 1, 2)}

Log == INSTANCE LogdProps WITH
        Confs <- LogConfs, MaxFaults <- MaxFailures, worker <- l_worker, faults <- l_faults

svars == <<thread, holder, fd, glb_dropped, glb_unreported, sent>>
lvars == <<items, stopping, dead, dropped, errors, l_worker, table, handed, done, l_faults, conf,
           svars, net, pc, start, stats, window, sig_stop, sig_reopen, level, next_id, drained,
           waiting, past, lost, refused, broken, misled>>
mcvars == <<part, vars, lvars>>

InLogin == part = "login" /\ UNCHANGED <<part, lvars>>
InLogd == part = "logd" /\ UNCHANGED <<part, vars>>

MCInit ==
    /\ part \in {"login", "logd"}
    /\ Init /\ Log!Init
    /\ part = "login" => conf = Conf(TRUE, 0, 2, 0, 1, 2)
    /\ part = "logd" => pages = << {} >>

\* Two faults on a table that was empty, one where an account was there before.
MCNext ==
    \/ InLogin /\ Next /\ (faults' < 2 \/ Zoe \notin Rows)
    \/ InLogd /\ Log!Next

\* The fairness of each module, for its own part.
MCFairness ==
    /\ \A w \in {w1, w2} :
         WF_mcvars(InLogin /\ (\/ reg_acquire(w) \/ conn_open(w) \/ Send(w)
                               \/ Answered(w) \/ auth_retry_handler(w)))
    /\ \A k \in 1..2 : WF_mcvars(InLogin /\ Serve(k))
    /\ WF_mcvars(InLogd /\ Log!Loop /\ UNCHANGED <<svars, conf>>)
    /\ WF_mcvars(InLogd /\ Log!Worker /\ UNCHANGED conf)

MCSpec == MCInit /\ [][MCNext]_mcvars /\ MCFairness

-----------------------------------------------------------------------------
(* What AccountsProps does not say itself; LogdProps says what they mean. *)

\* No log record vanishes uncounted (logmsg.c, queue.c, logger.c).
RecordsAccounted == Log!RecordsAccounted

\* A log daemon told to stop ends, and a worker that has taken a request answers it
\* unless it is killed (db_stop, account_register).
ServicesEnd == Log!StopEnds /\ EveryRequestAnswered
=============================================================================
