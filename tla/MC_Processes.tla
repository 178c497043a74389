---------------------------- MODULE MC_Processes ----------------------------
(***************************************************************************)
(* Processes and threads for TLC, one run for three modules: a behaviour   *)
(* picks a part, and the variables of the other parts keep their initial   *)
(* values.                                                                 *)
(*   "runner"   two starts of tetrisdb, a stop and ballotd's provisioning; *)
(*   "session"  the handshake and frames of at most 96 bytes: payloads of  *)
(*              47 bytes fit, 48 do not;                                   *)
(*   "locks"    two transactions of three requests on two pages.           *)
(***************************************************************************)
EXTENDS RunnerProps

VARIABLE part
VARIABLES s_at, s_key, s_recv_dead, s_astray, s_chan, s_sent, s_got, s_lost, s_files,
          s_faults
VARIABLES l_holders, l_exclusive, l_waitingFor, l_status, l_want, l_probed, l_used,
          l_requests, l_stopping

\* Of the kinds "start", "stop" and "ballotd".
Invocations == {"start1", "start2", "stop", "ballotd"}
Kinds == [c \in Invocations |-> IF c \in {"start1", "start2"} THEN "start" ELSE c]

Session == INSTANCE SessionProps WITH
        None <- "none", MaxFrame <- 96, Sizes <- {0, 47, 48, 97}, Caps <- {20, 96},
        MaxSends <- 2, MaxFaults <- 2, at <- s_at, key <- s_key,
        recv_dead <- s_recv_dead, astray <- s_astray, chan <- s_chan, sent <- s_sent, got <- s_got,
        lost <- s_lost, files <- s_files, faults <- s_faults

Locks == INSTANCE LockManagerProps WITH
        Txns <- {"t1", "t2"}, Pages <- {"p1", "p2"}, NoPage <- "none",
        MaxRequests <- [t1 |-> 3, t2 |-> 3], holders <- l_holders,
        exclusive <- l_exclusive, waitingFor <- l_waitingFor, status <- l_status,
        want <- l_want, probed <- l_probed, used <- l_used, requests <- l_requests,
        stopping <- l_stopping

svars == <<s_at, s_key, s_recv_dead, s_astray, s_chan, s_sent, s_got, s_lost, s_files,
           s_faults>>
lvars == <<l_holders, l_exclusive, l_waitingFor, l_status, l_want, l_probed, l_used,
           l_requests, l_stopping>>
mcvars == <<part, vars, svars, lvars>>

InRunner == part = "runner" /\ UNCHANGED <<part, svars, lvars>>
InSession == part = "session" /\ UNCHANGED <<part, vars, lvars>>
InLocks == part = "locks" /\ UNCHANGED <<part, vars, svars>>

MCInit ==
    /\ part \in {"runner", "session", "locks"}
    /\ Init /\ Session!Init /\ Locks!Init
    /\ part = "session" \/ (s_files.vouched /\ s_files.cert = s_files.priv)

MCNext ==
    \/ InRunner /\ Next
    \/ InSession /\ Session!Next
    \/ InLocks /\ Locks!Next

\* The fairness of each module, for its own part.
MCFairness ==
    /\ \A s \in {"client", "server"} : WF_mcvars(InSession /\ Session!Handshake(s))
    /\ \A c \in Invocations : WF_mcvars(InRunner /\ pc[c] # "begin" /\ Cmd(c))
    /\ \A t \in {"t1", "t2"} : /\ WF_mcvars(InLocks /\ Locks!Acquire(t))
                               /\ WF_mcvars(InLocks /\ Locks!releaseAll(t))

MCSpec == MCInit /\ [][MCNext]_mcvars /\ MCFairness

-----------------------------------------------------------------------------
(* The properties of the other parts; their modules say what they mean. *)

\* Both ends of a session agree on its key, and frames are handed out in order, each
\* once (session_connect, session_accept, session_send, session_recv).
ChannelSound == Session!ChannelSound

\* What waits comes to an end: every command of tetrisdb, both sides of a handshake
\* (unless a changed length has one of them read for more than a peer that stays will
\* write), and every acquire of a lock (db_runner_wait, session_connect,
\* LockManager.acquire).
WaitsEnd ==
    /\ CommandsEnd
    /\ part = "session" => Session!HandshakeEnds
    /\ Locks!EveryAcquireEnds
=============================================================================
