------------------------------ MODULE Ballotd ------------------------------
(***************************************************************************)
(* The daemon ballotd (main.c, control_plane.c, dispatch.c) with its       *)
(* ballot_session workers (session.c): three threads joined by pipes, one  *)
(* child process for each voter connection, and the order in which all of  *)
(* it is shut down.  A fork copies every descriptor the daemon has open,   *)
(* so a worker holds the daemon's ends of the older workers' socket pairs  *)
(* and of the control connections of that moment.                          *)
(***************************************************************************)
EXTENDS Naturals, Sequences, Functions, FiniteSets

CONSTANTS Voters,       \* voter connections; also the accounts they log in to
          Operators,    \* connections to the control socket
          None,
          MAX_WORKERS,  \* slots of the worker table
          Tried,        \* the operations the clients try
          Claims,       \* the names a voter may put into a request
          MaxRequests,  \* requests on each voter connection
          MaxClients,   \* clients that come
          MaxFaults     \* system calls that fail

ASSUME BallotdAssumption ==
    /\ MAX_WORKERS \in Nat
    /\ None \notin Voters
    /\ "ballotd" \notin Voters /\ "notify" \notin Voters /\ "ctl" \notin Voters

VoterOps == {"JOIN", "CAST", "UPDATE", "RESULTS", "CHECK"}
CtlOps == {"CREATE", "OPEN", "CLOSE", "PUBLISH", "ADMIN_RESULTS", "ADMIN_CHECK",
           "ADMIN_NEXT_ID"}

VARIABLES quit,         \* a byte is in g_quit: polled, never read
          adminQuit,    \* a byte is in g_admin_quit
          main,         \* the join main() is at
          listener,     \* listener_thread
          fresh,        \* the worker it has forked and not announced yet
          notify,       \* g_notify
          ctl,          \* ctl_thread
          ctlNotify,    \* g_ctl_notify
          admin,        \* admin_thread
          ready,        \* the revents of its last poll
          table,        \* g_fds and g_pids past the fixed ones
          worker,       \* the ballot_session process of a connection
          hold,         \* the processes that hold the daemon's end of its pair
          link,         \* the message in the socket pair
          dropped,      \* workers that found the table full
          client,       \* the voter's end of the connection
          asked,        \* the request the voter waits for
          sent,         \* requests the voter has sent
          conn,         \* a control connection
          copies,       \* workers that hold a copy of its descriptor
          reply,        \* what the operator was sent
          faults

pipes == <<quit, adminQuit, notify, ctlNotify>>
adm == <<admin, ready, table>>
wrk == <<worker, hold, link, dropped>>
cli == <<client, asked, sent>>
ctls == <<conn, copies, reply>>
vars == <<pipes, main, listener, fresh, ctl, adm, wrk, cli, ctls, faults>>

Daemon == "ballotd"
NoMsg == [kind |-> "none"]
Alive(v) == worker[v] \in {"login", "serving", "waiting"}
Fault == faults < MaxFaults /\ faults' = faults + 1

\* Process v is gone: so are its copies of other descriptors.
Release(v) ==
    /\ hold' = [u \in Voters |-> hold[u] \ {v}]
    /\ copies' = [o \in Operators |-> copies[o] \ {v}]

----------------------------------------------------------------------------
\* The one call ballotd_dispatch makes for an operation.
Route(op) ==
    CASE op = "CREATE" -> "bb_create_election"
      [] op = "ADMIN_NEXT_ID" -> "bb_alloc_id"
      [] op \in {"OPEN", "CLOSE"} -> "bb_transition_state"
      [] op = "PUBLISH" -> "bb_publish_results"
      [] op = "JOIN" -> "bb_join"
      [] op \in {"CAST", "UPDATE"} -> "bb_record_ballot"
      [] op = "RESULTS" -> "bb_get_results"
      [] op = "ADMIN_RESULTS" -> "bb_get_results_admin"
      [] op \in {"CHECK", "ADMIN_CHECK"} -> "bb_lookup_hash"

\* The results of a call that matter here: every one has a name on the wire but
\* BB_ERR_RETRY, which bb_record_ballot returns when its attempts are used up.
Results(call) == IF call = "bb_record_ballot" THEN {"named", "BB_ERR_RETRY"} ELSE {"named"}

\* Its replies, with the call and the name it was made under.
ballotd_dispatch(req) ==
    [kind : {"resp"}, call : {Route(req.op)}, cert : {req.cert}, status : Results(Route(req.op))]

\* bcl_encode_response.
Encodes(resp) == resp.status = "named"

----------------------------------------------------------------------------
Init ==
    /\ quit = FALSE /\ adminQuit = FALSE /\ notify = <<>> /\ ctlNotify = <<>>
    /\ main = "join listener"
    /\ listener = "binding" /\ fresh = None
    /\ ctl = "accepting"
    /\ admin = "poll" /\ ready = {} /\ table = <<>>
    /\ worker = [v \in Voters |-> "none"]
    /\ hold = [v \in Voters |-> {}]
    /\ link = [v \in Voters |-> NoMsg]
    /\ dropped = {}
    /\ client \in [Voters -> {"out", "connecting"}]
    /\ asked = [v \in Voters |-> NoMsg]
    /\ sent = [v \in Voters |-> 0]
    /\ conn \in [Operators -> {"out", "connecting"}]
    /\ Cardinality({v \in Voters : client[v] # "out"})
       + Cardinality({o \in Operators : conn[o] # "out"}) <= MaxClients
    /\ copies = [o \in Operators |-> {}]
    /\ reply = [o \in Operators |-> NoMsg]
    /\ faults = 0

\* on_terminate: SIGTERM or SIGINT arrives.
on_terminate ==
    /\ main # "exited"
    /\ quit' = TRUE
    /\ UNCHANGED <<adminQuit, notify, ctlNotify, main, listener, fresh, ctl, adm,
                   wrk, cli, ctls, faults>>

----------------------------------------------------------------------------
(* listener_thread *)

\* make_listen_socket; a failure is request_stop.
ListenerBind ==
    /\ listener = "binding"
    /\ \/ listener' = "accepting" /\ UNCHANGED <<quit, faults>>
       \/ Fault /\ listener' = "exited" /\ quit' = TRUE
    /\ UNCHANGED <<adminQuit, notify, ctlNotify, main, fresh, ctl, adm, wrk, cli,
                   ctls>>

\* Connections not accepted yet are reset with the listening socket.
CloseListening ==
    /\ listener' = "exited"
    /\ client' = [v \in Voters |-> IF client[v] = "connecting" THEN "closed"
                                   ELSE client[v]]

ListenerQuit ==
    /\ listener = "accepting" /\ fresh = None /\ quit
    /\ CloseListening
    /\ UNCHANGED <<pipes, main, fresh, ctl, adm, wrk, asked, sent, ctls, faults>>

\* poll or accept fails: the thread ends and asks nobody to stop.
ListenerFails ==
    /\ listener = "accepting" /\ fresh = None /\ ~quit
    /\ Fault
    /\ CloseListening
    /\ UNCHANGED <<pipes, main, fresh, ctl, adm, wrk, asked, sent, ctls>>

\* accept, socketpair and fork.
ListenerForks(v) ==
    /\ listener = "accepting" /\ fresh = None /\ ~quit
    /\ client[v] = "connecting"
    /\ client' = [client EXCEPT ![v] = "on"]
    /\ fresh' = v
    /\ worker' = [worker EXCEPT ![v] = "login"]
    /\ hold' = [u \in Voters |-> IF u = v THEN {Daemon}
                                 ELSE IF Daemon \in hold[u] THEN hold[u] \cup {v}
                                 ELSE hold[u]]
    /\ copies' = [o \in Operators |-> IF conn[o] \in {"reading", "queued"}
                                      THEN copies[o] \cup {v} ELSE copies[o]]
    /\ UNCHANGED <<pipes, main, listener, ctl, adm, link, dropped, asked, sent,
                   conn, reply, faults>>

\* socketpair or fork fails: this client is closed, the next one is awaited.
ListenerSheds(v) ==
    /\ listener = "accepting" /\ fresh = None /\ ~quit
    /\ client[v] = "connecting"
    /\ Fault
    /\ client' = [client EXCEPT ![v] = "closed"]
    /\ UNCHANGED <<pipes, main, listener, fresh, ctl, adm, wrk, asked, sent, ctls>>

ListenerAnnounces ==
    /\ fresh # None
    /\ notify' = Append(notify, fresh)
    /\ fresh' = None
    /\ UNCHANGED <<quit, adminQuit, ctlNotify, main, listener, ctl, adm, wrk, cli,
                   ctls, faults>>

listener_thread ==
    \/ ListenerBind \/ ListenerQuit \/ ListenerFails \/ ListenerAnnounces
    \/ \E v \in Voters : ListenerForks(v) \/ ListenerSheds(v)

----------------------------------------------------------------------------
(* ctl_thread *)

Reading(o) == ctl = "accepting" /\ conn[o] = "reading"
CtlIdle == ctl = "accepting" /\ \A o \in Operators : conn[o] # "reading"

\* Mutant: the connections in the queue are looked at before the quit pipe.
CtlQuitLast ==
    /\ CtlIdle /\ quit /\ \A o \in Operators : conn[o] # "connecting"
    /\ ctl' = "exited"
    /\ UNCHANGED <<pipes, main, listener, fresh, adm, wrk, cli, ctls, faults>>

\* Asked to stop, or poll or accept fails and the thread takes the daemon down.
CtlQuit ==
    /\ CtlIdle
    /\ \/ quit /\ UNCHANGED <<quit, faults>>
       \/ ~quit /\ Fault /\ quit' = TRUE
    /\ ctl' = "exited"
    /\ conn' = [o \in Operators |-> IF conn[o] = "connecting" THEN "closed" ELSE conn[o]]
    /\ UNCHANGED <<adminQuit, notify, ctlNotify, main, listener, fresh, adm, wrk, cli,
                   copies, reply>>

CtlAccept(o) ==
    /\ CtlIdle /\ ~quit /\ conn[o] = "connecting"
    /\ conn' = [conn EXCEPT ![o] = "reading"]
    /\ UNCHANGED <<pipes, main, listener, fresh, ctl, adm, wrk, cli, copies, reply, faults>>

\* handle_conn: the frame never comes in the time allowed, or is refused, or is
\* passed on with the descriptor.
handle_conn(o) ==
    /\ Reading(o)
    /\ \/ \* truncated, oversized, quiet for CTL_IO_TIMEOUT_MS, or hung up
          /\ conn' = [conn EXCEPT ![o] = "given up"] /\ UNCHANGED ctlNotify
       \/ \E op \in Tried \ CtlOps :
             /\ conn' = [conn EXCEPT ![o] = "refused"] /\ UNCHANGED ctlNotify
       \/ \E op \in Tried \cap CtlOps :
             /\ conn' = [conn EXCEPT ![o] = "queued"]
             /\ ctlNotify' = Append(ctlNotify, [fd |-> o, req |-> [op |-> op, cert |-> None]])
    /\ UNCHANGED <<quit, adminQuit, notify, main, listener, fresh, ctl, adm, wrk, cli,
                   copies, reply, faults>>

ctl_thread ==
    \/ CtlQuit
    \/ \E o \in Operators : CtlAccept(o) \/ handle_conn(o)

----------------------------------------------------------------------------
(* admin_thread *)

\* Readable: a request, or the end of the stream of a worker that has exited.
Pending(v) == link[v].kind = "req" \/ worker[v] = "zombie"

Sources ==
    (IF notify = <<>> THEN {} ELSE {"notify"})
    \cup (IF ctlNotify = <<>> THEN {} ELSE {"ctl"})
    \cup {v \in Range(table) : Pending(v)}

\* poll returns; the quit pipe is looked at before anything else.
AdminPoll ==
    /\ admin = "poll" /\ ready = {}
    /\ \/ adminQuit /\ admin' = "teardown" /\ UNCHANGED ready
       \/ ~adminQuit /\ Sources # {} /\ ready' = Sources /\ UNCHANGED admin
    /\ UNCHANGED <<pipes, main, listener, fresh, ctl, table, wrk, cli, ctls, faults>>

\* Mutant: one more than the arrays hold.
RoomForOneMore == MAX_WORKERS + 1 - Len(table)

Room == MAX_WORKERS - Len(table)

\* The drain of g_notify: as many as the table has room for, the others closed.
AdminRegisters ==
    /\ "notify" \in ready
    /\ LET n == IF Room < Len(notify) THEN Room ELSE Len(notify)
           shut == Range(SubSeq(notify, n + 1, Len(notify))) IN
       /\ table' = table \o SubSeq(notify, 1, n)
       /\ hold' = [v \in Voters |-> hold[v] \ (IF v \in shut THEN {Daemon} ELSE {})]
       /\ dropped' = dropped \cup shut
    /\ notify' = <<>>
    /\ ready' = ready \ {"notify"}
    /\ UNCHANGED <<quit, adminQuit, ctlNotify, main, listener, fresh, ctl, admin, worker,
                   link, cli, ctls, faults>>

\* handle_ctl_req for the head of g_ctl_notify: dispatched, answered and closed.
handle_ctl_req ==
    /\ "notify" \notin ready /\ "ctl" \in ready
    /\ LET cr == Head(ctlNotify) IN
       /\ \E resp \in ballotd_dispatch(cr.req) :
             /\ conn' = [conn EXCEPT ![cr.fd] = IF Encodes(resp) THEN "answered" ELSE "closed"]
             /\ reply' = [reply EXCEPT ![cr.fd] = IF Encodes(resp) THEN resp ELSE NoMsg]
       /\ copies' = [copies EXCEPT ![cr.fd] = {}]
    /\ ctlNotify' = Tail(ctlNotify)
    /\ ready' = IF Len(ctlNotify) = 1 THEN ready \ {"ctl"} ELSE ready
    /\ UNCHANGED <<quit, adminQuit, notify, main, listener, fresh, ctl, admin, table, wrk,
                   cli, faults>>

\* The last slot moves into the dropped one, which is then looked at again.
drop_worker(i) == SubSeq([table EXCEPT ![i] = table[Len(table)]], 1, Len(table) - 1)

\* The scan's next slot with revents: a request is answered in the pair it came
\* from, a worker that has exited is reaped and its slot dropped.
AdminServes ==
    /\ ready # {} /\ ready \cap {"notify", "ctl"} = {}
    /\ \E i \in DOMAIN table : LET v == table[i] IN
       /\ v \in ready /\ \A j \in 1..i - 1 : table[j] \notin ready
       /\ ready' = ready \ {v}
       /\ \/ /\ link[v].kind = "req"
             /\ \E resp \in ballotd_dispatch(link[v].req) : link' = [link EXCEPT ![v] = resp]
             /\ UNCHANGED <<table, worker, hold>>
          \/ /\ link[v].kind # "req"
             /\ table' = drop_worker(i)
             /\ worker' = [worker EXCEPT ![v] = "reaped"]
             /\ hold' = [hold EXCEPT ![v] = {}]
             /\ UNCHANGED link
    /\ UNCHANGED <<pipes, main, listener, fresh, ctl, admin, dropped, cli, ctls, faults>>

TearingDown == admin \in {"teardown", "failed"}

\* close, SIGTERM and reap_bounded, which ends in SIGKILL, for one worker.
Terminate(v) ==
    /\ worker' = [worker EXCEPT ![v] = "reaped"]
    /\ hold' = [u \in Voters |-> IF u = v THEN {} ELSE hold[u] \ {v}]
    /\ copies' = [o \in Operators |-> copies[o] \ {v}]
    /\ link' = [link EXCEPT ![v] = NoMsg]
    /\ asked' = [asked EXCEPT ![v] = NoMsg]
    /\ client' = [client EXCEPT ![v] = "closed"]

\* admin_teardown: the announced workers, the queued control connections, the
\* registered workers.
TeardownNew ==
    /\ TearingDown /\ notify # <<>>
    /\ Terminate(Head(notify))
    /\ notify' = Tail(notify)
    /\ UNCHANGED <<quit, adminQuit, ctlNotify, main, listener, fresh, ctl, adm, dropped,
                   sent, conn, reply, faults>>

\* Mutant: the queued requests are read and forgotten.
TeardownCtlForgets ==
    /\ TearingDown /\ notify = <<>> /\ ctlNotify # <<>>
    /\ ctlNotify' = Tail(ctlNotify)
    /\ UNCHANGED <<quit, adminQuit, notify, main, listener, fresh, ctl, adm, wrk, cli,
                   ctls, faults>>

TeardownCtl ==
    /\ TearingDown /\ notify = <<>> /\ ctlNotify # <<>>
    /\ conn' = [conn EXCEPT ![Head(ctlNotify).fd] = "closed"]
    /\ ctlNotify' = Tail(ctlNotify)
    /\ UNCHANGED <<quit, adminQuit, notify, main, listener, fresh, ctl, adm, wrk, cli,
                   copies, reply, faults>>

TeardownTable ==
    /\ TearingDown /\ notify = <<>> /\ ctlNotify = <<>>
    /\ IF table = <<>>
       THEN /\ admin' = IF admin = "teardown" THEN "exited" ELSE "gone"
            /\ UNCHANGED <<table, worker, hold, link, asked, client, copies>>
       ELSE /\ Terminate(table[Len(table)])
            /\ table' = SubSeq(table, 1, Len(table) - 1)
            /\ UNCHANGED admin
    /\ UNCHANGED <<pipes, main, listener, fresh, ctl, ready, dropped, sent,
                   conn, reply, faults>>

\* poll fails: torn down at once, whatever the other threads are doing.
AdminFails ==
    /\ admin = "poll" /\ ready = {} /\ Fault
    /\ admin' = "failed"
    /\ UNCHANGED <<pipes, main, listener, fresh, ctl, ready, table, wrk, cli, ctls>>

admin_thread ==
    \/ AdminPoll \/ AdminRegisters \/ handle_ctl_req \/ AdminServes
    \/ TeardownNew \/ TeardownCtl \/ TeardownTable \/ AdminFails

----------------------------------------------------------------------------
(* main, past pthread_create *)

\* Both accepting threads are joined before the admin thread is told.
MainJoins ==
    /\ \/ main = "join listener" /\ listener = "exited" /\ main' = "join ctl" /\ UNCHANGED adminQuit
       \/ main = "join ctl" /\ ctl = "exited" /\ main' = "join admin" /\ adminQuit' = TRUE
       \/ main = "join admin" /\ admin \in {"exited", "gone"} /\ main' = "exited" /\ UNCHANGED adminQuit
    /\ UNCHANGED <<quit, notify, ctlNotify, listener, fresh, ctl, adm, wrk, cli, ctls,
                   faults>>

----------------------------------------------------------------------------
(* a ballot_session process *)

Exit(v) ==
    /\ worker' = [worker EXCEPT ![v] = "zombie"]
    /\ Release(v)
    /\ client' = [client EXCEPT ![v] = "closed"]
    /\ UNCHANGED <<link, dropped>>

\* session_main up to auth_retry_handler.
SessionLogin(v) ==
    /\ worker[v] = "login"
    /\ \/ /\ client[v] = "on" /\ worker' = [worker EXCEPT ![v] = "serving"]
          /\ UNCHANGED <<hold, link, dropped, client, copies>>
       \/ Exit(v)
    /\ UNCHANGED <<pipes, main, listener, fresh, ctl, adm, asked, sent, conn, reply, faults>>

\* Mutant: the name in the request is kept when there is one.
AsAuthenticatedMaybe(v, req) == req

\* The request as it is passed on, under the name the connection logged in with.
AsAuthenticated(v, req) == [op |-> req.op, cert |-> v]

Answer(v) == client' = [client EXCEPT ![v] = IF @ = "asking" THEN "on" ELSE @]

\* handle_request up to the admin channel.  When nobody holds the other end of
\* the pair the write fails, and the worker goes back to its loop.
handle_request(v) ==
    /\ worker[v] = "serving" /\ asked[v].kind = "req"
    /\ asked' = [asked EXCEPT ![v] = NoMsg]
    /\ \/ /\ asked[v].req.op \notin VoterOps
          /\ Answer(v)
          /\ UNCHANGED <<worker, link>>
       \/ /\ asked[v].req.op \in VoterOps /\ hold[v] # {}
          /\ link' = [link EXCEPT ![v] = [kind |-> "req", req |-> AsAuthenticated(v, asked[v].req)]]
          /\ worker' = [worker EXCEPT ![v] = "waiting"]
          /\ UNCHANGED client
       \/ /\ asked[v].req.op \in VoterOps /\ hold[v] = {}
          /\ UNCHANGED <<worker, link, client>>
    /\ UNCHANGED <<pipes, main, listener, fresh, ctl, adm, hold, dropped, sent, ctls,
                   faults>>

\* The rest of it: the reply is passed on, or has no name on the wire and nothing
\* is sent to the client, which goes on waiting; or the stream has ended.
SessionReplies(v) ==
    /\ worker[v] = "waiting"
    /\ \/ link[v].kind = "resp" /\ Encodes(link[v]) /\ Answer(v)
       \/ /\ link[v].kind = "resp" /\ ~Encodes(link[v])
          /\ client' = [client EXCEPT ![v] = IF @ = "asking" THEN "unheard" ELSE @]
       \/ link[v].kind = "req" /\ hold[v] = {} /\ UNCHANGED client
    /\ link' = [link EXCEPT ![v] = NoMsg]
    /\ worker' = [worker EXCEPT ![v] = "serving"]
    /\ UNCHANGED <<pipes, main, listener, fresh, ctl, adm, hold, dropped, asked, sent,
                   ctls, faults>>

\* session_recv finds the client gone.
SessionEnds(v) ==
    /\ worker[v] = "serving" /\ client[v] = "closed" /\ asked[v].kind # "req"
    /\ Exit(v)
    /\ UNCHANGED <<pipes, main, listener, fresh, ctl, adm, asked, sent, conn, reply, faults>>

session_main(v) ==
    SessionLogin(v) \/ handle_request(v) \/ SessionReplies(v) \/ SessionEnds(v)

----------------------------------------------------------------------------
(* The other ends of the connections.  When a client connects is left to  *)
(* when it is accepted.                                                    *)

\* The voter may put any account's name into the request.
VoterAsks(v) ==
    /\ client[v] = "on" /\ worker[v] = "serving"
    /\ sent[v] < MaxRequests[v]
    /\ \E op \in Tried, name \in Claims :
          asked' = [asked EXCEPT ![v] = [kind |-> "req", req |-> [op |-> op, cert |-> name]]]
    /\ sent' = [sent EXCEPT ![v] = @ + 1]
    /\ client' = [client EXCEPT ![v] = "asking"]
    /\ UNCHANGED <<pipes, main, listener, fresh, ctl, adm, wrk, ctls, faults>>

VoterCloses(v) ==
    /\ client[v] \in {"connecting", "on", "asking", "unheard"}
    /\ client' = [client EXCEPT ![v] = "closed"]
    /\ UNCHANGED <<pipes, main, listener, fresh, ctl, adm, wrk, asked, sent, ctls, faults>>

Clients == \E v \in Voters : VoterAsks(v) \/ VoterCloses(v)

----------------------------------------------------------------------------
\* The daemon has gone and nothing of it is left to move.
Done == main = "exited" /\ UNCHANGED vars

Next ==
    \/ on_terminate \/ listener_thread \/ ctl_thread \/ admin_thread \/ MainJoins
    \/ \E v \in Voters : session_main(v)
    \/ Clients \/ Done

Spec == Init /\ [][Next]_vars

\* The threads and the workers run; the clients, the signal and the faults are
\* owed nothing.
ListenerRuns == ListenerQuit \/ ListenerAnnounces \/ (ListenerBind /\ UNCHANGED faults)
CtlRuns == (CtlQuit /\ UNCHANGED faults) \/ \E o \in Operators : CtlAccept(o) \/ handle_conn(o)
AdminRuns == admin_thread /\ UNCHANGED faults

FairSpec ==
    /\ Spec
    /\ WF_vars(ListenerRuns) /\ WF_vars(CtlRuns) /\ WF_vars(AdminRuns) /\ WF_vars(MainJoins)
    /\ \A v \in Voters : WF_vars(session_main(v))
============================================================================
