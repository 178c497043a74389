---------------------------- MODULE BallotdProps ----------------------------
(***************************************************************************)
(* What ballotd promises its clients and leaves behind.                    *)
(***************************************************************************)
EXTENDS Ballotd

VoterCalls == {"bb_join", "bb_record_ballot", "bb_get_results", "bb_lookup_hash"}
CtlCalls == {"bb_create_election", "bb_alloc_id", "bb_transition_state",
             "bb_publish_results", "bb_get_results_admin", "bb_lookup_hash"}

\* Every worker is accounted for (admin_thread, drop_worker, main).  The worker
\* table never outgrows its array, no worker is in it twice, and the daemon holds
\* its end of exactly the pairs of the workers it has yet to announce, to register
\* or to drop.  When main returns, nothing was announced or passed on underneath
\* the admin thread, and every worker has been reaped except those the table had no
\* room for.
WorkersAccounted ==
    /\ Len(table) <= MAX_WORKERS
    /\ IsInjective(table \o notify)
    /\ \A v \in Voters :
          Daemon \in hold[v] <=> v \in {fresh} \cup Range(notify) \cup Range(table)
    /\ main = "exited" /\ admin = "exited" =>
          /\ fresh = None /\ notify = <<>> /\ ctlNotify = <<>> /\ table = <<>>
          /\ \A v \in Voters : worker[v] \in {"none", "reaped"} \/ v \in dropped
          /\ \A o \in Operators : conn[o] \notin {"connecting", "reading"}

\* The name check of handle_request and the operation check of each channel: a
\* voter connection only ever makes the voter's calls, under the name it logged in
\* with, and only the control socket reaches the others.
ActsAsItself ==
    /\ \A v \in Voters : link[v].kind = "resp" =>
          link[v].cert = v /\ link[v].call \in VoterCalls
    /\ \A o \in Operators : reply[o].kind = "resp" =>
          reply[o].call \in CtlCalls

\* A signal, a failed bind or a failed control thread stops the daemon, whatever the
\* voters and the workers are doing (g_quit, reap_bounded).
StopsWhenAsked == quit ~> main = "exited"

\* A voter's request is answered or its connection ends (handle_request, admin_thread,
\* admin_teardown), and a control request that was passed on is answered, or every copy
\* of its connection is closed so that ballotctl does not wait for ever (handle_ctl_req),
\* unless poll failed the admin thread.  A worker the table had no room for may leave its
\* voter waiting and keep a copy of a control connection, and a ballot whose attempts are
\* used up has a result without a name on the wire: its voter is sent nothing ("unheard").
EveryoneHearsBack ==
    /\ \A v \in Voters :
          client[v] = "asking" ~> client[v] # "asking" \/ v \in dropped \/ admin = "gone"
    /\ \A o \in Operators :
          conn[o] = "queued" ~> \/ conn[o] = "answered"
                                \/ conn[o] = "closed" /\ copies[o] \subseteq dropped
                                \/ admin = "gone"

----------------------------------------------------------------------------
(* The inductive invariant behind WorkersAccounted and ActsAsItself.        *)

\* What a worker's pair may carry: requests and replies under the name its connection
\* logged in with, and the voter's operations only.
PairMsgs(v) ==
    {NoMsg} \cup [kind : {"req"}, req : [op : VoterOps, cert : {v}]]
    \cup [kind : {"resp"}, call : VoterCalls, cert : {v}, status : {"named", "BB_ERR_RETRY"}]

CtlReqs == [fd : Operators, req : [op : CtlOps, cert : {None}]]

\* Types.
TypeOK ==
    /\ adminQuit \in BOOLEAN
    /\ table \in Seq(Voters) /\ notify \in Seq(Voters) /\ ctlNotify \in Seq(CtlReqs)
    /\ fresh \in Voters \cup {None}
    /\ worker \in [Voters -> {"none", "login", "serving", "waiting", "zombie", "reaped"}]
    /\ client \in [Voters -> {"out", "connecting", "on", "asking", "unheard", "closed"}]
    /\ conn \in [Operators -> {"out", "connecting", "reading", "given up", "refused", "queued",
                               "answered", "closed"}]
    /\ hold \in [Voters -> SUBSET (Voters \cup {Daemon})]
    /\ DOMAIN link = Voters /\ DOMAIN reply = Operators

\* The workers the daemon knows of.
Known == {fresh} \cup Range(notify) \cup Range(table)

\* No worker is known twice, and the daemon holds the pairs of those it knows.
TableHolds ==
    /\ Len(table) <= MAX_WORKERS
    /\ IsInjective(table) /\ IsInjective(notify)
    /\ Range(table) \cap Range(notify) = {}
    /\ fresh \notin Range(table) \cup Range(notify)
    /\ \A v \in Voters : Daemon \in hold[v] <=> v \in Known

\* A worker that runs or has not been reaped is known or was turned away.
WorkersHold ==
    \A v \in Voters :
      /\ worker[v] = "none" => v \notin Known
      /\ client[v] = "connecting" => worker[v] = "none"
      /\ worker[v] \in {"none", "reaped"} \/ v \in dropped \/ v \in Known

\* How far the shutdown has come: what has ended announces and passes on nothing more.
StopHolds ==
    /\ listener # "accepting" => fresh = None
    /\ main # "join listener" => listener = "exited"
    /\ main \in {"join admin", "exited"} => ctl = "exited"
    /\ ctl = "exited" => \A o \in Operators : conn[o] \notin {"connecting", "reading"}
    /\ adminQuit => main \in {"join admin", "exited"}
    /\ admin \in {"teardown", "exited"} => adminQuit
    /\ admin # "poll" => ready = {}
    /\ admin = "exited" => notify = <<>> /\ ctlNotify = <<>> /\ table = <<>>

\* What the channels carry.
ChannelsHold ==
    /\ \A v \in Voters : link[v] \in PairMsgs(v)
    /\ \A o \in Operators : reply[o].kind = "resp" => reply[o].call \in CtlCalls
    /\ "ctl" \in ready => ctlNotify # <<>>

IInv == TypeOK /\ TableHolds /\ WorkersHold /\ StopHolds /\ ChannelsHold
============================================================================
