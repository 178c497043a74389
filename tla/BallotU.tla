------------------------------ MODULE BallotU ------------------------------
(* The voter's client, ballotu: its screens, the session state libballot-   *)
(* client keeps for it, and the one connection it holds to ballotd.  The    *)
(* daemon is what the client can see of it: a worker per connection that    *)
(* answers requests in order from the elections and the voter's ballots.    *)
(*                                                                          *)
(* A screen is where the program waits for the voter ("connect", "login",   *)
(* "form", "menu", "ballot", "reconnect") or for the daemon ("wait").       *)
(* Faults are a worker that ends, a request whose answer is a store error   *)
(* (with or without its effect), and a reply that cannot be decoded.        *)
EXTENDS Naturals, Sequences, FiniteSets

CONSTANTS
  Elections,    \* ids of elections the daemon knows
  Unknown,      \* well-formed ids of no election
  Eligible,     \* the elections whose list holds this voter
  None,
  MaxConns,     \* bound: connections the client ever opens
  MaxVersion,   \* bound: versions of one ballot
  MaxFaults     \* bound: faults of the daemon, the store and the wire

VARIABLES
  screen,       \* the screen that is up
  transport,    \* ctx->transport: None or [fd, connected]
  session,      \* bu_session_t: joined, election_id, has_ballot, ballot_version
  shown,        \* the election the status bar names
  request,      \* the request the client waits on
  replies,      \* frames on their way to the client, oldest first
  fds,          \* descriptors the client process has open
  worker,       \* the daemon's side of each connection
  phase,        \* state of each election
  version,      \* version of the voter's live ballot in each election, 0 for none
  receipts,     \* receipts shown to the voter
  verdict,      \* what the last check told the voter, until the next request
  faults

client == <<screen, transport, session, shown, request, fds, receipts, verdict>>
daemon == <<worker, phase, version, faults>>
vars == <<screen, transport, session, shown, request, replies, fds, worker,
          phase, version, receipts, verdict, faults>>

Ids == Elections \cup Unknown
Conns == 1..MaxConns
NoSession == [joined |-> FALSE, id |-> None, has_ballot |-> FALSE, version |-> 0]
Ask(op, id, rcpt) == [op |-> op, id |-> id, rcpt |-> rcpt]

\* Not every answer needs every field.
Reply(status, state, prior, rcpt) ==
  [to |-> request, status |-> status, state |-> state, prior |-> prior, rcpt |-> rcpt]
Plain(status) == Reply(status, None, 0, None)

Init ==
  /\ screen = "connect" /\ transport = None /\ session = NoSession /\ shown = None
  /\ request = None /\ replies = <<>> /\ fds = {} /\ receipts = {} /\ verdict = None
  /\ worker = [c \in Conns |-> "none"]
  /\ phase = [e \in Elections |-> "draft"] /\ version = [e \in Elections |-> 0]
  /\ faults = 0

-----------------------------------------------------------------------------
(* Connecting, logging in, leaving *)

bcl_connected == transport # None /\ transport.connected

\* The descriptor is closed only while the transport is still marked connected.
bcl_disconnect ==
  /\ transport' = None
  /\ fds' = IF bcl_connected THEN fds \ {transport.fd} ELSE fds
  /\ worker' = IF bcl_connected /\ worker[transport.fd] # "none"
               THEN [worker EXCEPT ![transport.fd] = "gone"] ELSE worker
  /\ replies' = <<>>

\* A refused address, port or handshake closes its own socket and changes
\* nothing; only a finished handshake replaces the transport.
screen_connect ==
  /\ screen = "connect"
  /\ \E c \in Conns :
       /\ worker[c] = "none" /\ \A d \in Conns : d < c => worker[d] # "none"
       /\ transport' = [fd |-> c, connected |-> TRUE]
       /\ fds' = (IF bcl_connected THEN fds \ {transport.fd} ELSE fds) \cup {c}
       /\ worker' = [worker EXCEPT ![c] = "login"]
  /\ shown' = None /\ screen' = "login" /\ replies' = <<>>
  /\ UNCHANGED <<session, request, receipts, verdict, phase, version, faults>>

\* Esc on the connect form, Quit in the menu, no to the reconnect question.
Quit ==
  /\ screen \in {"connect", "menu", "reconnect"}
  /\ bcl_disconnect /\ screen' = "quit"
  /\ UNCHANGED <<session, shown, request, receipts, verdict, phase, version, faults>>

\* The login menu: pick a form, or go back to the connect form.
screen_auth ==
  /\ screen = "login"
  /\ \/ screen' = "form" /\ UNCHANGED <<transport, shown, fds, worker, replies>>
     \/ bcl_disconnect /\ shown' = None /\ screen' = "connect"
  /\ UNCHANGED <<session, request, receipts, verdict, phase, version, faults>>

\* The credential form: cancelled, or sent.  Without a live transport
\* bcl_auth fails on the spot and the form comes up again.
screen_credential_flow ==
  /\ screen = "form"
  /\ \/ screen' = "login" /\ UNCHANGED request
     \/ bcl_connected /\ screen' = "wait" /\ request' = Ask("AUTH", None, None)
  /\ UNCHANGED <<transport, session, shown, replies, fds, receipts, verdict, daemon>>

-----------------------------------------------------------------------------
(* The voter menu *)

\* bcl_send up to the point where it waits for the reply.  A send that fails
\* ends like a reply that never comes (SessionLost).
bcl_send(req) ==
  /\ screen' = "wait" /\ request' = req /\ verdict' = None
  /\ UNCHANGED <<transport, session, shown, replies, fds, receipts, daemon>>

screen_join_election == screen = "menu" /\ \E id \in Ids : bcl_send(Ask("JOIN", id, None))

screen_view_results == screen = "menu" /\ \E id \in Ids : bcl_send(Ask("RESULTS", id, None))

screen_check_vote ==
  screen = "menu" /\ \E r \in receipts, id \in Ids : bcl_send(Ask("CHECK", id, r))

\* Cast and Update lead to the same list of options once the voter joined.
cast_common ==
  /\ screen = "menu" /\ session.joined /\ screen' = "ballot"
  /\ UNCHANGED <<transport, session, shown, request, replies, fds, receipts, verdict, daemon>>

bu_route_vote == CASE ~session.joined -> "MUST_JOIN"
                   [] session.joined /\ ~session.has_ballot -> "CAST"
                   [] OTHER -> "UPDATE"

bu_submit_vote ==
  /\ screen = "ballot" /\ bu_route_vote # "MUST_JOIN"
  /\ bcl_send(Ask(bu_route_vote, session.id, None))

CancelVote ==
  /\ screen = "ballot" /\ screen' = "menu"
  /\ UNCHANGED <<transport, session, shown, request, replies, fds, receipts, verdict, daemon>>

-----------------------------------------------------------------------------
(* What a reply does to the session *)

\* Mutant: the session forgets what the daemon said of an earlier ballot.
admitForgets(r) == [joined |-> TRUE, id |-> request.id, has_ballot |-> FALSE, version |-> 0]

admit(r) == [joined |-> TRUE, id |-> request.id, has_ballot |-> r.prior > 0, version |-> r.prior]

bu_classify_join(r) ==
  CASE r.status = "NOT_FOUND" -> "NOT_FOUND"
    [] r.status = "NOT_ELIGIBLE" -> "NOT_ELIGIBLE"
    [] r.status = "NOT_OPEN" -> "NOT_OPEN"
    [] r.status = "OK" -> IF r.state = "open" THEN "ADMITTED" ELSE "NOT_OPEN"
    [] OTHER -> "TIMEOUT"

saveForLater == [joined |-> FALSE, id |-> request.id, has_ballot |-> session.has_ballot,
                 version |-> session.version]

shownNext(outcome) == IF outcome = "ADMITTED" THEN request.id ELSE shown

\* An admitted voter with a ballot goes straight on to the options.
bu_join(r) ==
  LET outcome == bu_classify_join(r) IN
  /\ session' = CASE outcome = "ADMITTED" -> admit(r)
                  [] outcome = "NOT_OPEN" -> saveForLater
                  [] OTHER -> session
  /\ shown' = shownNext(outcome)
  /\ screen' = IF outcome = "ADMITTED" /\ r.prior > 0 THEN "ballot" ELSE "menu"
  /\ UNCHANGED <<receipts, verdict>>

\* A refused or lost submission does not move the session.
sessionAfter(r) ==
  IF r.status # "OK" THEN session
  ELSE [joined |-> session.joined, id |-> session.id, has_ballot |-> TRUE,
        version |-> session.version + 1]

submitted(r) ==
  /\ session' = sessionAfter(r)
  /\ receipts' = IF r.status = "OK" THEN receipts \cup {r.rcpt} ELSE receipts
  /\ screen' = "menu" /\ UNCHANGED <<shown, verdict>>

\* Mutant: whatever is not a hit is reported as a dropped ballot.
bu_classify_checkHasty(r) == IF r.status = "OK" THEN "COUNTED" ELSE "DROPPED"

\* The daemon answers a hit with OK and found set, a miss with NOT_FOUND.
bu_classify_check(r) ==
  CASE r.status = "OK" -> "COUNTED"
    [] r.status = "NOT_FOUND" -> "DROPPED"
    [] OTHER -> "UNAVAILABLE"

checked(r) ==
  /\ verdict' = [rcpt |-> request.rcpt, id |-> request.id, outcome |-> bu_classify_check(r)]
  /\ screen' = "menu" /\ UNCHANGED <<session, shown, receipts>>

\* Log-in answered 200 starts a session from nothing; any other answer
\* reopens the form.
authenticated(r) ==
  /\ screen' = IF r.status = "OK" THEN "menu" ELSE "form"
  /\ session' = IF r.status = "OK" THEN NoSession ELSE session
  /\ UNCHANGED <<shown, receipts, verdict>>

\* Mutant: a frame that cannot be decoded stays where it is.
readFrameKeeps(r) == IF r.status = "DAMAGED" THEN replies ELSE Tail(replies)

readFrame(r) == Tail(replies)

\* A frame arrives.  Undecodable frames count as a store error and leave the
\* connection in use.
Receive ==
  /\ screen = "wait" /\ bcl_connected /\ replies # <<>>
  /\ LET r == Head(replies) IN
       CASE request.op = "AUTH" -> authenticated(r)
         [] request.op = "JOIN" -> bu_join(r)
         [] request.op \in {"CAST", "UPDATE"} -> submitted(r)
         [] request.op = "CHECK" -> checked(r)
         [] OTHER -> screen' = "menu" /\ UNCHANGED <<session, shown, receipts, verdict>>
  /\ replies' = readFrame(Head(replies)) /\ request' = None
  /\ UNCHANGED <<transport, fds, daemon>>

still_live == IF transport.connected THEN "menu" ELSE "reconnect"

\* The daemon's end is gone: the transport is marked dead.  The login form
\* just comes up again; every menu screen reports the loss, and main drops the
\* transport and the session before it asks about reconnecting.
SessionLost ==
  /\ screen = "wait" /\ bcl_connected /\ replies = <<>> /\ worker[transport.fd] = "gone"
  /\ transport' = [fd |-> transport.fd, connected |-> FALSE] /\ request' = None
  /\ screen' = IF request.op = "AUTH" THEN "form" ELSE "lost"
  /\ verdict' = IF request.op # "CHECK" THEN verdict
                ELSE [rcpt |-> request.rcpt, id |-> request.id,
                      outcome |-> bu_classify_check(Plain("DB"))]
  /\ UNCHANGED <<session, shown>>
  /\ UNCHANGED <<replies, fds, receipts, daemon>>

\* What the screen returns to the menu loop, and what main does with it.
voter_menu ==
  /\ screen = "lost" /\ screen' = still_live
  /\ IF still_live = "reconnect"
     THEN bcl_disconnect /\ session' = NoSession /\ shown' = None
     ELSE UNCHANGED <<transport, fds, worker, replies, session, shown>>
  /\ UNCHANGED <<request, receipts, verdict, phase, version, faults>>

offer_reconnect ==
  /\ screen = "reconnect" /\ screen' = "connect"
  /\ UNCHANGED <<transport, session, shown, request, replies, fds, receipts, verdict, daemon>>

-----------------------------------------------------------------------------
(* The daemon, as far as this client sees it *)

Fault == faults < MaxFaults /\ faults' = faults + 1

Waiting == /\ screen = "wait" /\ bcl_connected /\ replies = <<>>
           /\ worker[transport.fd] \in {"login", "voter"}

\* auth_login: accepted or refused; once logged in, LOGIN is no request.
ServeAuth ==
  /\ Waiting /\ request.op = "AUTH"
  /\ \/ /\ worker[transport.fd] = "login"
        /\ worker' = [worker EXCEPT ![transport.fd] = "voter"]
        /\ replies' = <<Plain("OK")>>
     \/ replies' = <<Plain("REFUSED")>> /\ UNCHANGED worker
  /\ UNCHANGED <<client, phase, version, faults>>

\* Gates in the order of the handlers.
JoinAnswer(id) ==
  CASE id \notin Elections -> Plain("NOT_FOUND")
    [] id \in Elections \ Eligible -> Plain("NOT_ELIGIBLE")
    [] id \in Eligible /\ phase[id] # "open" -> Plain("NOT_OPEN")
    [] OTHER -> Reply("OK", phase[id], version[id], None)

CheckAnswer(r, id) ==
  IF id \in Elections /\ r = [id |-> id, version |-> version[id]]
  THEN Plain("OK") ELSE Plain("NOT_FOUND")

ResultsAnswer(id) ==
  CASE id \notin Elections -> Plain("NOT_FOUND")
    [] id \in Elections /\ phase[id] # "published" -> Plain("NOT_PUBLISHED")
    [] OTHER -> Plain("OK")

ServeRead ==
  /\ Waiting /\ worker[transport.fd] = "voter"
  /\ \/ request.op = "JOIN" /\ replies' = <<JoinAnswer(request.id)>>
     \/ request.op = "CHECK" /\ replies' = <<CheckAnswer(request.rcpt, request.id)>>
     \/ request.op = "RESULTS" /\ replies' = <<ResultsAnswer(request.id)>>
  /\ UNCHANGED <<client, daemon>>

Casting == Waiting /\ worker[transport.fd] = "voter" /\ request.op \in {"CAST", "UPDATE"}

ServeBallot ==
  /\ Casting
  /\ IF phase[request.id] = "open"
     THEN /\ version[request.id] < MaxVersion
          /\ version' = [version EXCEPT ![request.id] = @ + 1]
          /\ replies' = <<Reply("OK", None, 0, [id |-> request.id, version |-> version'[request.id]])>>
     ELSE replies' = <<Plain("CLOSED")>> /\ UNCHANGED version
  /\ UNCHANGED <<client, worker, phase, faults>>

\* The store fails: the ballot may be recorded all the same, when only the
\* answer to the commit was lost.
ServeStoreError ==
  /\ Waiting /\ Fault /\ replies' = <<Plain("DB")>>
  /\ \/ UNCHANGED version
     \/ /\ Casting /\ phase[request.id] = "open" /\ version[request.id] < MaxVersion
        /\ version' = [version EXCEPT ![request.id] = @ + 1]
  /\ UNCHANGED <<client, worker, phase>>

\* The answer arrives in a frame the client cannot decode.
ReplyDamaged ==
  /\ screen = "wait" /\ replies # <<>> /\ Head(replies).status # "DAMAGED" /\ Fault
  /\ LET r == Head(replies) IN
       replies' = <<[to |-> r.to, status |-> "DAMAGED", state |-> r.state, prior |-> r.prior,
                     rcpt |-> r.rcpt]>>
  /\ UNCHANGED <<client, worker, phase, version>>

\* The worker ends, with whatever it had not yet sent.
WorkerEnds ==
  /\ transport # None /\ worker[transport.fd] \in {"login", "voter"} /\ Fault
  /\ worker' = [worker EXCEPT ![transport.fd] = "gone"] /\ replies' = <<>>
  /\ UNCHANGED <<client, phase, version>>

\* The operator moves an election on (the others do not matter here); the voter votes from another machine
\* (bounded as a fault).
NextPhase == [draft |-> "open", open |-> "closed", closed |-> "published"]

Elsewhere ==
  /\ \E e \in Eligible :
       \/ /\ phase[e] # "published" /\ phase' = [phase EXCEPT ![e] = NextPhase[@]]
          /\ UNCHANGED <<version, faults>>
       \/ /\ phase[e] = "open" /\ version[e] < MaxVersion /\ Fault
          /\ version' = [version EXCEPT ![e] = @ + 1] /\ UNCHANGED phase
  /\ UNCHANGED <<client, replies, worker>>

Next ==
  \/ screen_connect \/ Quit \/ screen_auth \/ screen_credential_flow
  \/ screen_join_election \/ screen_view_results \/ screen_check_vote
  \/ cast_common \/ bu_submit_vote \/ CancelVote
  \/ Receive \/ SessionLost \/ voter_menu \/ offer_reconnect
  \/ ServeAuth \/ ServeRead \/ ServeBallot \/ ServeStoreError
  \/ ReplyDamaged \/ WorkerEnds \/ Elsewhere

Spec == Init /\ [][Next]_vars
=============================================================================
