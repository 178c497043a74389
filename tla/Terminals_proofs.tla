-------------------------- MODULE Terminals_proofs --------------------------
(***************************************************************************)
(* Proofs about the programs people use.                                   *)
(*                                                                         *)
(* The voter votes as shown, is never alarmed by a failure and reads the   *)
(* answer to what was asked, for any number of elections, connections,     *)
(* versions and faults.                                                    *)
(*                                                                         *)
(* Elections are stored whole, under ids of their own, and operators are   *)
(* told the truth about it, for any number of operators, elections,        *)
(* options, voters and failures and any width of an int.                   *)
(***************************************************************************)
EXTENDS BallotUProps, ElectionsProps, TLAPS

\* A leaf is for Zenon, unless it names another prover.
USE ZenonT(40)

Places == {"none", "login", "voter", "gone"}

-----------------------------------------------------------------------------
(* Parts of the state that a step leaves alone, or leaves at rest. *)

\* A sequence of one reply.
LEMMA OneReply ==
    ASSUME NEW r
    PROVE  <<r>> # <<>> /\ Head(<<r>>) = r /\ Tail(<<r>>) = <<>>
  BY SMT

\* A client that does not wait has no request and nothing to read.
LEMMA Rests ==
    ASSUME screen' # "wait", request' = None, replies' = <<>>
    PROVE  RequestHolds' /\ RepliesHold'
  BY DEF RequestHolds, RepliesHold

\* What is known of the session stays so when only the screen changes.
LEMMA SessionStays ==
    ASSUME SessionHolds, UNCHANGED <<session, shown, version, receipts>>,
           Outside' => ~session.joined, screen' = "ballot" => session.joined
    PROVE  SessionHolds'
  BY DEF SessionHolds

\* A verdict stays true while nobody votes.
LEMMA VerdictStays ==
    ASSUME VerdictHolds, UNCHANGED <<verdict, receipts, version>>
    PROVE  VerdictHolds'
  BY DEF VerdictHolds

\* What closing a connection leaves.
LEMMA DisconnectIs ==
    ASSUME TypeOK, bcl_disconnect
    PROVE  transport' = None /\ replies' = <<>> /\ worker' \in [Conns -> Places]
  BY DEF TypeOK, bcl_disconnect, Places

\* A step of the client that ends outside, in the menu loop or at its end, and leaves
\* the session as it is.
LEMMA RestKeeps ==
    ASSUME IInv, TypeOK', ConnHolds', screen' # "wait", request' = None, replies' = <<>>,
           UNCHANGED <<session, shown, version, receipts, verdict>>,
           Outside' => ~session.joined, screen' = "ballot" => session.joined
    PROVE  IInv'
<1>1. SessionHolds'
  BY SessionStays DEF IInv
<1>2. VerdictHolds'
  BY VerdictStays DEF IInv
<1> QED BY <1>1, <1>2, Rests DEF IInv

\* What a request that is sent from a screen asks.
Askable(op, id, rcpt) ==
  /\ IF op = "AUTH" THEN screen = "form" /\ bcl_connected ELSE screen \in {"menu", "ballot"}
  /\ op \in {"CAST", "UPDATE"} => session.joined /\ id = session.id
  /\ op = "CAST" => ~session.has_ballot
  /\ op = "CHECK" => rcpt \in receipts

\* A step of the client that sends a request.
LEMMA SendKeeps ==
    ASSUME IInv, NEW op, NEW id, NEW rcpt, Askable(op, id, rcpt),
           screen' = "wait", request' = Ask(op, id, rcpt), verdict' \in {verdict, None},
           UNCHANGED <<transport, session, shown, replies, fds, receipts, daemon>>
    PROVE  IInv'
<1>1. request'.op = op /\ request'.id = id /\ request'.rcpt = rcpt
  BY DEF Ask
<1>2. UNCHANGED <<worker, version>>
  BY DEF daemon
<1>3. TypeOK'
  BY <1>2 DEF IInv, TypeOK, Conns
<1>4. ConnHolds'
  BY <1>1, <1>2 DEF IInv, ConnHolds, Asking, bcl_connected, Askable
<1>5. SessionHolds'
  <2>1. Outside' => ~session.joined
    BY <1>1 DEF IInv, SessionHolds, Outside, Askable
  <2> QED BY <1>2, <2>1, SessionStays DEF IInv
<1>6. RequestHolds' /\ RepliesHold'
  BY <1>1 DEF IInv, RequestHolds, RepliesHold, Askable
<1>7. VerdictHolds'
  <2>1. CASE verdict' = verdict
    BY <1>2, <2>1, VerdictStays DEF IInv
  <2>2. CASE verdict' = None
    BY <2>2 DEF VerdictHolds
  <2> QED BY <2>1, <2>2
<1> QED BY <1>3, <1>4, <1>5, <1>6, <1>7 DEF IInv

-----------------------------------------------------------------------------
(* The steps of the client. *)

LEMMA ConnectKeeps ==
    ASSUME IInv, screen_connect
    PROVE  IInv'
<1>1. PICK c \in Conns : /\ transport' = [fd |-> c, connected |-> TRUE]
                         /\ worker' = [worker EXCEPT ![c] = "login"]
  BY DEF screen_connect
<1>2. /\ screen = "connect" /\ screen' = "login" /\ replies' = <<>>
      /\ UNCHANGED <<session, request, receipts, verdict, version>>
  BY DEF screen_connect
<1>3. TypeOK'
  <2>1. transport' \in [fd : Conns, connected : BOOLEAN]
    BY <1>1
  <2>2. worker' \in [Conns -> {"none", "login", "voter", "gone"}]
    BY <1>1 DEF IInv, TypeOK
  <2> QED BY <1>2, <2>1, <2>2 DEF IInv, TypeOK, Conns
<1>4. ConnHolds'
  BY <1>2 DEF ConnHolds, Asking
<1>5. SessionHolds'
  <2>1. ~session.joined
    BY <1>2 DEF IInv, SessionHolds, Outside
  <2> QED BY <1>2, <2>1 DEF IInv, SessionHolds
<1>6. RequestHolds' /\ RepliesHold'
  BY <1>2, Rests DEF IInv, RequestHolds
<1>7. VerdictHolds'
  BY <1>2, VerdictStays DEF IInv
<1> QED BY <1>3, <1>4, <1>5, <1>6, <1>7 DEF IInv

LEMMA QuitKeeps ==
    ASSUME IInv, Quit
    PROVE  IInv'
<1>1. transport' = None /\ replies' = <<>> /\ worker' \in [Conns -> Places]
  BY DisconnectIs DEF Quit, IInv
<1>2. /\ screen \in {"connect", "menu", "reconnect"} /\ screen' = "quit"
      /\ UNCHANGED <<session, shown, request, receipts, verdict, version>>
  BY DEF Quit
<1>3. TypeOK'
  BY <1>1, <1>2 DEF IInv, TypeOK, Conns, Places
<1>4. ConnHolds' /\ ~Outside'
  BY <1>2 DEF ConnHolds, Asking, Outside
<1>5. request' = None
  BY <1>2 DEF IInv, RequestHolds
<1> QED BY <1>1, <1>2, <1>3, <1>4, <1>5, RestKeeps

LEMMA AuthKeeps ==
    ASSUME IInv, screen_auth
    PROVE  IInv'
<1>1. /\ screen = "login" /\ screen' \in {"form", "connect"}
      /\ UNCHANGED <<session, request, receipts, verdict, version>>
  BY DEF screen_auth
<1>2. ~session.joined /\ request' = None /\ replies = <<>>
  BY <1>1 DEF IInv, SessionHolds, Outside, RequestHolds
<1>3. /\ replies' = <<>> /\ transport' \in {transport, None} /\ worker' \in [Conns -> Places]
  <2>1. CASE UNCHANGED <<transport, shown, fds, worker, replies>>
    BY <1>2, <2>1 DEF IInv, TypeOK, Places
  <2>2. CASE bcl_disconnect
    BY <2>2, DisconnectIs DEF IInv
  <2> QED BY <2>1, <2>2 DEF screen_auth
<1>4. TypeOK'
  BY <1>1, <1>3 DEF IInv, TypeOK, Conns, Places
<1>5. ConnHolds'
  BY <1>1 DEF ConnHolds, Asking
<1>6. SessionHolds'
  BY <1>1, <1>2 DEF IInv, SessionHolds
<1>7. RequestHolds' /\ RepliesHold'
  BY <1>1, <1>2, <1>3, Rests
<1>8. VerdictHolds'
  BY <1>1, VerdictStays DEF IInv
<1> QED BY <1>4, <1>5, <1>6, <1>7, <1>8 DEF IInv

LEMMA CredentialKeeps ==
    ASSUME IInv, screen_credential_flow
    PROVE  IInv'
<1>1. /\ screen = "form"
      /\ UNCHANGED <<transport, session, shown, replies, fds, receipts, verdict, daemon>>
  BY DEF screen_credential_flow
<1>2. CASE screen' = "login" /\ UNCHANGED request
  <2>1. ~session.joined /\ request' = None /\ replies' = <<>>
    BY <1>1, <1>2 DEF IInv, SessionHolds, Outside, RequestHolds
  <2>2. TypeOK' /\ ConnHolds'
    BY <1>1, <1>2 DEF IInv, TypeOK, Conns, ConnHolds, Asking, daemon
  <2> QED BY <1>1, <1>2, <2>1, <2>2, RestKeeps DEF daemon
<1>3. CASE bcl_connected /\ screen' = "wait" /\ request' = Ask("AUTH", None, None)
  <2>1. Askable("AUTH", None, None)
    BY <1>1, <1>3 DEF Askable
  <2> QED BY <1>1, <1>3, <2>1, SendKeeps
<1> QED BY <1>2, <1>3 DEF screen_credential_flow

LEMMA MenuKeeps ==
    ASSUME IInv,
           screen_join_election \/ screen_view_results \/ screen_check_vote
    PROVE  IInv'
<1>1. PICK op \in {"JOIN", "RESULTS", "CHECK"}, id \in Ids, rcpt \in receipts \cup {None} :
        bcl_send(Ask(op, id, rcpt)) /\ screen = "menu" /\ (op = "CHECK" => rcpt \in receipts)
  BY DEF screen_join_election, screen_view_results, screen_check_vote
<1>2. Askable(op, id, rcpt)
  BY <1>1 DEF Askable
<1> QED BY <1>1, <1>2, SendKeeps DEF bcl_send

LEMMA BallotKeeps ==
    ASSUME IInv, cast_common \/ CancelVote
    PROVE  IInv'
<1>1. /\ screen \in {"menu", "ballot"} /\ screen' \in {"menu", "ballot"}
      /\ screen' = "ballot" => session.joined
      /\ UNCHANGED <<transport, session, shown, request, replies, fds, receipts, verdict, worker, version>>
  BY DEF cast_common, CancelVote, daemon
<1>2. request' = None /\ replies' = <<>>
  BY <1>1 DEF IInv, RequestHolds
<1>3. TypeOK'
  BY <1>1 DEF IInv, TypeOK, Conns
<1>4. ConnHolds' /\ ~Outside'
  BY <1>1 DEF IInv, ConnHolds, Asking, Outside, bcl_connected
<1> QED BY <1>1, <1>2, <1>3, <1>4, RestKeeps

LEMMA SubmitKeeps ==
    ASSUME IInv, bu_submit_vote
    PROVE  IInv'
<1>1. screen = "ballot" /\ bu_route_vote # "MUST_JOIN" /\ bcl_send(Ask(bu_route_vote, session.id, None))
  BY DEF bu_submit_vote
<1>2. session.joined
  BY <1>1 DEF IInv, SessionHolds
<1>3. bu_route_vote \in {"CAST", "UPDATE"} /\ (bu_route_vote = "CAST" => ~session.has_ballot)
  BY <1>2 DEF bu_route_vote
<1>4. Askable(bu_route_vote, session.id, None)
  BY <1>1, <1>2, <1>3 DEF Askable
<1> QED BY <1>1, <1>4, SendKeeps DEF bcl_send

LEMMA LostKeeps ==
    ASSUME IInv, SessionLost
    PROVE  IInv'
<1>1. /\ screen = "wait" /\ bcl_connected /\ replies' = <<>> /\ request' = None
      /\ transport' = [fd |-> transport.fd, connected |-> FALSE]
      /\ screen' = (IF request.op = "AUTH" THEN "form" ELSE "lost")
      /\ UNCHANGED <<session, shown, receipts, worker, version>>
  BY DEF SessionLost, daemon
<1>2. transport' \in [fd : Conns, connected : BOOLEAN] /\ ~transport'.connected
  <2>1. transport \in [fd : Conns, connected : BOOLEAN]
    BY <1>1 DEF IInv, TypeOK, bcl_connected
  <2>2. transport.fd \in Conns
    BY <2>1
  <2> QED BY <1>1, <2>2
<1>3. TypeOK'
  BY <1>1, <1>2 DEF IInv, TypeOK, Conns
<1>4. ConnHolds'
  <2>1. transport' # None
    BY <1>2, ClientAssumption DEF Conns
  <2> QED BY <1>1, <1>2, <2>1 DEF ConnHolds, Asking
<1>5. SessionHolds'
  <2>1. Outside' => ~session.joined
    BY <1>1 DEF IInv, SessionHolds, Outside
  <2>2. screen' # "ballot"
    BY <1>1
  <2> QED BY <1>1, <2>1, <2>2, SessionStays DEF IInv
<1>6. RequestHolds' /\ RepliesHold'
  BY <1>1, Rests
<1>7. VerdictHolds'
  <2>1. CASE verdict' = verdict
    BY <1>1, <2>1, VerdictStays DEF IInv
  <2>2. CASE verdict' = [rcpt |-> request.rcpt, id |-> request.id,
                         outcome |-> bu_classify_check(Plain("DB"))]
    <3>1. Plain("DB").status = "DB"
      BY DEF Plain, Reply
    <3>2. bu_classify_check(Plain("DB")) = "UNAVAILABLE"
      BY <3>1 DEF bu_classify_check
    <3>3. verdict'.outcome = "UNAVAILABLE"
      BY <2>2, <3>2
    <3> QED BY <3>3 DEF VerdictHolds
  <2> QED BY <2>1, <2>2 DEF SessionLost
<1> QED BY <1>3, <1>4, <1>5, <1>6, <1>7 DEF IInv

LEMMA BackKeeps ==
    ASSUME IInv, voter_menu \/ offer_reconnect
    PROVE  IInv'
<1>1. CASE voter_menu
  <2>1. still_live = "reconnect"
    BY <1>1 DEF IInv, ConnHolds, voter_menu, still_live
  <2>2. /\ screen = "lost" /\ screen' = "reconnect" /\ bcl_disconnect /\ session' = NoSession
        /\ UNCHANGED <<request, receipts, verdict, version>>
    BY <1>1, <2>1 DEF voter_menu
  <2>3. transport' = None /\ replies' = <<>> /\ worker' \in [Conns -> Places]
    BY <2>2, DisconnectIs DEF IInv
  <2>4. session'.joined = FALSE /\ session'.version = 0 /\ 0 \in Nat
    <3>1. 0 \in Nat
      BY SMT
    <3> QED BY <2>2, <3>1 DEF NoSession
  <2>5. TypeOK'
    BY <2>2, <2>3, <2>4 DEF IInv, TypeOK, Conns, Places
  <2>6. ConnHolds'
    BY <2>2 DEF ConnHolds, Asking
  <2>7. SessionHolds'
    BY <2>2, <2>4 DEF IInv, SessionHolds
  <2>8. RequestHolds' /\ RepliesHold'
    BY <2>2, <2>3, Rests DEF IInv, RequestHolds
  <2>9. VerdictHolds'
    BY <2>2, VerdictStays DEF IInv
  <2> QED BY <2>5, <2>6, <2>7, <2>8, <2>9 DEF IInv
<1>2. CASE offer_reconnect
  <2>1. /\ screen = "reconnect" /\ screen' = "connect"
        /\ UNCHANGED <<transport, session, shown, request, replies, receipts, verdict, worker, version>>
    BY <1>2 DEF offer_reconnect, daemon
  <2>2. ~session.joined /\ request' = None /\ replies' = <<>>
    BY <2>1 DEF IInv, SessionHolds, Outside, RequestHolds
  <2>3. TypeOK' /\ ConnHolds'
    BY <2>1 DEF IInv, TypeOK, Conns, ConnHolds, Asking
  <2> QED BY <2>1, <2>2, <2>3, RestKeeps
<1> QED BY <1>1, <1>2

\* What a reply does to the client.
LEMMA ReceiveKeeps ==
    ASSUME IInv, Receive
    PROVE  IInv'
<1>1. PICK r : replies = <<r>> /\ ReplyHolds(r)
  BY DEF IInv, RepliesHold, Receive
<1>2. Head(replies) = r /\ Tail(replies) = <<>>
  BY <1>1, OneReply
<1>3. /\ screen = "wait" /\ bcl_connected /\ replies' = <<>> /\ request' = None
      /\ UNCHANGED <<transport, worker, version>>
  BY <1>2 DEF Receive, readFrame, daemon
<1>4. screen' # "wait" => RequestHolds' /\ RepliesHold'
  BY <1>3, Rests
<1>5. ASSUME session'.joined \in BOOLEAN, session'.version \in Nat,
             receipts' \subseteq [id : Eligible, version : Nat]
      PROVE  TypeOK'
  BY <1>3, <1>5 DEF IInv, TypeOK, Conns
<1>6. ASSUME request.op # "AUTH", screen' \in {"menu", "ballot"} PROVE ConnHolds'
  BY <1>3, <1>6 DEF IInv, ConnHolds, Asking, bcl_connected
<1>7. CASE request.op = "AUTH"
  <2>1. authenticated(r)
    BY <1>2, <1>7 DEF Receive
  <2>2. ~session.joined
    BY <1>3, <1>7 DEF IInv, SessionHolds, Outside
  <2>3. ~session'.joined /\ session'.joined \in BOOLEAN /\ session'.version \in Nat
    <3>1. NoSession.joined = FALSE /\ NoSession.version = 0 /\ 0 \in Nat
      <4>1. 0 \in Nat
        BY SMT
      <4> QED BY <4>1 DEF NoSession
    <3> QED BY <2>1, <2>2, <3>1 DEF authenticated, IInv, TypeOK
  <2>4. /\ UNCHANGED <<shown, receipts, verdict>> /\ screen' \in {"menu", "form"}
        /\ screen' = "menu" => r.status = "OK"
    BY <2>1 DEF authenticated
  <2>5. TypeOK'
    BY <1>5, <2>3, <2>4 DEF IInv, TypeOK
  <2>6. ConnHolds'
    BY <1>1, <1>3, <1>7, <2>4 DEF ConnHolds, Asking, bcl_connected, ReplyHolds
  <2>7. SessionHolds'
    BY <1>3, <2>3, <2>4 DEF IInv, SessionHolds
  <2>8. VerdictHolds'
    BY <1>3, <2>4, VerdictStays DEF IInv
  <2> QED BY <1>4, <2>4, <2>5, <2>6, <2>7, <2>8 DEF IInv
<1>8. CASE request.op = "JOIN"
  <2>1. bu_join(r)
    BY <1>2, <1>8 DEF Receive
  <2>2. UNCHANGED <<receipts, verdict>> /\ screen' \in {"menu", "ballot"}
    BY <2>1 DEF bu_join
  <2>3. ConnHolds' /\ VerdictHolds'
    BY <1>3, <1>6, <1>8, <2>2, VerdictStays DEF IInv
  <2>4. ~Outside'
    BY <2>2 DEF Outside
  <2>5. CASE bu_classify_join(r) = "ADMITTED"
    <3>1. r.status = "OK"
      BY <2>5 DEF bu_classify_join
    <3>2. /\ request.id \in Eligible /\ r.prior \in Nat /\ r.prior <= version[request.id]
          /\ r.prior = 0 => \A x \in receipts : x.id # request.id
      BY <1>1, <1>8, <3>1 DEF ReplyHolds
    <3>3. session' = admit(r) /\ shown' = request.id
      BY <2>1, <2>5 DEF bu_join, shownNext
    <3>4. /\ session'.joined = TRUE /\ session'.id = request.id /\ session'.version = r.prior
          /\ session'.has_ballot = (r.prior > 0)
      BY <3>3 DEF admit
    <3>5. r.prior > 0 \/ r.prior = 0
      <4> DEFINE p == r.prior
      <4>1. p \in Nat
        BY <3>2
      <4> HIDE DEF p
      <4>2. p > 0 \/ p = 0
        BY <4>1, SMT
      <4> QED BY <4>2 DEF p
    <3>6. TypeOK'
      BY <1>5, <2>2, <3>2, <3>4 DEF IInv, TypeOK
    <3>7. SessionHolds'
      <4>1. ~session'.has_ballot => \A x \in receipts' : x.id # session'.id
        BY <2>2, <3>2, <3>4, <3>5
      <4> QED BY <1>3, <2>2, <2>4, <3>2, <3>3, <3>4, <4>1 DEF IInv, SessionHolds
    <3> QED BY <1>4, <2>2, <2>3, <3>6, <3>7 DEF IInv
  <2>6. CASE bu_classify_join(r) # "ADMITTED"
    <3>1. screen' = "menu" /\ shown' = shown /\ session' \in {session, saveForLater}
      BY <2>1, <2>6 DEF bu_join, shownNext
    <3>2. saveForLater.joined = FALSE /\ saveForLater.version = session.version
      BY DEF saveForLater
    <3>3. TypeOK'
      BY <1>5, <2>2, <3>1, <3>2 DEF IInv, TypeOK
    <3>4. SessionHolds'
      <4>1. CASE session' = session
        BY <1>3, <2>2, <2>4, <3>1, <4>1, SessionStays DEF IInv
      <4>2. CASE session' = saveForLater
        BY <1>3, <2>2, <2>4, <3>1, <3>2, <4>2 DEF IInv, SessionHolds
      <4> QED BY <3>1, <4>1, <4>2
    <3> QED BY <1>4, <2>2, <2>3, <3>3, <3>4 DEF IInv
  <2> QED BY <2>5, <2>6
<1>9. CASE request.op \in {"CAST", "UPDATE"}
  <2>1. submitted(r)
    BY <1>2, <1>9 DEF Receive
  <2>2. UNCHANGED <<shown, verdict>> /\ screen' = "menu"
    BY <2>1 DEF submitted
  <2>3. ConnHolds' /\ ~Outside'
    BY <1>6, <1>9, <2>2 DEF Outside
  <2>4. CASE r.status # "OK"
    <3>1. session' = session /\ receipts' = receipts
      BY <2>1, <2>4 DEF submitted, sessionAfter
    <3>2. TypeOK'
      BY <1>5, <3>1 DEF IInv, TypeOK
    <3>3. SessionHolds' /\ VerdictHolds'
      BY <1>3, <2>2, <2>3, <3>1, SessionStays, VerdictStays DEF IInv
    <3> QED BY <1>4, <2>2, <2>3, <3>2, <3>3 DEF IInv
  <2>5. CASE r.status = "OK"
    <3>1. /\ r.rcpt \in [id : {request.id}, version : Nat]
          /\ 0 < r.rcpt.version /\ r.rcpt.version <= version[request.id]
          /\ session.version < version[request.id]
      BY <1>1, <1>9, <2>5 DEF ReplyHolds
    <3>2. /\ session.joined /\ request.id = session.id /\ session.id = shown
          /\ session.id \in Eligible /\ session.id \in Elections
      BY <1>3, <1>9, ClientAssumption DEF IInv, RequestHolds, SessionHolds
    <3>3. receipts' = receipts \cup {r.rcpt} /\ session' = sessionAfter(r)
      BY <2>1, <2>5 DEF submitted
    <3>4. /\ session'.joined = session.joined /\ session'.id = session.id
          /\ session'.has_ballot = TRUE /\ session'.version = session.version + 1
      BY <2>5, <3>3 DEF sessionAfter
    <3>5. r.rcpt.id = session.id /\ r.rcpt \in [id : Eligible, version : Nat]
      <4>1. r.rcpt.id = request.id
        BY <3>1
      <4> QED BY <3>1, <3>2, <4>1, SMT
    <3>6. session.version + 1 \in Nat /\ session.version + 1 <= version[session.id]
      <4> DEFINE a == session.version
                 b == version[session.id]
      <4>1. a \in Nat /\ b \in Nat /\ a < b
        BY <3>1, <3>2 DEF IInv, TypeOK
      <4> HIDE DEF a, b
      <4>2. a + 1 \in Nat /\ a + 1 <= b
        BY <4>1, SMT
      <4> QED BY <4>2 DEF a, b
    <3>7. TypeOK'
      BY <1>5, <3>2, <3>3, <3>4, <3>5, <3>6 DEF IInv, TypeOK
    <3>8. SessionHolds'
      <4>1. \A x \in receipts' : 0 < x.version /\ x.version <= version'[x.id]
        BY <1>3, <3>1, <3>2, <3>3, <3>5 DEF IInv, SessionHolds
      <4> QED BY <1>3, <2>2, <2>3, <3>2, <3>4, <3>6, <4>1 DEF SessionHolds
    <3>9. VerdictHolds'
      BY <1>3, <2>2, <3>3 DEF IInv, VerdictHolds
    <3> QED BY <1>4, <2>2, <2>3, <3>7, <3>8, <3>9 DEF IInv
  <2> QED BY <2>4, <2>5
<1>10. CASE request.op = "CHECK"
  <2>1. checked(r)
    BY <1>2, <1>10 DEF Receive
  <2>2. screen' = "menu" /\ UNCHANGED <<session, shown, receipts>>
    BY <2>1 DEF checked
  <2>3. ConnHolds' /\ ~Outside'
    BY <1>6, <1>10, <2>2 DEF Outside
  <2>4. TypeOK'
    BY <1>5, <2>2 DEF IInv, TypeOK
  <2>5. SessionHolds'
    BY <1>3, <2>2, <2>3, SessionStays DEF IInv
  <2>6. VerdictHolds'
    <3>1. /\ verdict'.rcpt = request.rcpt /\ verdict'.id = request.id
          /\ verdict'.outcome = bu_classify_check(r)
      BY <2>1 DEF checked
    <3>2. bu_classify_check(r) = "DROPPED" => r.status = "NOT_FOUND"
      BY DEF bu_classify_check
    <3>3. request.rcpt \in receipts
      BY <1>3, <1>10 DEF IInv, RequestHolds
    <3> QED BY <1>1, <1>3, <1>10, <2>2, <3>1, <3>2, <3>3 DEF VerdictHolds, ReplyHolds
  <2> QED BY <1>4, <2>2, <2>3, <2>4, <2>5, <2>6 DEF IInv
<1>11. CASE request.op \notin {"AUTH", "JOIN", "CAST", "UPDATE", "CHECK"}
  <2>1. screen' = "menu" /\ UNCHANGED <<session, shown, receipts, verdict>>
    BY <1>2, <1>11 DEF Receive
  <2>2. ConnHolds' /\ ~Outside'
    BY <1>6, <1>11, <2>1 DEF Outside
  <2>3. TypeOK'
    BY <1>5, <2>1 DEF IInv, TypeOK
  <2> QED BY <1>3, <2>1, <2>2, <2>3, RestKeeps
<1> QED BY <1>7, <1>8, <1>9, <1>10, <1>11

-----------------------------------------------------------------------------
(* The steps of the daemon. *)

\* Versions that only grow.
Grown == version' \in [Elections -> Nat] /\ \A e \in Elections : version[e] <= version'[e]

\* What is below a version stays below it.
LEMMA Below ==
    ASSUME TypeOK, Grown, NEW e \in Elections, NEW n \in Nat
    PROVE  /\ n <= version[e] => n <= version'[e]
           /\ n < version[e] => n < version'[e]
<1> DEFINE a == version[e]
           b == version'[e]
<1>1. a \in Nat /\ b \in Nat /\ a <= b
  BY DEF TypeOK, Grown
<1> HIDE DEF a, b
<1>2. (n <= a => n <= b) /\ (n < a => n < b)
  BY <1>1, SMT
<1> QED BY <1>2 DEF a, b

\* Versions grow by one, or not at all.
LEMMA Growing ==
    ASSUME TypeOK
    PROVE  /\ UNCHANGED version => Grown
           /\ \A e \in Elections : version' = [version EXCEPT ![e] = version[e] + 1] =>
                /\ Grown /\ version'[e] \in Nat /\ 0 < version'[e]
                /\ version[e] < version'[e] /\ version'[e] <= version'[e]
<1>1. \A n \in Nat : n <= n /\ n + 1 \in Nat /\ n <= n + 1 /\ 0 < n + 1 /\ n < n + 1 /\ n + 1 <= n + 1
  BY SMT
<1>2. UNCHANGED version => Grown
  BY <1>1 DEF TypeOK, Grown
<1>3. ASSUME NEW e \in Elections, version' = [version EXCEPT ![e] = version[e] + 1]
      PROVE  /\ Grown /\ version'[e] \in Nat /\ 0 < version'[e]
             /\ version[e] < version'[e] /\ version'[e] <= version'[e]
  <2>1. version'[e] = version[e] + 1 /\ \A f \in Elections : f # e => version'[f] = version[f]
    BY <1>3 DEF TypeOK
  <2>2. version[e] \in Nat /\ version[e] + 1 \in Nat
    BY <1>1 DEF TypeOK
  <2>3. version' \in [Elections -> Nat]
    BY <1>3, <2>2 DEF TypeOK
  <2>4. \A f \in Elections : version[f] <= version'[f]
    BY <1>1, <2>1, <2>2 DEF TypeOK
  <2> QED BY <1>1, <2>1, <2>2, <2>3, <2>4 DEF Grown
<1> QED BY <1>2, <1>3

\* The fields of a receipt.
LEMMA ReceiptFields ==
    ASSUME TypeOK, NEW r \in receipts
    PROVE  r.id \in Eligible /\ r.id \in Elections /\ r.version \in Nat
  BY ClientAssumption DEF TypeOK

\* A step of the daemon keeps the invariant if it keeps what is known of the replies.
LEMMA DaemonKeeps ==
    ASSUME IInv, UNCHANGED client, Grown, worker' \in [Conns -> Places],
           transport # None => worker'[transport.fd] \in {worker[transport.fd], "voter", "gone"},
           screen # "wait" => replies' = <<>>, RepliesHold'
    PROVE  IInv'
<1>1. UNCHANGED <<screen, transport, session, shown, request, receipts, verdict>>
  BY DEF client
<1>2. TypeOK'
  BY <1>1 DEF IInv, TypeOK, Grown, Conns, Places
<1>3. ConnHolds'
  BY <1>1 DEF IInv, ConnHolds, Asking, bcl_connected
<1>4. SessionHolds'
  <2>1. \A r \in receipts : 0 < r.version /\ r.version <= version'[r.id]
    BY ReceiptFields, Below DEF IInv, SessionHolds
  <2>2. session.joined => session.version <= version'[session.id]
    <3> SUFFICES ASSUME session.joined PROVE session.version <= version'[session.id]
      OBVIOUS
    <3>1. session.id \in Elections /\ session.version \in Nat /\ session.version <= version[session.id]
      BY ClientAssumption DEF IInv, SessionHolds, TypeOK
    <3> QED BY <3>1, Below DEF IInv
  <2> QED BY <1>1, <2>1, <2>2 DEF IInv, SessionHolds, Outside
<1>5. RequestHolds'
  BY <1>1 DEF IInv, RequestHolds
<1>6. VerdictHolds'
  <2> SUFFICES ASSUME verdict # None, verdict.outcome = "DROPPED", verdict.id = verdict.rcpt.id
               PROVE  verdict.rcpt \in receipts /\ verdict.rcpt.version < version'[verdict.id]
    BY <1>1 DEF VerdictHolds
  <2>1. verdict.rcpt \in receipts /\ verdict.rcpt.version < version[verdict.id]
    BY DEF IInv, VerdictHolds
  <2>2. verdict.id \in Elections /\ verdict.rcpt.version \in Nat
    BY <2>1, ReceiptFields DEF IInv
  <2> QED BY <2>1, <2>2, Below DEF IInv
<1> QED BY <1>2, <1>3, <1>4, <1>5, <1>6 DEF IInv

\* A reply that says nothing of the tables.
LEMMA NoNews ==
    ASSUME NEW r, replies' = <<r>>, request' = request, r.to = request,
           r.status \notin {"OK", "NOT_FOUND"}
    PROVE  RepliesHold'
<1>1. Head(replies') = r
  BY OneReply
<1> QED BY <1>1 DEF RepliesHold, ReplyHolds

\* The fields of a plain reply.
LEMMA PlainFields ==
    ASSUME NEW status
    PROVE  Plain(status).to = request /\ Plain(status).status = status
  BY DEF Reply, Plain

\* What a step that answers leaves alone.
LEMMA AtWork ==
    ASSUME IInv, Waiting
    PROVE  /\ screen = "wait" /\ transport \in [fd : Conns, connected : BOOLEAN]
           /\ transport.fd \in Conns /\ worker \in [Conns -> Places]
<1>1. screen = "wait" /\ transport \in [fd : Conns, connected : BOOLEAN]
  BY DEF Waiting, bcl_connected, IInv, TypeOK
<1>2. transport.fd \in Conns
  BY <1>1
<1> QED BY <1>1, <1>2 DEF IInv, TypeOK, Places

LEMMA ServeAuthKeeps ==
    ASSUME IInv, ServeAuth
    PROVE  IInv'
<1>1. Waiting /\ request.op = "AUTH" /\ UNCHANGED client /\ UNCHANGED version
  BY DEF ServeAuth
<1>2. UNCHANGED <<request, transport>>
  BY <1>1 DEF client
<1>3. /\ screen = "wait" /\ transport.fd \in Conns /\ worker \in [Conns -> Places] /\ Grown
  BY <1>1, AtWork, Growing DEF IInv
<1>4. CASE worker' = [worker EXCEPT ![transport.fd] = "voter"] /\ replies' = <<Plain("OK")>>
  <2>1. worker'[transport.fd] = "voter" /\ worker' \in [Conns -> Places]
    BY <1>3, <1>4 DEF Places
  <2>2. PICK r : replies' = <<r>> /\ r.to = request /\ r.status = "OK"
    <3>1. Plain("OK").to = request /\ Plain("OK").status = "OK"
      BY PlainFields
    <3> QED BY <1>4, <3>1
  <2>3. Head(replies') = r
    BY <2>2, OneReply
  <2>4. RepliesHold'
    BY <1>1, <1>2, <2>1, <2>2, <2>3 DEF RepliesHold, ReplyHolds
  <2> QED BY <1>1, <1>3, <2>1, <2>4, DaemonKeeps
<1>5. CASE replies' = <<Plain("REFUSED")>> /\ UNCHANGED worker
  <2>1. RepliesHold'
    <3>1. PICK r : replies' = <<r>> /\ r.to = request /\ r.status = "REFUSED"
      <4>1. Plain("REFUSED").to = request /\ Plain("REFUSED").status = "REFUSED"
        BY PlainFields
      <4> QED BY <1>5, <4>1
    <3> QED BY <1>2, <3>1, NoNews
  <2> QED BY <1>1, <1>3, <1>5, <2>1, DaemonKeeps
<1> QED BY <1>4, <1>5 DEF ServeAuth

LEMMA ServeReadKeeps ==
    ASSUME IInv, ServeRead
    PROVE  IInv'
<1>1. Waiting /\ UNCHANGED <<client, version, worker>>
  BY DEF ServeRead, daemon
<1>2. UNCHANGED <<request, transport, receipts>>
  BY <1>1 DEF client
<1>3. /\ screen = "wait" /\ transport.fd \in Conns /\ worker' \in [Conns -> Places] /\ Grown
  BY <1>1, AtWork, Growing DEF IInv
<1>4. ASSUME RepliesHold' PROVE IInv'
  BY <1>1, <1>3, <1>4, DaemonKeeps
<1>5. CASE request.op = "JOIN" /\ replies' = <<JoinAnswer(request.id)>>
  <2> DEFINE r == JoinAnswer(request.id)
  <2>1. /\ r.to = request
        /\ r.status = "OK" => request.id \in Eligible /\ r.prior = version[request.id]
    <3>1. CASE request.id \in Eligible /\ r = Reply("OK", phase[request.id], version[request.id], None)
      <4> DEFINE p == phase[request.id]
                 v == version[request.id]
      <4> HIDE DEF r, p, v
      <4>1. r = Reply("OK", p, v, None)
        BY <3>1 DEF p, v
      <4>2. r.to = request /\ r.prior = v
        BY <4>1 DEF Reply
      <4> QED BY <3>1, <4>2 DEF v
    <3>2. CASE r \in {Plain("NOT_FOUND"), Plain("NOT_ELIGIBLE"), Plain("NOT_OPEN")}
      <4> HIDE DEF r
      <4>1. r.to = request /\ r.status \in {"NOT_FOUND", "NOT_ELIGIBLE", "NOT_OPEN"}
        BY <3>2, PlainFields
      <4> QED BY <4>1
    <3> QED BY <3>1, <3>2, ClientAssumption DEF JoinAnswer
  <2> HIDE DEF r
  <2>2. ASSUME r.status = "OK"
        PROVE  /\ request.id \in Eligible /\ r.prior \in Nat /\ r.prior <= version[request.id]
               /\ r.prior = 0 => \A x \in receipts : x.id # request.id
    <3>1. request.id \in Eligible /\ request.id \in Elections /\ r.prior = version[request.id]
      BY <2>1, <2>2, ClientAssumption
    <3>2. r.prior \in Nat
      BY <3>1 DEF IInv, TypeOK
    <3>3. \A n \in Nat : n <= n /\ ~(0 < n /\ n <= 0)
      BY SMT
    <3>4. ASSUME r.prior = 0, NEW x \in receipts, x.id = request.id PROVE FALSE
      <4>1. x.version \in Nat /\ 0 < x.version /\ x.version <= 0
        BY <3>1, <3>4, ReceiptFields DEF IInv, SessionHolds
      <4> QED BY <3>3, <4>1
    <3> QED BY <3>1, <3>2, <3>3, <3>4
  <2>3. PICK a : a = r
    OBVIOUS
  <2>4. Head(replies') = a /\ replies' = <<a>>
    BY <1>5, <2>3, OneReply DEF r
  <2>5. RepliesHold'
    BY <1>1, <1>2, <1>5, <2>1, <2>2, <2>3, <2>4 DEF RepliesHold, ReplyHolds
  <2> QED BY <1>4, <2>5
<1>6. CASE request.op = "CHECK" /\ replies' = <<CheckAnswer(request.rcpt, request.id)>>
  <2> DEFINE id == request.id
             c == request.rcpt
  <2>1. PICK a : /\ replies' = <<a>> /\ a.to = request
                 /\ a.status = "NOT_FOUND" => id \notin Elections \/ c # [id |-> id, version |-> version[id]]
    <3>1. CASE replies' = <<Plain("OK")>>
      <4>1. Plain("OK").to = request /\ Plain("OK").status = "OK"
        BY PlainFields
      <4> QED BY <3>1, <4>1
    <3>2. CASE /\ replies' = <<Plain("NOT_FOUND")>>
               /\ id \notin Elections \/ c # [id |-> id, version |-> version[id]]
      <4>1. Plain("NOT_FOUND").to = request
        BY PlainFields
      <4> QED BY <3>2, <4>1
    <3> QED BY <1>6, <3>1, <3>2 DEF CheckAnswer
  <2>2. ASSUME a.status = "NOT_FOUND", id = c.id PROVE c.version < version[id]
    <3>1. c \in receipts
      BY <1>3, <1>6 DEF IInv, RequestHolds
    <3>2. c.id \in Elections /\ c.version \in Nat /\ c.version <= version[id]
      BY <2>2, <3>1, ReceiptFields DEF IInv, SessionHolds
    <3>3. version[id] \in Nat
      BY <2>2, <3>2 DEF IInv, TypeOK
    <3>4. c.version # version[id]
      <4> SUFFICES ASSUME c.version = version[id] PROVE c = [id |-> id, version |-> version[id]]
        BY <2>1, <2>2, <3>2
      <4>1. c \in [id : Eligible, version : Nat]
        BY <3>1 DEF IInv, TypeOK
      <4> HIDE DEF c, id
      <4> QED BY <2>2, <4>1, SMT
    <3>5. \A m, n \in Nat : m <= n /\ m # n => m < n
      BY SMT
    <3> QED BY <3>2, <3>3, <3>4, <3>5
  <2>3. Head(replies') = a
    BY <2>1, OneReply
  <2>4. RepliesHold'
    BY <1>1, <1>2, <1>6, <2>1, <2>2, <2>3 DEF RepliesHold, ReplyHolds
  <2> QED BY <1>4, <2>4
<1>7. CASE request.op = "RESULTS" /\ replies' = <<ResultsAnswer(request.id)>>
  <2>1. PICK a : replies' = <<a>> /\ a.to = request
    <3>1. \A st \in {"NOT_FOUND", "NOT_PUBLISHED", "OK"} : Plain(st).to = request
      BY PlainFields
    <3>2. ResultsAnswer(request.id) \in {Plain("NOT_FOUND"), Plain("NOT_PUBLISHED"), Plain("OK")}
      BY DEF ResultsAnswer
    <3> QED BY <1>7, <3>1, <3>2
  <2>2. Head(replies') = a
    BY <2>1, OneReply
  <2>3. RepliesHold'
    BY <1>2, <1>7, <2>1, <2>2 DEF RepliesHold, ReplyHolds
  <2> QED BY <1>4, <2>3
<1> QED BY <1>5, <1>6, <1>7 DEF ServeRead

LEMMA ServeBallotKeeps ==
    ASSUME IInv, ServeBallot
    PROVE  IInv'
<1>1. Waiting /\ request.op \in {"CAST", "UPDATE"} /\ UNCHANGED <<client, worker>>
  BY DEF ServeBallot, Casting
<1>2. UNCHANGED <<request, transport, session, receipts>>
  BY <1>1 DEF client
<1>3. /\ screen = "wait" /\ transport.fd \in Conns /\ worker' \in [Conns -> Places]
  BY <1>1, AtWork
<1> DEFINE id == request.id
<1>4. /\ session.joined /\ id = session.id /\ id \in Elections /\ session.version \in Nat
      /\ session.version <= version[id]
  BY <1>1, <1>3, ClientAssumption DEF IInv, RequestHolds, SessionHolds, TypeOK
<1>5. CASE /\ version' = [version EXCEPT ![id] = version[id] + 1]
           /\ replies' = <<Reply("OK", None, 0, [id |-> id, version |-> version'[id]])>>
  <2>1. /\ Grown /\ version'[id] \in Nat /\ 0 < version'[id] /\ version[id] < version'[id]
        /\ version'[id] <= version'[id]
    BY <1>4, <1>5, Growing DEF IInv
  <2>2. PICK v : v = version'[id]
    OBVIOUS
  <2>3. PICK r : replies' = <<r>> /\ r.to = request /\ r.status = "OK" /\ r.rcpt = [id |-> id, version |-> v]
    <3> DEFINE x == [id |-> id, version |-> v]
               r == Reply("OK", None, 0, x)
    <3> HIDE DEF x
    <3>1. r.to = request /\ r.status = "OK" /\ r.rcpt = x
      BY DEF Reply
    <3>2. replies' = <<r>>
      BY <1>5, <2>2 DEF x
    <3> HIDE DEF r
    <3> QED BY <3>1, <3>2 DEF x
  <2>4. /\ r.rcpt \in [id : {id}, version : Nat] /\ 0 < r.rcpt.version
        /\ r.rcpt.version <= version'[id]
    <3>1. v \in Nat /\ 0 < v /\ v <= version'[id]
      BY <2>1, <2>2
    <3> HIDE DEF id
    <3>2. r.rcpt.version = v /\ r.rcpt \in [id : {id}, version : Nat]
      BY <2>3, <3>1, SMT
    <3> QED BY <3>1, <3>2
  <2>5. session.version < version'[id]
    <3> DEFINE a == session.version
               b == version[id]
               c == version'[id]
    <3>1. a \in Nat /\ b \in Nat /\ c \in Nat /\ a <= b /\ b < c
      BY <1>4, <2>1 DEF IInv, TypeOK
    <3> HIDE DEF a, b, c
    <3>2. a < c
      BY <3>1, SMT
    <3> QED BY <3>2 DEF a, c
  <2>6. Head(replies') = r
    BY <2>3, OneReply
  <2>7. RepliesHold'
    BY <1>1, <1>2, <2>3, <2>4, <2>5, <2>6 DEF RepliesHold, ReplyHolds
  <2> QED BY <1>1, <1>3, <2>1, <2>7, DaemonKeeps
<1>6. CASE replies' = <<Plain("CLOSED")>> /\ UNCHANGED version
  <2>1. PICK r : replies' = <<r>> /\ r.to = request /\ r.status = "CLOSED"
    <3>1. Plain("CLOSED").to = request /\ Plain("CLOSED").status = "CLOSED"
      BY PlainFields
    <3> QED BY <1>6, <3>1
  <2>2. RepliesHold'
    BY <1>2, <2>1, NoNews
  <2> QED BY <1>1, <1>3, <1>6, <2>2, DaemonKeeps, Growing DEF IInv
<1> QED BY <1>5, <1>6 DEF ServeBallot

LEMMA StoreErrorKeeps ==
    ASSUME IInv, ServeStoreError
    PROVE  IInv'
<1>1. Waiting /\ replies' = <<Plain("DB")>> /\ UNCHANGED <<client, worker>>
  BY DEF ServeStoreError
<1>2. request' = request
  BY <1>1 DEF client
<1>3. /\ screen = "wait" /\ worker' \in [Conns -> Places]
  BY <1>1, AtWork
<1>4. Grown
  <2>1. CASE UNCHANGED version
    BY <2>1, Growing DEF IInv
  <2>2. CASE Casting /\ version' = [version EXCEPT ![request.id] = version[request.id] + 1]
    <3>1. request.id \in Elections
      BY <1>3, <2>2, ClientAssumption DEF Casting, IInv, RequestHolds, SessionHolds
    <3> QED BY <2>2, <3>1, Growing DEF IInv
  <2> QED BY <2>1, <2>2 DEF ServeStoreError
<1>5. PICK r : replies' = <<r>> /\ r.to = request /\ r.status = "DB"
  <2>1. Plain("DB").to = request /\ Plain("DB").status = "DB"
    BY PlainFields
  <2> QED BY <1>1, <2>1
<1>6. RepliesHold'
  BY <1>2, <1>5, NoNews
<1> QED BY <1>1, <1>3, <1>4, <1>6, DaemonKeeps

LEMMA DamageKeeps ==
    ASSUME IInv, ReplyDamaged
    PROVE  IInv'
<1>1. /\ screen = "wait" /\ replies # <<>> /\ UNCHANGED <<client, worker, version>>
      /\ request' = request
  BY DEF ReplyDamaged, client
<1>2. PICK r : replies' = <<r>> /\ r.to = Head(replies).to /\ r.status = "DAMAGED"
  <2> DEFINE a == Head(replies)
             d == [to |-> a.to, status |-> "DAMAGED", state |-> a.state, prior |-> a.prior,
                   rcpt |-> a.rcpt]
  <2>1. replies' = <<d>>
    BY DEF ReplyDamaged
  <2>2. d.to = a.to /\ d.status = "DAMAGED"
    OBVIOUS
  <2> HIDE DEF d
  <2> QED BY <2>1, <2>2
<1>3. r.to = request
  BY <1>1, <1>2 DEF IInv, RepliesHold, ReplyHolds
<1>4. RepliesHold'
  BY <1>1, <1>2, <1>3, NoNews
<1>5. Grown /\ worker' \in [Conns -> Places]
  BY <1>1, Growing DEF IInv, TypeOK, Places
<1> QED BY <1>1, <1>4, <1>5, DaemonKeeps

LEMMA EndKeeps ==
    ASSUME IInv, WorkerEnds
    PROVE  IInv'
<1>1. /\ transport # None /\ worker' = [worker EXCEPT ![transport.fd] = "gone"] /\ replies' = <<>>
      /\ UNCHANGED <<client, version>>
  BY DEF WorkerEnds
<1>2. transport.fd \in Conns
  <2>1. transport \in [fd : Conns, connected : BOOLEAN]
    BY <1>1 DEF IInv, TypeOK
  <2> QED BY <2>1
<1>3. worker' \in [Conns -> Places] /\ worker'[transport.fd] = "gone"
  BY <1>1, <1>2 DEF IInv, TypeOK, Places
<1>4. Grown /\ RepliesHold'
  BY <1>1, Growing DEF IInv, RepliesHold
<1> QED BY <1>1, <1>3, <1>4, DaemonKeeps

\* The operator and the voter's other machine.
LEMMA ElsewhereKeeps ==
    ASSUME IInv, Elsewhere
    PROVE  IInv'
<1>1. UNCHANGED <<client, replies, worker>>
  BY DEF Elsewhere
<1>2. UNCHANGED <<screen, transport, session, request, receipts>>
  BY <1>1 DEF client
<1>3. Grown
  <2>1. PICK e \in Eligible : UNCHANGED version \/ version' = [version EXCEPT ![e] = version[e] + 1]
    BY DEF Elsewhere
  <2>2. e \in Elections
    BY ClientAssumption
  <2> QED BY <2>1, <2>2, Growing DEF IInv
<1>4. worker' \in [Conns -> Places]
  BY <1>1 DEF IInv, TypeOK, Places
<1>5. RepliesHold'
  <2> SUFFICES ASSUME replies # <<>> PROVE replies = <<Head(replies)>> /\ ReplyHolds(Head(replies))'
    BY <1>1 DEF RepliesHold
  <2>1. PICK r : r = Head(replies) /\ replies = <<r>> /\ ReplyHolds(r)
    BY DEF IInv, RepliesHold
  <2>2. screen = "wait"
    BY DEF IInv, RequestHolds
  <2>3. ASSUME r.status = "OK", request.op = "JOIN" PROVE r.prior <= version'[request.id]
    <3>1. request.id \in Elections /\ r.prior \in Nat /\ r.prior <= version[request.id]
      BY <2>1, <2>3, ClientAssumption DEF ReplyHolds
    <3> QED BY <1>3, <3>1, Below DEF IInv
  <2>4. ASSUME r.status = "OK", request.op \in {"CAST", "UPDATE"}
        PROVE  r.rcpt.version <= version'[request.id] /\ session.version < version'[request.id]
    <3>1. request.id \in Elections /\ session.version \in Nat
      BY <2>2, <2>4, ClientAssumption DEF IInv, TypeOK, RequestHolds, SessionHolds
    <3>2. /\ r.rcpt \in [id : {request.id}, version : Nat] /\ r.rcpt.version <= version[request.id]
          /\ session.version < version[request.id]
      BY <2>1, <2>4 DEF ReplyHolds
    <3>3. r.rcpt.version \in Nat
      BY <3>2
    <3> QED BY <1>3, <3>1, <3>2, <3>3, Below DEF IInv
  <2>5. ASSUME r.status = "NOT_FOUND", request.op = "CHECK", request.id = request.rcpt.id
        PROVE  request.rcpt.version < version'[request.id]
    <3>1. request.rcpt \in receipts
      BY <2>2, <2>5 DEF IInv, RequestHolds
    <3>2. request.id \in Elections /\ request.rcpt.version \in Nat
      BY <2>5, <3>1, ReceiptFields DEF IInv
    <3>3. request.rcpt.version < version[request.id]
      BY <2>1, <2>5 DEF ReplyHolds
    <3> QED BY <1>3, <3>2, <3>3, Below DEF IInv
  <2>6. ReplyHolds(r)'
    BY <1>1, <1>2, <2>1, <2>3, <2>4, <2>5 DEF ReplyHolds
  <2> QED BY <1>1, <2>1, <2>6
<1>6. screen # "wait" => replies' = <<>>
  BY <1>1 DEF IInv, RequestHolds
<1> QED BY <1>1, <1>3, <1>4, <1>5, <1>6, DaemonKeeps

-----------------------------------------------------------------------------
(* What is promised. *)

LEMMA ClientInitHolds ==
    ASSUME Init
    PROVE  IInv
<1>1. 0 \in Nat
  BY SMT
<1>2. NoSession.joined = FALSE /\ NoSession.version = 0
  BY DEF NoSession
<1>3. TypeOK
  BY <1>1, <1>2 DEF Init, TypeOK
<1>4. ConnHolds /\ RequestHolds /\ RepliesHold /\ VerdictHolds
  BY DEF Init, ConnHolds, Asking, RequestHolds, RepliesHold, VerdictHolds
<1>5. SessionHolds
  BY <1>2 DEF Init, SessionHolds
<1> QED BY <1>3, <1>4, <1>5 DEF IInv

LEMMA ClientStepHolds ==
    ASSUME IInv, [Next]_vars
    PROVE  IInv'
<1>1. CASE \/ screen_connect \/ Quit \/ screen_auth \/ screen_credential_flow
           \/ screen_join_election \/ screen_view_results \/ screen_check_vote
           \/ cast_common \/ bu_submit_vote \/ CancelVote
  BY <1>1, ConnectKeeps, QuitKeeps, AuthKeeps, CredentialKeeps, MenuKeeps, BallotKeeps, SubmitKeeps
<1>2. CASE Receive \/ SessionLost \/ voter_menu \/ offer_reconnect
  BY <1>2, ReceiveKeeps, LostKeeps, BackKeeps
<1>3. CASE \/ ServeAuth \/ ServeRead \/ ServeBallot \/ ServeStoreError
           \/ ReplyDamaged \/ WorkerEnds \/ Elsewhere
  BY <1>3, ServeAuthKeeps, ServeReadKeeps, ServeBallotKeeps, StoreErrorKeeps, DamageKeeps, EndKeeps,
     ElsewhereKeeps
<1>4. CASE UNCHANGED vars
  <2>1. UNCHANGED <<screen, transport, session, shown, request, replies, worker, version, receipts, verdict>>
    BY <1>4 DEF vars
  <2>2. TypeOK' /\ ConnHolds'
    BY <2>1 DEF IInv, TypeOK, ConnHolds, Asking, bcl_connected, Conns
  <2>3. SessionHolds' /\ VerdictHolds'
    BY <2>1 DEF IInv, SessionHolds, VerdictHolds, Outside
  <2>4. RequestHolds' /\ RepliesHold'
    BY <2>1 DEF IInv, RequestHolds, RepliesHold, ReplyHolds
  <2> QED BY <2>2, <2>3, <2>4 DEF IInv
<1> QED BY <1>1, <1>2, <1>3, <1>4 DEF Next

\* The inductive invariant holds of every reachable state.
THEOREM ClientInvariant == Spec => []IInv
<1>1. Init => IInv
  BY ClientInitHolds
<1>2. IInv /\ [Next]_vars => IInv'
  BY ClientStepHolds
<1> QED BY <1>1, <1>2, PTL DEF Spec

\* Whatever fails and whatever else the voter tried, a ballot goes to the election the
\* status bar names, is a first one only for who holds no receipt of that election,
\* and the version shown is never above the store's (bu_join, bu_submit_vote).
THEOREM VoterVotesAsShown == Spec => []VotesAsShown
<1>1. IInv => VotesAsShown
  <2> SUFFICES ASSUME IInv PROVE VotesAsShown
    OBVIOUS
  <2>1. request # None => screen = "wait"
    BY DEF IInv, RequestHolds
  <2>2. screen \in {"menu", "ballot"} => bcl_connected /\ worker[transport.fd] \in {"voter", "gone"}
    BY DEF IInv, ConnHolds
  <2> QED BY <2>1, <2>2 DEF IInv, RequestHolds, SessionHolds, VotesAsShown
<1> QED BY <1>1, ClientInvariant, PTL

\* No failure of daemon, store or wire is shown as a dropped ballot (bu_classify_check).
THEOREM NoBallotMissed == Spec => []NoFalseAlarm
<1>1. IInv => NoFalseAlarm
  <2> SUFFICES ASSUME IInv, verdict # None, verdict.outcome = "DROPPED", verdict.id = verdict.rcpt.id
               PROVE  version[verdict.id] > verdict.rcpt.version
    BY DEF NoFalseAlarm
  <2>1. verdict.rcpt \in receipts /\ verdict.rcpt.version < version[verdict.id]
    BY DEF IInv, VerdictHolds
  <2>2. verdict.id \in Elections /\ verdict.rcpt.version \in Nat
    BY <2>1, ReceiptFields DEF IInv
  <2>3. version[verdict.id] \in Nat
    BY <2>2 DEF IInv, TypeOK
  <2>4. \A m, n \in Nat : m < n => n > m
    BY SMT
  <2> QED BY <2>1, <2>2, <2>3, <2>4
<1> QED BY <1>1, ClientInvariant, PTL

\* A screen reads the answer to the request it sent (send_via_session).
THEOREM EachItsOwnAnswer == Spec => AnswersItsRequest
<1>1. IInv => \A r \in {replies[i] : i \in 1..Len(replies)} : r.to = request
  <2> SUFFICES ASSUME IInv, NEW i \in 1..Len(replies) PROVE replies[i].to = request
    OBVIOUS
  <2>1. CASE replies = <<>>
    <3>1. i \notin 1..Len(<<>>)
      BY SMT
    <3> QED BY <2>1, <3>1
  <2>2. CASE replies # <<>>
    <3>1. PICK r : replies = <<r>> /\ r.to = request
      BY <2>2 DEF IInv, RepliesHold, ReplyHolds
    <3>2. i \in 1..Len(<<r>>) => <<r>>[i] = r
      BY SMT
    <3> QED BY <3>1, <3>2
  <2> QED BY <2>1, <2>2
<1>2. IInv => [\A r \in {replies[i] : i \in 1..Len(replies)} :
                 (request # None /\ request' = None) => r.to = request]_vars
  BY <1>1
<1> QED BY <1>2, ClientInvariant, PTL DEF AnswersItsRequest

-----------------------------------------------------------------------------
(* Creation of elections: ids. *)

\* The fields of an election.
LEMMA Fields ==
    \A e \in [row : Nat, id : ElectionIds, seq : Int, cfg : Configs] :
       e.row \in Nat /\ e.id \in ElectionIds /\ e.seq \in Int /\ e.cfg \in Configs
  BY SMT

\* The largest of a set that has one.
LEMMA MaxIs ==
    ASSUME NEW S, \E m \in S : \A n \in S : m >= n
    PROVE  Max(S) \in S /\ \A n \in S : Max(S) >= n
  BY DEF Max

\* An int stays as it is, and the conversion makes an int of every number.
LEMMA IntStays ==
    ASSUME NEW v \in Int
    PROVE  ToInt(v) \in Int /\ ToInt(v) <= IntMax /\ (v <= IntMax => ToInt(v) = v)
<1>1. IntMax \in Nat
  BY CreateAssumption
<1>2. 2 * (IntMax + 1) \in Nat \ {0}
  BY <1>1, SMT
<1>3. ASSUME NEW d \in Nat \ {0} PROVE (v + IntMax + 1) % d \in 0..d - 1
  BY <1>1, <1>3, SMT
<1>4. (v + IntMax + 1) % (2 * (IntMax + 1)) \in 0..2 * (IntMax + 1) - 1
  BY <1>2, <1>3
<1> DEFINE w == (v + IntMax + 1) % (2 * (IntMax + 1))
<1> HIDE DEF w
<1>5. w - (IntMax + 1) \in Int /\ w - (IntMax + 1) <= IntMax
  <2>1. w \in 0..2 * (IntMax + 1) - 1
    BY <1>4 DEF w
  <2> QED BY <1>1, <2>1, SMT
<1> QED BY <1>5 DEF ToInt, w

\* The number in an id is an int, and that of an id with a natural number is this number.
LEMMA SeqIs == /\ \A id \in ElectionIds : id_seq(id) \in Int /\ id_seq(id) <= IntMax
           /\ \A id, n : id.n = n /\ n \in 0..IntMax => id_seq(id) = n
<1>1. ASSUME NEW id \in ElectionIds PROVE id_seq(id) \in Int /\ id_seq(id) <= IntMax
  <2>1. id.n \in Int \cup {Nil}
    <3>1. CASE id \in Typed
      BY <3>1, CreateAssumption
    <3>2. CASE id \in [p : {"E"}, n : Int]
      BY <3>2, SMT
    <3> QED BY <3>1, <3>2 DEF ElectionIds
  <2> DEFINE n == id.n
  <2> HIDE DEF n
  <2>2. CASE n = Nil
    <3>1. id_seq(id) = 0
      BY <2>2 DEF id_seq, n
    <3>2. IntMax \in Nat
      BY CreateAssumption
    <3>3. 0 \in Int /\ 0 <= IntMax
      BY <3>2, SMT
    <3> QED BY <3>1, <3>3
  <2>3. CASE n # Nil
    <3>1. n \in Int /\ -n \in Int
      <4>1. n \in Int
        BY <2>1, <2>3 DEF n
      <4> QED BY <4>1, SMT
    <3>2. ToInt(n) \in Int /\ ToInt(-n) \in Int /\ ToInt(n) <= IntMax /\ ToInt(-n) <= IntMax
      BY <3>1, IntStays
    <3>3. id_seq(id) = IF n < 0 THEN ToInt(-n) ELSE ToInt(n)
      BY <2>3 DEF id_seq, n
    <3> QED BY <3>2, <3>3
  <2> QED BY <2>2, <2>3
<1>2. ASSUME NEW id, NEW n \in 0..IntMax, id.n = n PROVE id_seq(id) = n
  <2>1. n \in Int /\ ~(n < 0) /\ n <= IntMax
    <3>1. IntMax \in Nat
      BY CreateAssumption
    <3> QED BY <3>1, SMT
  <2>2. n # Nil
    BY <2>1, CreateAssumption
  <2>3. ToInt(n) = n
    BY <2>1, IntStays
  <2> QED BY <1>2, <2>1, <2>2, <2>3 DEF id_seq
<1> QED BY <1>1, <1>2

\* An allocated id is in use nowhere, unless the largest int is (bb_alloc_id).
LEMMA AllocFresh ==
    ASSUME CreateTypeOK, IdsHold
    PROVE  /\ bb_alloc_id \in ElectionIds /\ bb_alloc_idBlind \in ElectionIds
           /\ ~Overflows => \A e \in elections : e.id # bb_alloc_id
<1>c. IntMax \in Nat /\ First \in 0..IntMax /\ First \in Int
  <2>1. IntMax \in Nat /\ First \in 0..IntMax
    BY CreateAssumption
  <2> QED BY <2>1, SMT
<1>s. Seqs \subseteq Int /\ \A e \in elections : e.seq \in Seqs
  <2>1. \A e \in elections : e.seq \in Int
    BY Fields DEF CreateTypeOK
  <2> QED BY <2>1 DEF Seqs
<1>m. Seqs # {} => Max(Seqs) \in Seqs /\ (\A n \in Seqs : Max(Seqs) >= n) /\ Max(Seqs) \in Int
  <2> SUFFICES ASSUME Seqs # {} PROVE Max(Seqs) \in Seqs /\ (\A n \in Seqs : Max(Seqs) >= n)
    BY <1>s
  <2>1. elections # {}
    BY DEF Seqs
  <2> QED BY <2>1, MaxIs DEF IdsHold
<1> DEFINE m == Max(Seqs)
<1> DEFINE k == IF Seqs = {} \/ m < 0 THEN First ELSE nextNumber
<1>1. k \in Int
  <2>1. CASE Seqs = {} \/ m < 0
    BY <1>c, <2>1
  <2>2. CASE Seqs # {} /\ ~(m < 0)
    <3>1. m \in Int
      BY <1>m, <2>2
    <3> HIDE DEF m
    <3>2. m + 1 \in Int /\ -(IntMax + 1) \in Int
      BY <1>c, <3>1, SMT
    <3> QED BY <2>2, <3>2 DEF nextNumber, m
  <2> QED BY <2>1, <2>2
<1>2. bb_alloc_id = [p |-> "E", n |-> k]
  BY DEF bb_alloc_id
<1>3. [p |-> "E", n |-> k] \in ElectionIds /\ [p |-> "E", n |-> First] \in ElectionIds
  <2> HIDE DEF k
  <2> QED BY <1>1, <1>c DEF ElectionIds
<1>4. ASSUME ~Overflows, NEW e \in elections, e.id = bb_alloc_id PROVE FALSE
  <2>1. Seqs # {} /\ e.seq \in Seqs /\ e.seq = id_seq(e.id)
    BY <1>s, <1>4 DEF IdsHold
  <2>2. m \in Int /\ m >= e.seq /\ m # IntMax /\ m \in Seqs /\ e.seq \in Int
    BY <1>m, <1>s, <1>4, <2>1 DEF Overflows
  <2>3. m <= IntMax
    <3>1. PICK f \in elections : f.seq = m
      BY <2>2 DEF Seqs
    <3>2. f.id \in ElectionIds /\ f.seq = id_seq(f.id)
      BY Fields DEF CreateTypeOK, IdsHold
    <3>3. id_seq(f.id) <= IntMax
      BY <3>2, SeqIs
    <3> HIDE DEF m
    <3> QED BY <3>1, <3>2, <3>3, SMT
  <2>4. k \in 0..IntMax /\ (m >= k => m < 0)
    <3>1. CASE m < 0
      BY <1>c, <3>1
    <3>2. CASE ~(m < 0)
      <4>1. k = m + 1
        BY <2>1, <2>2, <3>2 DEF nextNumber
      <4> HIDE DEF m
      <4>2. m + 1 \in 0..IntMax /\ ~(m >= m + 1)
        BY <1>c, <2>2, <2>3, <3>2, SMT
      <4> QED BY <4>1, <4>2
    <3> QED BY <3>1, <3>2
  <2>5. e.seq = k
    <3> HIDE DEF k
    <3>1. e.id.n = k
      BY <1>2, <1>4, SMT
    <3> QED BY <2>1, <2>4, <3>1, SeqIs
  <2>6. m < 0 /\ k = First
    BY <2>1, <2>2, <2>4, <2>5
  <2>7. m >= First
    BY <2>2, <2>5, <2>6
  <2> HIDE DEF m
  <2> QED BY <1>c, <2>2, <2>6, <2>7, SMT
<1> QED BY <1>2, <1>3, <1>4 DEF bb_alloc_idBlind

-----------------------------------------------------------------------------
(* The rows of a transaction. *)

\* The fields of a job.
LEMMA JobFields ==
    \A j \in Jobs : /\ j.o \in Operators /\ j.id \in ElectionIds /\ j.cfg \in Configs
                    /\ j.row \in Nat /\ j.k \in Nat /\ j.attempt \in Nat
  BY SMT DEF Jobs

\* The numbers of the options and of the voters that are in before statement k.
Before(n, k) == {i \in 0..n - 1 : i + 1 < k}
Beyond(n, m, k) == {i \in 1..m : i + n < k}

\* The rows of options and of voters with the numbers in S.
OptionRows(r, d, S) == {[row |-> r, id |-> d, idx |-> i] : i \in S}
VoterRows(r, d, S) == {[row |-> r, id |-> d, who |-> i] : i \in S}

LEMMA RowsMade ==
    ASSUME NEW r, NEW d, NEW S
    PROVE  /\ \A x \in OptionRows(r, d, S) : x.row = r
           /\ \A x \in VoterRows(r, d, S) : x.row = r
           /\ {x.idx : x \in OptionRows(r, d, S)} = S
           /\ {x.who : x \in VoterRows(r, d, S)} = S
<1>1. \A x \in OptionRows(r, d, S) : x.row = r
  BY SMT DEF OptionRows
<1>2. \A x \in VoterRows(r, d, S) : x.row = r
  BY SMT DEF VoterRows
<1>3. {x.idx : x \in OptionRows(r, d, S)} = S
  <2> DEFINE R(i) == [row |-> r, id |-> d, idx |-> i]
  <2>1. OptionRows(r, d, S) = {R(i) : i \in S} /\ \A i : R(i).idx = i
    BY DEF OptionRows
  <2> HIDE DEF R
  <2>2. ASSUME NEW i \in S PROVE \E x \in OptionRows(r, d, S) : x.idx = i
    BY <2>1
  <2>3. ASSUME NEW x \in OptionRows(r, d, S) PROVE x.idx \in S
    BY <2>1
  <2> QED BY <2>2, <2>3
<1>4. {x.who : x \in VoterRows(r, d, S)} = S
  <2> DEFINE R(i) == [row |-> r, id |-> d, who |-> i]
  <2>1. VoterRows(r, d, S) = {R(i) : i \in S} /\ \A i : R(i).who = i
    BY DEF VoterRows
  <2> HIDE DEF R
  <2>2. ASSUME NEW i \in S PROVE \E x \in VoterRows(r, d, S) : x.who = i
    BY <2>1
  <2>3. ASSUME NEW x \in VoterRows(r, d, S) PROVE x.who \in S
    BY <2>1
  <2> QED BY <2>2, <2>3
<1> QED BY <1>1, <1>2, <1>3, <1>4

\* The rows of one election among others.
LEMMA RowsApart ==
    ASSUME NEW A, NEW B, NEW r, \A x \in A : x.row # r, \A x \in B : x.row = r
    PROVE  {y \in A \cup B : y.row = r} = B
  OBVIOUS

\* Nil before the first statement, all after the last, one more with each.
LEMMA Counting ==
    ASSUME NEW n \in Nat, NEW m \in Nat, NEW k \in Nat
    PROVE  /\ Before(n, 0) = {} /\ Beyond(n, m, 0) = {}
           /\ Before(n, 1 + n + m) = 0..n - 1 /\ Beyond(n, m, 1 + n + m) = 1..m
           /\ Before(n, k + 1) = Before(n, k) \cup (IF k \in 1..n THEN {k - 1} ELSE {})
<1>1. Before(n, 0) = {} /\ Beyond(n, m, 0) = {}
  BY SMT DEF Before, Beyond
<1>2. Before(n, 1 + n + m) = 0..n - 1
  BY SMT DEF Before
<1>3. Beyond(n, m, 1 + n + m) = 1..m
  BY SMT DEF Beyond
<1>4. Before(n, k + 1) = Before(n, k) \cup (IF k \in 1..n THEN {k - 1} ELSE {})
  BY SMT DEF Before
<1> QED BY <1>1, <1>2, <1>3, <1>4

LEMMA CountingOn ==
    ASSUME NEW n \in Nat, NEW m \in Nat, NEW k \in Nat, k < 1 + n + m
    PROVE  Beyond(n, m, k + 1) = Beyond(n, m, k) \cup (IF k > n THEN {k - n} ELSE {})
  BY SMT DEF Beyond

\* The same of the rows of a job.
LEMMA RowsOf ==
    ASSUME NEW j \in Jobs
    PROVE  /\ j.cfg.options \in Nat /\ j.cfg.eligible \in Nat
           /\ OptionsOf(j) = OptionRows(j.row, j.id, Before(j.cfg.options, j.k))
           /\ EligibleOf(j) = VoterRows(j.row, j.id, Beyond(j.cfg.options, j.cfg.eligible, j.k))
           /\ j.k = 0 => OptionsOf(j) = {} /\ EligibleOf(j) = {}
<1>1. j.cfg.options \in Nat /\ j.cfg.eligible \in Nat /\ j.k \in Nat
  BY JobFields, CreateAssumption
<1>2. /\ OptionsOf(j) = OptionRows(j.row, j.id, Before(j.cfg.options, j.k))
      /\ EligibleOf(j) = VoterRows(j.row, j.id, Beyond(j.cfg.options, j.cfg.eligible, j.k))
  BY DEF OptionsOf, EligibleOf, Before, Beyond, OptionRows, VoterRows
<1>3. ASSUME j.k = 0 PROVE OptionsOf(j) = {} /\ EligibleOf(j) = {}
  <2>1. Before(j.cfg.options, j.k) = {} /\ Beyond(j.cfg.options, j.cfg.eligible, j.k) = {}
    BY <1>1, <1>3, Counting
  <2> QED BY <1>2, <2>1 DEF OptionRows, VoterRows
<1> QED BY <1>1, <1>2, <1>3

-----------------------------------------------------------------------------
(* The steps. *)

\* A step that changes one screen, to one that tells the truth.
LEMMA TellKeeps ==
    ASSUME ToldTrue, NEW o \in Operators, NEW u, elections \subseteq elections',
           ui'[o] = u, \A p \in Operators : p # o => ui'[p] = ui[p],
           u.at = "told" =>
             /\ u.told.status = "OK" => \E e \in elections' : e.id = u.told.id /\ e.cfg = u.cfg
             /\ u.told.status = "ID_TAKEN" => \E e \in elections' : e.id = u.told.id
    PROVE  ToldTrue'
<1> SUFFICES ASSUME NEW p \in Operators, ui'[p].at = "told"
             PROVE  /\ ui'[p].told.status = "OK" =>
                          \E e \in elections' : e.id = ui'[p].told.id /\ e.cfg = ui'[p].cfg
                    /\ ui'[p].told.status = "ID_TAKEN" => \E e \in elections' : e.id = ui'[p].told.id
  BY DEF ToldTrue
<1>1. CASE p = o
  BY <1>1
<1>2. CASE p # o
  <2>1. ui'[p] = ui[p]
    BY <1>2
  <2>2. /\ ui[p].told.status = "OK" => \E e \in elections : e.id = ui[p].told.id /\ e.cfg = ui[p].cfg
        /\ ui[p].told.status = "ID_TAKEN" => \E e \in elections : e.id = ui[p].told.id
    BY <2>1 DEF ToldTrue
  <2>3. ui[p].told.status = "OK" => \E e \in elections' : e.id = ui[p].told.id /\ e.cfg = ui[p].cfg
    BY <2>2
  <2>4. ui[p].told.status = "ID_TAKEN" => \E e \in elections' : e.id = ui[p].told.id
    BY <2>2
  <2> QED BY <2>1, <2>3, <2>4
<1> QED BY <1>1, <1>2

\* The rows of the open transaction.
LEMMA TxnIs ==
    ASSUME JobHolds, job # Nil
    PROVE  /\ txn.elections = (IF job.k = 0 THEN {} ELSE {NewElection})
           /\ txn.options = OptionsOf(job) /\ txn.eligible = EligibleOf(job)
<1> DEFINE E == IF job.k = 0 THEN {} ELSE {NewElection}
<1>1. txn = [elections |-> E, options |-> OptionsOf(job), eligible |-> EligibleOf(job)]
  BY DEF JobHolds
<1> HIDE DEF E
<1>2. txn.elections = E /\ txn.options = OptionsOf(job) /\ txn.eligible = EligibleOf(job)
  BY <1>1
<1> QED BY <1>2 DEF E

\* A step of a screen that no request of the admin thread belongs to.
LEMMA ScreenKeeps ==
    ASSUME CreateInv, NEW o \in Operators, NEW u, ui' = [ui EXCEPT ![o] = u],
           UNCHANGED <<job, elections, options, eligible, txn, blind, made>>,
           u.id \in ElectionIds \cup {Nil}, u.at = "sent" => u.cfg \in Configs,
           job # Nil => o # job.o,
           u.at = "told" =>
             /\ u.told.status = "OK" => \E e \in elections : e.id = u.told.id /\ e.cfg = u.cfg
             /\ u.told.status = "ID_TAKEN" => \E e \in elections : e.id = u.told.id
    PROVE  CreateInv'
<1>1. DOMAIN ui' = Operators /\ ui'[o] = u /\ \A p \in Operators : p # o => ui'[p] = ui[p]
  BY DEF CreateInv, CreateTypeOK
<1>2. CreateTypeOK'
  <2>1. \A p \in Operators : /\ ui'[p].id \in ElectionIds \cup {Nil}
                             /\ ui'[p].at = "sent" => ui'[p].cfg \in Configs
    BY <1>1 DEF CreateInv, CreateTypeOK
  <2> QED BY <1>1, <2>1 DEF CreateInv, CreateTypeOK, Statements, Jobs, ElectionIds
<1>3. IdsHold' /\ StoreHolds'
  <2>1. IdsHold'
    BY DEF CreateInv, IdsHold, Seqs, id_seq, ToInt
  <2>2. StoreHolds'
    BY DEF CreateInv, StoreHolds
  <2> QED BY <2>1, <2>2
<1>4. JobHolds'
  <2>1. job # Nil => ui'[job.o] = ui[job.o]
    BY <1>1, JobFields DEF CreateInv, CreateTypeOK
  <2>2. OptionsOf(job)' = OptionsOf(job) /\ EligibleOf(job)' = EligibleOf(job)
    BY DEF OptionsOf, EligibleOf
  <2>3. NewElection' = NewElection
    BY DEF NewElection, id_seq, ToInt
  <2>4. CASE job = Nil
    BY <2>4 DEF CreateInv, JobHolds, NoTxn
  <2>5. CASE job # Nil
    BY <2>1, <2>2, <2>3, <2>5 DEF CreateInv, JobHolds
  <2> QED BY <2>4, <2>5
<1>5. ToldTrue'
  <2>1. ToldTrue /\ elections' = elections /\ elections \subseteq elections'
    BY DEF CreateInv
  <2>2. u.at = "told" =>
          /\ u.told.status = "OK" => \E e \in elections' : e.id = u.told.id /\ e.cfg = u.cfg
          /\ u.told.status = "ID_TAKEN" => \E e \in elections' : e.id = u.told.id
    BY <2>1
  <2> QED BY <1>1, <2>1, <2>2, TellKeeps, SMT
<1> QED BY <1>2, <1>3, <1>4, <1>5 DEF CreateInv

\* The admin thread starts on a request.
LEMMA InsertKeeps ==
    ASSUME CreateInv, NEW o \in Operators, NEW id \in ElectionIds,
           job = Nil, ui[o].at = "sent",
           Insert(o, id), made' = made + 1, UNCHANGED <<ui, elections, options, eligible, txn>>,
           blind' \in BOOLEAN, ~blind' => ~blind /\ \A e \in elections : e.id # id
    PROVE  CreateInv'
<1>1. made \in Nat /\ made' \in Nat /\ made' = made + 1
  <2>1. made \in Nat
    BY DEF CreateInv, CreateTypeOK
  <2> QED BY <2>1, SMT
<1>2. /\ job' \in Jobs /\ job'.k = 0 /\ job'.row = made' /\ job'.o = o /\ job'.cfg = ui[o].cfg
      /\ job'.id = id
  <2>1. job' = [o |-> o, id |-> id, cfg |-> ui[o].cfg, row |-> made', k |-> 0, attempt |-> 1]
    BY <1>1 DEF Insert
  <2>2. ui[o].cfg \in Configs
    BY DEF CreateInv, CreateTypeOK
  <2>3. 0 \in Nat /\ 1 \in Nat
    BY SMT
  <2> QED BY <1>1, <2>1, <2>2, <2>3 DEF Jobs
<1>3. CreateTypeOK'
  <2>1. job'.k <= Statements(job'.cfg)
    <3>1. job'.cfg.options \in Nat /\ job'.cfg.eligible \in Nat
      BY <1>2, RowsOf
    <3> QED BY <1>2, <3>1, SMT DEF Statements
  <2> QED BY <1>1, <1>2, <2>1 DEF CreateInv, CreateTypeOK, Statements, Jobs, ElectionIds
<1>4. IdsHold'
  BY <1>2 DEF CreateInv, IdsHold, Seqs, id_seq, ToInt
<1>5. StoreHolds'
  <2>1. \A e \in elections : e.row <= made /\ e.row \in Nat
    BY Fields DEF CreateInv, StoreHolds, CreateTypeOK
  <2>2. \A r \in Nat : r <= made => r <= made' /\ r < made'
    BY <1>1, SMT
  <2> QED BY <2>1, <2>2 DEF CreateInv, StoreHolds
<1>6. JobHolds'
  <2>1. OptionsOf(job') = {} /\ EligibleOf(job') = {}
    BY <1>2, RowsOf
  <2>2. txn = NoTxn
    BY DEF CreateInv, JobHolds
  <2>3. ui[o].at = "sent" /\ txn = [elections |-> {}, options |-> {}, eligible |-> {}]
    BY <2>2 DEF NoTxn
  <2>4. CASE job' = Nil
    BY <2>2, <2>4 DEF JobHolds, NoTxn
  <2>5. CASE job' # Nil
    BY <1>2, <2>1, <2>3, <2>5 DEF JobHolds, OptionsOf, EligibleOf
  <2> QED BY <2>4, <2>5
<1>7. ToldTrue'
  BY DEF CreateInv, ToldTrue
<1> QED BY <1>3, <1>4, <1>5, <1>6, <1>7 DEF CreateInv

\* The k-th statement of a request inserts its row.
LEMMA StatementKeeps ==
    ASSUME CreateInv, run_insert_election
    PROVE  CreateInv'
<1>1. /\ job # Nil /\ job.k < Statements(job.cfg) /\ txn' = Inserted /\ job' = At(job.k + 1, job.attempt)
      /\ UNCHANGED <<ui, elections, options, eligible, blind, made>>
  BY DEF run_insert_election, op_is_write, store
<1>2. job \in Jobs /\ job.k \in Nat /\ job.cfg.options \in Nat /\ job.cfg.eligible \in Nat
  BY <1>1, RowsOf, JobFields DEF CreateInv, CreateTypeOK
<1>3. job.k + 1 \in Nat /\ job.k + 1 # 0 /\ job.k + 1 <= Statements(job.cfg)
  BY <1>1, <1>2, SMT DEF Statements
<1>4. /\ job' \in Jobs /\ job'.o = job.o /\ job'.id = job.id /\ job'.cfg = job.cfg /\ job'.row = job.row
      /\ job'.k = job.k + 1 /\ job' # Nil
  <2>1. job' \in Jobs
    BY <1>1, <1>2, <1>3, JobFields DEF At, Jobs
  <2> QED BY <1>1, <2>1, CreateAssumption DEF At
<1>5. CreateTypeOK'
  BY <1>1, <1>3, <1>4 DEF CreateInv, CreateTypeOK, Statements, Jobs, ElectionIds
<1>6. IdsHold' /\ StoreHolds' /\ ToldTrue'
  <2>1. IdsHold'
    BY <1>1, <1>4 DEF CreateInv, IdsHold, Seqs, id_seq, ToInt
  <2>2. StoreHolds'
    BY <1>1 DEF CreateInv, StoreHolds
  <2>3. ToldTrue'
    BY <1>1 DEF CreateInv, ToldTrue
  <2> QED BY <2>1, <2>2, <2>3
<1>7. /\ txn.elections = (IF job.k = 0 THEN {} ELSE {NewElection})
      /\ txn.options = OptionsOf(job) /\ txn.eligible = EligibleOf(job)
  BY <1>1, TxnIs DEF CreateInv
<1>8. Inserted.elections = {NewElection}
  <2>1. job.k = 0 \/ job.k # 0
    OBVIOUS
  <2> QED BY <1>7 DEF Inserted
<1>9. Inserted.options = OptionsOf(job')
  <2>1. /\ OptionsOf(job) = OptionRows(job.row, job.id, Before(job.cfg.options, job.k))
        /\ OptionsOf(job') = OptionRows(job.row, job.id, Before(job.cfg.options, job.k + 1))
    BY <1>2, <1>4, RowsOf
  <2>2. Before(job.cfg.options, job.k + 1) =
          Before(job.cfg.options, job.k) \cup (IF job.k \in 1..job.cfg.options THEN {job.k - 1} ELSE {})
    BY <1>2, Counting
  <2>3. Inserted.options = OptionsOf(job) \cup (IF job.k \in 1..job.cfg.options THEN {NewOption} ELSE {})
    BY <1>7 DEF Inserted
  <2>4. CASE job.k \in 1..job.cfg.options
    <3>1. OptionsOf(job') =
            OptionRows(job.row, job.id, Before(job.cfg.options, job.k)) \cup {NewOption}
      BY <2>1, <2>2, <2>4 DEF NewOption, OptionRows
    <3> QED BY <2>1, <2>3, <2>4, <3>1
  <2>5. CASE job.k \notin 1..job.cfg.options
    <3>1. Before(job.cfg.options, job.k + 1) = Before(job.cfg.options, job.k)
      BY <2>2, <2>5
    <3> QED BY <2>1, <2>3, <2>5, <3>1
  <2> QED BY <2>4, <2>5
<1>10. Inserted.eligible = EligibleOf(job')
  <2>1. /\ EligibleOf(job) = VoterRows(job.row, job.id, Beyond(job.cfg.options, job.cfg.eligible, job.k))
        /\ EligibleOf(job') = VoterRows(job.row, job.id, Beyond(job.cfg.options, job.cfg.eligible, job.k + 1))
    BY <1>2, <1>4, RowsOf
  <2>2. Beyond(job.cfg.options, job.cfg.eligible, job.k + 1) =
          Beyond(job.cfg.options, job.cfg.eligible, job.k)
            \cup (IF job.k > job.cfg.options THEN {job.k - job.cfg.options} ELSE {})
    <3>1. job.k < 1 + job.cfg.options + job.cfg.eligible
      BY <1>1 DEF Statements
    <3> QED BY <1>2, <3>1, CountingOn
  <2>3. Inserted.eligible =
          EligibleOf(job) \cup (IF job.k > job.cfg.options THEN {NewEligible} ELSE {})
    BY <1>7 DEF Inserted
  <2>4. CASE job.k > job.cfg.options
    <3>1. EligibleOf(job') =
            VoterRows(job.row, job.id, Beyond(job.cfg.options, job.cfg.eligible, job.k)) \cup {NewEligible}
      BY <2>1, <2>2, <2>4 DEF NewEligible, VoterRows
    <3> QED BY <2>1, <2>3, <2>4, <3>1
  <2>5. CASE ~(job.k > job.cfg.options)
    <3>1. Beyond(job.cfg.options, job.cfg.eligible, job.k + 1) = Beyond(job.cfg.options, job.cfg.eligible, job.k)
      BY <2>2, <2>5
    <3> QED BY <2>1, <2>3, <2>5, <3>1
  <2> QED BY <2>4, <2>5
<1>11. JobHolds'
  <2>1. NewElection' = NewElection
    BY <1>4 DEF NewElection, id_seq, ToInt
  <2>2. Inserted = [elections |-> Inserted.elections, options |-> Inserted.options,
                    eligible |-> Inserted.eligible]
    BY DEF Inserted
  <2>3. txn' = [elections |-> {NewElection}, options |-> OptionsOf(job'), eligible |-> EligibleOf(job')]
    BY <1>1, <1>8, <1>9, <1>10, <2>2
  <2>4. OptionsOf(job)' = OptionsOf(job') /\ EligibleOf(job)' = EligibleOf(job')
    BY DEF OptionsOf, EligibleOf
  <2> QED BY <1>1, <1>3, <1>4, <2>1, <2>3, <2>4 DEF CreateInv, JobHolds
<1> QED BY <1>5, <1>6, <1>11 DEF CreateInv

\* The request of a transaction that is rolled back is answered, as failed.
LEMMA FailureKeeps ==
    ASSUME CreateInv, job # Nil, txn' = NoTxn, job' = Nil, Answer(job.o, "DB", job.id),
           UNCHANGED <<elections, options, eligible, blind, made>>
    PROVE  CreateInv'
<1>1. job.o \in Operators /\ ui[job.o].id \in ElectionIds \cup {Nil}
  BY JobFields DEF CreateInv, CreateTypeOK
<1> DEFINE u == [at |-> "told", id |-> ui[job.o].id, cfg |-> ui[job.o].cfg,
                 told |-> [status |-> "DB", id |-> job.id]]
<1>2. ui' = [ui EXCEPT ![job.o] = u]
  BY DEF Answer
<1>3. u.at = "told" /\ u.id = ui[job.o].id /\ u.told.status = "DB"
  OBVIOUS
<1> HIDE DEF u
<1>4. DOMAIN ui' = Operators /\ ui'[job.o] = u /\ \A p \in Operators : p # job.o => ui'[p] = ui[p]
  BY <1>1, <1>2 DEF CreateInv, CreateTypeOK
<1>5. CreateTypeOK'
  <2>1. \A p \in Operators : /\ ui'[p].id \in ElectionIds \cup {Nil}
                             /\ ui'[p].at = "sent" => ui'[p].cfg \in Configs
    BY <1>1, <1>3, <1>4 DEF CreateInv, CreateTypeOK
  <2> QED BY <1>4, <2>1 DEF CreateInv, CreateTypeOK, ElectionIds
<1>6. IdsHold' /\ StoreHolds'
  <2>1. IdsHold'
    BY DEF CreateInv, IdsHold, Seqs, id_seq, ToInt
  <2>2. StoreHolds'
    BY DEF CreateInv, StoreHolds
  <2> QED BY <2>1, <2>2
<1>7. JobHolds'
  BY DEF JobHolds, NoTxn
<1>8. ToldTrue'
  BY <1>1, <1>3, <1>4, TellKeeps DEF CreateInv
<1> QED BY <1>5, <1>6, <1>7, <1>8 DEF CreateInv

\* An aborted transaction starts again.
LEMMA RetryKeeps ==
    ASSUME CreateInv, job # Nil, txn' = NoTxn, job' = At(0, job.attempt + 1),
           UNCHANGED <<ui, elections, options, eligible, blind, made>>
    PROVE  CreateInv'
<1>1. job \in Jobs /\ job.attempt \in Nat
  BY JobFields DEF CreateInv, CreateTypeOK
<1>2. 0 \in Nat /\ job.attempt + 1 \in Nat
  BY <1>1, SMT
<1>3. /\ job' \in Jobs /\ job'.o = job.o /\ job'.id = job.id /\ job'.cfg = job.cfg /\ job'.row = job.row
      /\ job'.k = 0 /\ job' # Nil
  <2>1. job' \in Jobs
    BY <1>1, <1>2, JobFields DEF At, Jobs
  <2> QED BY <2>1, CreateAssumption DEF At
<1>4. CreateTypeOK'
  <2>1. job'.k <= Statements(job'.cfg)
    <3>1. job'.cfg.options \in Nat /\ job'.cfg.eligible \in Nat
      BY <1>3, RowsOf
    <3> QED BY <1>3, <3>1, SMT DEF Statements
  <2> QED BY <1>3, <2>1 DEF CreateInv, CreateTypeOK, Statements, Jobs, ElectionIds
<1>5. IdsHold' /\ StoreHolds' /\ ToldTrue'
  <2>1. IdsHold'
    BY <1>3 DEF CreateInv, IdsHold, Seqs, id_seq, ToInt
  <2>2. StoreHolds'
    BY DEF CreateInv, StoreHolds
  <2>3. ToldTrue'
    BY DEF CreateInv, ToldTrue
  <2> QED BY <2>1, <2>2, <2>3
<1>6. JobHolds'
  <2>1. OptionsOf(job') = {} /\ EligibleOf(job') = {}
    BY <1>3, RowsOf
  <2>2. txn' = [elections |-> {}, options |-> OptionsOf(job'), eligible |-> EligibleOf(job')]
    BY <2>1 DEF NoTxn
  <2>3. OptionsOf(job)' = OptionsOf(job') /\ EligibleOf(job)' = EligibleOf(job')
    BY DEF OptionsOf, EligibleOf
  <2> QED BY <1>3, <2>2, <2>3 DEF CreateInv, JobHolds
<1> QED BY <1>4, <1>5, <1>6 DEF CreateInv

\* A set of numbers with a largest one has a largest one with one more number.
LEMMA MaxGrows ==
    ASSUME NEW S, S \subseteq Int, S # {} => \E m \in S : \A n \in S : m >= n, NEW x \in Int
    PROVE  \E m \in S \cup {x} : \A n \in S \cup {x} : m >= n
<1>1. CASE S = {}
  BY <1>1, SMT
<1>2. CASE S # {}
  <2>1. PICK m \in S : \A n \in S : m >= n
    BY <1>2
  <2>2. m \in Int
    OBVIOUS
  <2>3. CASE m >= x
    BY <2>1, <2>3
  <2>4. CASE ~(m >= x)
    <3>1. \A n \in S : x >= n
      <4> TAKE n \in S
      <4>1. n \in Int /\ m >= n
        BY <2>1
      <4> QED BY <2>2, <2>4, <4>1, SMT
    <3>2. x >= x
      BY SMT
    <3> QED BY <3>1, <3>2
  <2> QED BY <2>3, <2>4
<1> QED BY <1>1, <1>2

\* The rows of a committed transaction join the store, and the request is answered.
LEMMA CommitKeeps ==
    ASSUME CreateInv, InsertCommits
    PROVE  CreateInv'
<1>1. /\ job # Nil /\ job.k = Statements(job.cfg) /\ job' = Nil /\ txn' = NoTxn
      /\ UNCHANGED <<blind, made>>
  BY DEF InsertCommits
<1>2. /\ job \in Jobs /\ job.o \in Operators /\ job.id \in ElectionIds
      /\ job.cfg \in Configs /\ job.row \in Nat
      /\ job.cfg.options \in Nat /\ job.cfg.eligible \in Nat
  BY <1>1, RowsOf, JobFields DEF CreateInv, CreateTypeOK
<1>3. job.k # 0
  BY <1>1, <1>2, SMT DEF Statements
<1> DEFINE row == job.row
           opts == OptionRows(row, job.id, 0..job.cfg.options - 1)
           voters == VoterRows(row, job.id, 1..job.cfg.eligible)
<1>4. /\ elections' = elections \cup {NewElection}
      /\ options' = options \cup opts /\ eligible' = eligible \cup voters
  <2>1. OptionsOf(job) = opts /\ EligibleOf(job) = voters
    <3>1. /\ Before(job.cfg.options, job.k) = 0..job.cfg.options - 1
          /\ Beyond(job.cfg.options, job.cfg.eligible, job.k) = 1..job.cfg.eligible
      <4>1. job.k = 1 + job.cfg.options + job.cfg.eligible /\ job.k \in Nat
        BY <1>1, <1>2, JobFields DEF Statements
      <4>2. /\ Before(job.cfg.options, 1 + job.cfg.options + job.cfg.eligible) = 0..job.cfg.options - 1
            /\ Beyond(job.cfg.options, job.cfg.eligible, 1 + job.cfg.options + job.cfg.eligible)
                 = 1..job.cfg.eligible
        BY <1>2, <4>1, Counting
      <4> QED BY <4>1, <4>2
    <3> QED BY <1>2, <3>1, RowsOf
  <2>2. txn.elections = {NewElection} /\ txn.options = opts /\ txn.eligible = voters
    <3> HIDE DEF opts, voters
    <3> QED BY <1>1, <1>3, <2>1, TxnIs DEF CreateInv
  <2> HIDE DEF opts, voters
  <2> QED BY <2>2 DEF InsertCommits
<1>5. /\ NewElection.row = row /\ NewElection.id = job.id /\ NewElection.seq = id_seq(job.id)
      /\ NewElection.cfg = job.cfg
      /\ NewElection \in [row : Nat, id : ElectionIds, seq : Int, cfg : Configs]
  <2>1. id_seq(job.id) \in Int
    BY <1>2, SeqIs
  <2> QED BY <1>2, <2>1 DEF NewElection
<1> DEFINE new == NewElection
<1> HIDE DEF new
<1>6. /\ elections' = elections \cup {new} /\ new.row = row /\ new.id = job.id
      /\ new.seq = id_seq(job.id) /\ new.cfg = job.cfg
      /\ new \in [row : Nat, id : ElectionIds, seq : Int, cfg : Configs]
  BY <1>4, <1>5 DEF new
<1>7. PICK s : /\ s \in {"OK", "DB"}
               /\ ui' = [ui EXCEPT ![job.o] = [at |-> "told", id |-> ui[job.o].id, cfg |-> ui[job.o].cfg,
                                               told |-> [status |-> s, id |-> job.id]]]
  BY DEF InsertCommits, Answer
<1> DEFINE u == [at |-> "told", id |-> ui[job.o].id, cfg |-> ui[job.o].cfg,
                 told |-> [status |-> s, id |-> job.id]]
<1>8. u.at = "told" /\ u.id = ui[job.o].id /\ u.cfg = ui[job.o].cfg /\ u.told.status = s /\ u.told.id = job.id
  OBVIOUS
<1>9. DOMAIN ui' = Operators /\ ui'[job.o] = u /\ \A p \in Operators : p # job.o => ui'[p] = ui[p]
  <2>1. ui' = [ui EXCEPT ![job.o] = u]
    BY <1>7
  <2> HIDE DEF u
  <2> QED BY <1>2, <2>1 DEF CreateInv, CreateTypeOK
<1> HIDE DEF u
<1>10. CreateTypeOK'
  <2>1. \A p \in Operators : /\ ui'[p].id \in ElectionIds \cup {Nil}
                             /\ ui'[p].at = "sent" => ui'[p].cfg \in Configs
    BY <1>2, <1>8, <1>9 DEF CreateInv, CreateTypeOK
  <2>2. elections' \subseteq [row : Nat, id : ElectionIds, seq : Int, cfg : Configs]
    BY <1>6 DEF CreateInv, CreateTypeOK
  <2> QED BY <1>1, <1>9, <2>1, <2>2 DEF CreateInv, CreateTypeOK, ElectionIds
<1>11. IdsHold'
  <2>1. \A e \in elections' : e.seq = id_seq(e.id)
    BY <1>6 DEF CreateInv, IdsHold
  <2>2. \E m \in Seqs' : \A n \in Seqs' : m >= n
    <3>1. Seqs' = Seqs \cup {new.seq}
      BY <1>6 DEF Seqs
    <3>2. Seqs \subseteq Int /\ new.seq \in Int
      BY <1>6, Fields DEF CreateInv, CreateTypeOK, Seqs
    <3>3. Seqs # {} => \E m \in Seqs : \A n \in Seqs : m >= n
      BY DEF CreateInv, IdsHold, Seqs
    <3>4. \E m \in Seqs \cup {new.seq} : \A n \in Seqs \cup {new.seq} : m >= n
      BY <3>2, <3>3, MaxGrows, SMT
    <3> QED BY <3>1, <3>4
  <2>3. ~blind => \A e, f \in elections' : e.id = f.id => e = f
    BY <1>1, <1>6 DEF CreateInv, IdsHold
  <2> QED BY <1>1, <2>1, <2>2, <2>3 DEF IdsHold, id_seq, ToInt
<1>12. StoreHolds'
  <2>1. row = made /\ made \in Nat /\ made <= made
    <3>1. row = made /\ made \in Nat
      BY <1>1 DEF CreateInv, JobHolds, CreateTypeOK
    <3> QED BY <3>1, SMT
  <2>2. \A e \in elections : e.row <= made /\ e.row # row
    <3> TAKE e \in elections
    <3>1. e.row <= made /\ e.row < made /\ e.row \in Nat
      BY <1>1, Fields DEF CreateInv, StoreHolds, CreateTypeOK
    <3> DEFINE r == e.row
    <3> HIDE DEF r
    <3>2. r # made
      <4>1. r < made /\ r \in Nat
        BY <3>1 DEF r
      <4> QED BY <2>1, <4>1, SMT
    <3> QED BY <2>1, <3>1, <3>2 DEF r
  <2>3. \A x \in options \cup eligible : x.row # row
    <3>1. \A x \in options \cup eligible : \E e \in elections : e.row = x.row
      BY DEF CreateInv, StoreHolds
    <3> QED BY <2>2, <3>1
  <2>4. /\ (\A x \in opts : x.row = row) /\ (\A x \in voters : x.row = row)
        /\ {x.idx : x \in opts} = 0..job.cfg.options - 1 /\ {x.who : x \in voters} = 1..job.cfg.eligible
    <3> DEFINE S == 0..job.cfg.options - 1
               V == 1..job.cfg.eligible
               d == job.id
    <3> HIDE DEF S, V, d, row
    <3>1. \A x \in OptionRows(row, d, S) : x.row = row
      BY RowsMade, SMT
    <3>2. \A x \in VoterRows(row, d, V) : x.row = row
      BY RowsMade, SMT
    <3>3. {x.idx : x \in OptionRows(row, d, S)} = S /\ {x.who : x \in VoterRows(row, d, V)} = V
      BY RowsMade, SMT
    <3> QED BY <3>1, <3>2, <3>3 DEF S, V, d
  <2> HIDE DEF opts, voters
  <2>6. ASSUME NEW e \in elections
        PROVE  /\ {x.idx : x \in {y \in options' : y.row = e.row}} = 0..(e.cfg.options - 1)
               /\ {x.who : x \in {y \in eligible' : y.row = e.row}} = 1..e.cfg.eligible
    <3>1. {y \in options' : y.row = e.row} = {y \in options : y.row = e.row}
      BY <1>4, <2>2, <2>4
    <3>2. {y \in eligible' : y.row = e.row} = {y \in eligible : y.row = e.row}
      BY <1>4, <2>2, <2>4
    <3> QED BY <3>1, <3>2 DEF CreateInv, StoreHolds
  <2>7. /\ {x.idx : x \in {y \in options' : y.row = new.row}} = 0..(new.cfg.options - 1)
        /\ {x.who : x \in {y \in eligible' : y.row = new.row}} = 1..new.cfg.eligible
    <3>1. {y \in options \cup opts : y.row = row} = opts
      BY <2>3, <2>4, RowsApart
    <3>2. {y \in eligible \cup voters : y.row = row} = voters
      BY <2>3, <2>4, RowsApart
    <3> QED BY <1>4, <1>6, <2>4, <3>1, <3>2
  <2>8. \A x \in options' \cup eligible' : \E e \in elections' : e.row = x.row
    <3>1. \A x \in options \cup eligible : \E e \in elections' : e.row = x.row
      BY <1>6 DEF CreateInv, StoreHolds
    <3>2. \A x \in opts \cup voters : \E e \in elections' : e.row = x.row
      BY <1>6, <2>4
    <3> QED BY <1>4, <3>1, <3>2
  <2>9. \A e \in elections' : e.row <= made
    BY <1>6, <2>1, <2>2
  <2> QED BY <1>1, <1>6, <2>6, <2>7, <2>8, <2>9 DEF StoreHolds
<1>13. JobHolds'
  BY <1>1 DEF JobHolds, NoTxn
<1>14. ToldTrue'
  <2>1. ToldTrue /\ elections \subseteq elections' /\ new \in elections'
    BY <1>6 DEF CreateInv
  <2>2. new.id = u.told.id /\ new.cfg = u.cfg
    BY <1>1, <1>6, <1>8 DEF CreateInv, JobHolds
  <2>3. u.told.status # "ID_TAKEN"
    BY <1>7, <1>8
  <2> QED BY <1>2, <1>9, <2>1, <2>2, <2>3, TellKeeps
<1> QED BY <1>10, <1>11, <1>12, <1>13, <1>14 DEF CreateInv

\* The initial states.
LEMMA CreationInitHolds ==
    ASSUME CreateInit
    PROVE  CreateInv
<1>1. 0 \in Nat
  BY SMT
<1>2. \A o \in Operators : ui[o].id = Nil /\ ui[o].at = "menu"
  BY DEF CreateInit, Idle
<1>3. CreateTypeOK
  BY <1>1, <1>2 DEF CreateInit, CreateTypeOK
<1>4. IdsHold /\ StoreHolds /\ JobHolds
  BY DEF CreateInit, IdsHold, StoreHolds, JobHolds
<1>5. ToldTrue
  BY <1>2 DEF ToldTrue
<1> QED BY <1>3, <1>4, <1>5 DEF CreateInv

\* Every step keeps the invariant.
LEMMA CreationStepHolds ==
    ASSUME CreateInv, [CreateNext]_evars
    PROVE  CreateInv'
<1>t. CreateTypeOK /\ IdsHold
  BY DEF CreateInv
<1>s. ASSUME NEW o \in Operators, ui[o].at # "sent" PROVE job # Nil => o # job.o
  BY <1>s DEF CreateInv, JobHolds
<1>1. ASSUME NEW o \in Operators, screen_create_election(o) PROVE CreateInv'
  <2>1. PICK id \in ElectionIds \cup {Nil} : ui' = [ui EXCEPT ![o] = Form(id)]
    BY <1>1, <1>t, AllocFresh DEF screen_create_election
  <2>2. Form(id).id = id /\ Form(id).at = "form"
    BY DEF Form
  <2>3. ui[o].at # "sent" /\ UNCHANGED <<job, elections, options, eligible, txn, blind, made>>
    BY <1>1 DEF screen_create_election, store
  <2> QED BY <1>s, <2>1, <2>2, <2>3, ScreenKeeps
<1>2. ASSUME NEW o \in Operators, bc_build_create(o) PROVE CreateInv'
  <2>1. PICK c \in Configs, id \in Typed \cup {Nil, ui[o].id} :
          ui' = [ui EXCEPT ![o] = [at |-> "sent", id |-> id, cfg |-> c, told |-> Nil]]
    BY <1>2 DEF bc_build_create
  <2> DEFINE u == [at |-> "sent", id |-> id, cfg |-> c, told |-> Nil]
  <2>2. u.id \in ElectionIds \cup {Nil} /\ u.at = "sent" /\ u.cfg \in Configs
    BY <1>t DEF CreateTypeOK, ElectionIds
  <2>3. ui[o].at # "sent" /\ UNCHANGED <<job, elections, options, eligible, txn, blind, made>>
    BY <1>2 DEF bc_build_create, store
  <2>4. ui' = [ui EXCEPT ![o] = u]
    BY <2>1
  <2> HIDE DEF u
  <2> QED BY <1>s, <2>2, <2>3, <2>4, ScreenKeeps
<1>3. ASSUME NEW o \in Operators, Cancel(o) \/ Dismiss(o) PROVE CreateInv'
  <2>1. Idle.id = Nil /\ Idle.at = "menu"
    BY DEF Idle
  <2>2. /\ ui' = [ui EXCEPT ![o] = Idle] /\ ui[o].at # "sent"
        /\ UNCHANGED <<job, elections, options, eligible, txn, blind, made>>
    BY <1>3 DEF Cancel, Dismiss, store
  <2> QED BY <1>s, <2>1, <2>2, ScreenKeeps
<1>4. ASSUME NEW o \in Operators, CheckDesired(o) PROVE CreateInv'
  <2>1. /\ ui[o].at = "sent" /\ job = Nil /\ ui[o].id # Nil
        /\ UNCHANGED <<elections, options, eligible, txn, blind>>
    BY <1>4 DEF CheckDesired, store
  <2>2. ui[o].id \in ElectionIds
    BY <1>t, <2>1 DEF CreateTypeOK
  <2>3. ASSUME NEW st, Answer(o, st, ui[o].id), UNCHANGED <<job, made>>, st \in {"DB", "ID_TAKEN"},
               st = "ID_TAKEN" => load_election(ui[o].id)
        PROVE  CreateInv'
    <3> DEFINE u == [at |-> "told", id |-> ui[o].id, cfg |-> ui[o].cfg,
                     told |-> [status |-> st, id |-> ui[o].id]]
    <3>1. u.id \in ElectionIds /\ u.at = "told" /\ u.told.status = st /\ u.told.id = ui[o].id
      BY <2>2
    <3>2. ui' = [ui EXCEPT ![o] = u]
      BY <2>3 DEF Answer
    <3> HIDE DEF u
    <3>3. u.told.status = "ID_TAKEN" => \E e \in elections : e.id = u.told.id
      BY <2>3, <3>1 DEF load_election
    <3>4. u.told.status # "OK"
      BY <2>3, <3>1
    <3> QED BY <2>1, <2>3, <3>1, <3>2, <3>3, <3>4, ScreenKeeps
  <2>4. ASSUME ~load_election(ui[o].id), Insert(o, ui[o].id), made' = made + 1, UNCHANGED ui
        PROVE  CreateInv'
    <3>1. blind' \in BOOLEAN /\ (~blind' => ~blind /\ \A e \in elections : e.id # ui[o].id)
      BY <1>t, <2>1, <2>4 DEF CreateTypeOK, load_election
    <3> QED BY <2>1, <2>2, <2>4, <3>1, InsertKeeps
  <2> QED BY <1>4, <2>3, <2>4 DEF CheckDesired
<1>5. ASSUME NEW o \in Operators, AllocateId(o) PROVE CreateInv'
  <2>1. /\ ui[o].at = "sent" /\ job = Nil /\ made' = made + 1
        /\ UNCHANGED <<ui, elections, options, eligible, txn>>
    BY <1>5 DEF AllocateId, store
  <2>2. blind \in BOOLEAN /\ bb_alloc_id \in ElectionIds /\ bb_alloc_idBlind \in ElectionIds
    BY <1>t, AllocFresh DEF CreateTypeOK
  <2>3. CASE Insert(o, bb_alloc_id) /\ blind' = (blind \/ Overflows)
    <3>1. blind' \in BOOLEAN /\ (~blind' => ~blind /\ \A e \in elections : e.id # bb_alloc_id)
      BY <1>t, <2>2, <2>3, AllocFresh
    <3> QED BY <2>1, <2>2, <2>3, <3>1, InsertKeeps
  <2>4. CASE Insert(o, bb_alloc_idBlind) /\ blind' = TRUE
    BY <2>1, <2>2, <2>4, InsertKeeps
  <2> QED BY <1>5, <2>3, <2>4 DEF AllocateId
<1>6. CASE run_insert_election
  BY <1>6, StatementKeeps
<1>7. CASE InsertFails \/ Crash
  BY <1>7, FailureKeeps DEF InsertFails, Crash, store
<1>8. CASE InsertAborted
  <2>1. job # Nil /\ txn' = NoTxn /\ UNCHANGED <<elections, options, eligible, blind, made>>
    BY <1>8 DEF InsertAborted, store
  <2>2. CASE job' = At(0, job.attempt + 1) /\ UNCHANGED ui
    BY <2>1, <2>2, RetryKeeps
  <2>3. CASE job' = Nil /\ Answer(job.o, "DB", job.id)
    BY <2>1, <2>3, FailureKeeps
  <2> QED BY <1>8, <2>2, <2>3 DEF InsertAborted
<1>9. CASE InsertCommits
  BY <1>9, CommitKeeps
<1>10. CASE UNCHANGED evars
  <2>1. UNCHANGED <<ui, job, elections, options, eligible, txn, blind, made>>
    BY <1>10 DEF evars
  <2>2. CreateTypeOK'
    BY <1>t, <2>1 DEF CreateTypeOK, Statements, Jobs, ElectionIds
  <2>3. IdsHold' /\ StoreHolds' /\ ToldTrue'
    BY <1>t, <2>1 DEF CreateInv, IdsHold, StoreHolds, ToldTrue, Seqs, id_seq, ToInt
  <2>4. JobHolds'
    <3>1. NewElection' = NewElection
      BY <2>1 DEF NewElection
    <3>2. JobHolds
      BY DEF CreateInv
    <3>3. CASE job = Nil
      BY <2>1, <3>2, <3>3 DEF JobHolds, NoTxn
    <3>4. CASE job # Nil
      <4>1. OptionsOf(job)' = OptionsOf(job) /\ EligibleOf(job)' = EligibleOf(job)
        BY <2>1 DEF OptionsOf, EligibleOf
      <4> QED BY <2>1, <3>1, <3>2, <3>4, <4>1 DEF JobHolds
    <3> QED BY <3>3, <3>4
  <2> QED BY <2>2, <2>3, <2>4 DEF CreateInv
<1> QED BY <1>1, <1>2, <1>3, <1>4, <1>5, <1>6, <1>7, <1>8, <1>9, <1>10 DEF CreateNext

-----------------------------------------------------------------------------
(* What is promised. *)

\* The inductive invariant holds of every reachable state.
THEOREM CreationInvariant == CreateSpec => []CreateInv
<1>1. CreateInit => CreateInv
  BY CreationInitHolds
<1>2. CreateInv /\ [CreateNext]_evars => CreateInv'
  BY CreationStepHolds
<1> QED BY <1>1, <1>2, PTL DEF CreateSpec

\* No two elections have one id as long as no id was allocated without knowing the
\* largest, and the id a form is prefilled with is in use nowhere, whatever the
\* operators do and whichever statements fail (bb_create_election, bb_alloc_id).
THEOREM ElectionsKeepApart == CreateSpec => []OneRowPerElection
<1>1. CreateInv => OneRowPerElection
  BY AllocFresh DEF CreateInv, IdsHold, OneRowPerElection
<1> QED BY <1>1, CreationInvariant, PTL

\* Elections are stored whole or not at all, and operators are told the truth about it,
\* over statements that fail, retries, answers that are lost and deaths of ballotd
\* (run_insert_election, bb_create_election).
THEOREM CreationIsTrue == CreateSpec => []CreationTrue
<1>1. CreateInv => CreationTrue
  BY DEF CreateInv, StoreHolds, ToldTrue, CreationTrue
<1> QED BY <1>1, CreationInvariant, PTL
=============================================================================
