---------------------------- MODULE BallotUProps ----------------------------
(* What the voter's client promises the voter.                              *)
EXTENDS BallotU

\* The voter votes as shown.  The voter menu is only ever offered over a
\* transport that is not known to be dead, to a voter the daemon's worker has
\* logged in (still_live, voter_menu).  A ballot is sent only to the election the
\* status bar names, the one the voter was last admitted to, whatever other
\* elections were tried since (bu_join, bu_submit_vote).  A voter who holds a
\* receipt of an election never casts a first ballot in it again, in the same
\* session or after a reconnect (bu_route_vote).  The version shown is never above
\* the store's.
VotesAsShown ==
  /\ screen \in {"menu", "ballot"} =>
       bcl_connected /\ worker[transport.fd] \in {"voter", "gone"}
  /\ request # None /\ request.op \in {"CAST", "UPDATE"} =>
       /\ session.joined /\ request.id = session.id /\ request.id = shown
       /\ request.id \in Eligible
  /\ request # None /\ request.op = "CAST" => \A r \in receipts : r.id # request.id
  /\ session.joined => session.version <= version[session.id]

\* "Dropped ballot" is shown for a receipt, checked in its own election, only
\* when a later ballot of the same voter replaced it: no failure of daemon,
\* store or wire is ever shown as a lost ballot (bu_classify_check).
NoFalseAlarm ==
  (verdict # None /\ verdict.outcome = "DROPPED" /\ verdict.id = verdict.rcpt.id) =>
    version[verdict.id] > verdict.rcpt.version

\* The frame a screen reads is the answer to the request it sent: nothing is
\* left over from an earlier request or connection (send_via_session).
AnswersItsRequest ==
  [][\A r \in {replies[i] : i \in 1..Len(replies)} :
       (request # None /\ request' = None) => r.to = request]_vars

-----------------------------------------------------------------------------
(* The inductive invariant behind the three properties.                     *)

\* What the proofs take of the constants.
ASSUME ClientAssumption ==
  Eligible \subseteq Elections /\ None \notin [fd : Conns, connected : BOOLEAN]

\* Types.
TypeOK ==
  /\ transport \in [fd : Conns, connected : BOOLEAN] \cup {None}
  /\ session.joined \in BOOLEAN /\ session.version \in Nat
  /\ receipts \subseteq [id : Eligible, version : Nat]
  /\ worker \in [Conns -> {"none", "login", "voter", "gone"}]
  /\ version \in [Elections -> Nat]

\* Where the client waits for the answer to a request other than a login.
Asking == screen = "wait" /\ request.op # "AUTH"

\* Where the voter is not logged in.
Outside ==
  screen \in {"connect", "login", "form", "reconnect"} \/ (screen = "wait" /\ request.op = "AUTH")

\* The client is connected where it waits, and logged in where it votes.
ConnHolds ==
  /\ screen = "wait" => bcl_connected
  /\ screen \in {"menu", "ballot"} \/ Asking =>
       bcl_connected /\ worker[transport.fd] \in {"voter", "gone"}
  /\ screen = "lost" => transport # None /\ ~transport.connected

\* A voter who has joined did so in this session, sees the election named, and has
\* a ballot there if there is a receipt for it.
SessionHolds ==
  /\ Outside => ~session.joined
  /\ screen = "ballot" => session.joined
  /\ session.joined =>
       /\ session.id = shown /\ session.id \in Eligible
       /\ session.version <= version[session.id]
       /\ ~session.has_ballot => \A r \in receipts : r.id # session.id
  /\ \A r \in receipts : 0 < r.version /\ r.version <= version[r.id]

\* A ballot goes to the election the voter has joined, a check asks of a receipt.
RequestHolds ==
  /\ screen # "wait" => request = None /\ replies = <<>>
  /\ screen = "wait" /\ request.op \in {"CAST", "UPDATE"} =>
       session.joined /\ request.id = session.id
  /\ screen = "wait" /\ request.op = "CAST" => ~session.has_ballot
  /\ screen = "wait" /\ request.op = "CHECK" => request.rcpt \in receipts

\* What the answers on their way say was so when they were given, and cannot have
\* changed but by ballots cast since.
ReplyHolds(r) ==
  /\ r.to = request
  /\ r.status = "OK" /\ request.op = "AUTH" => worker[transport.fd] = "voter"
  /\ r.status = "OK" /\ request.op = "JOIN" =>
       /\ request.id \in Eligible
       /\ r.prior \in Nat /\ r.prior <= version[request.id]
       /\ r.prior = 0 => \A x \in receipts : x.id # request.id
  /\ r.status = "OK" /\ request.op \in {"CAST", "UPDATE"} =>
       /\ r.rcpt \in [id : {request.id}, version : Nat]
       /\ 0 < r.rcpt.version /\ r.rcpt.version <= version[request.id]
       /\ session.version < version[request.id]
  /\ r.status = "NOT_FOUND" /\ request.op = "CHECK" /\ request.id = request.rcpt.id =>
       request.rcpt.version < version[request.id]

RepliesHold == replies # <<>> => replies = <<Head(replies)>> /\ ReplyHolds(Head(replies))

\* The receipt in a verdict is one the voter was shown.
VerdictHolds ==
  (verdict # None /\ verdict.outcome = "DROPPED" /\ verdict.id = verdict.rcpt.id) =>
    verdict.rcpt \in receipts /\ verdict.rcpt.version < version[verdict.id]

IInv == /\ TypeOK /\ ConnHolds /\ SessionHolds /\ RequestHolds /\ RepliesHold /\ VerdictHolds
=============================================================================
