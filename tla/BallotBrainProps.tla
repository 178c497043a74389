-------------------------- MODULE BallotBrainProps --------------------------
(***************************************************************************)
(* What is claimed of BallotBrain, and under which assumptions.            *)
(***************************************************************************)
EXTENDS BallotBrain

CONSTANT NoVote

ASSUME ConfigAssumption ==
    /\ Requests \in [Ctxs -> SUBSET Jobs]
    /\ Options \subseteq Nat
    /\ OptionCount \in [Elections -> Nat]
    /\ Eligible \in [Elections -> SUBSET Voters]
    /\ MaxVersion \in Nat /\ MaxAttempts \in Nat \ {0} /\ MaxVoters \in Nat
    /\ NoRow \notin OwnerRows

\* bb_validate_config and types.h: an eligible list has BB_MAX_VOTERS entries
\* at most.
ASSUME CapacityAssumption ==
    \A e \in Elections : IsFiniteSet(Eligible[e]) /\ Cardinality(Eligible[e]) <= MaxVoters

\* Receipt hashes do not collide.
ASSUME HashAssumption ==
    \A n1, n2 \in Nonces : \A i, j \in 1..MaxVersion :
        Hash(n1, i) = Hash(n2, j) => n1 = n2 /\ i = j

\* The daemon's configuration: casts are received by one context (ballotd has
\* one, and serialises the calls on it).  Page locks do not replace this: two
\* contexts that record may both scan before either of them inserts.
OneRecorder ==
    \A c, d \in Ctxs : \A i \in Requests[c], j \in Requests[d] :
        i.op = "record" /\ j.op = "record" => c = d

----------------------------------------------------------------------------
Txs == [ballot : SUBSET BallotRows, owner : SUBSET OwnerRows,
        nonce : SUBSET (Elections \X Nonces), gone : SUBSET BallotRows,
        left : SUBSET OwnerRows, read : SUBSET OwnerRows]

\* Every variable stays in its type.
TypeOK ==
    /\ election \in [Elections -> States \cup {"NONE"}]
    /\ ballot \subseteq BallotRows
    /\ owner \subseteq OwnerRows
    /\ nonce \subseteq Elections \X Nonces
    /\ pc \in [Ctxs -> Steps \cup {"idle"}]
    /\ job \in [Ctxs -> Jobs \cup {NoRow}]
    /\ attempt \in [Ctxs -> 0..(MaxAttempts - 1)]
    /\ prior \in [Ctxs -> OwnerRows \cup {NoRow}]
    /\ tx \in [Ctxs -> Txs]
    /\ applied \in [Ctxs -> BOOLEAN]
    /\ receipts \subseteq Receipts
    /\ DOMAIN tally = Ctxs
    /\ DOMAIN answer = Ctxs
    /\ \A c \in Ctxs : answer[c].code \in Codes

\* One live ballot per voter (R1): the live rows of the ballot table and the
\* rows of ballot_owner point at each other one to one, whatever mixture of
\* casts, updates, retries, lost replies and crashes produced them.  With
\* OneRecorder only: two contexts that record lose it.
OneLiveBallotPerVoter ==
    /\ \A r, s \in owner : r.e = s.e /\ r.cert = s.cert => r = s
    /\ \A r, s \in owner : r.e = s.e /\ r.hash = s.hash => r = s
    /\ \A r \in owner : r.cert \in Eligible[r.e]
    /\ \A r \in owner : \E b \in ballot :
         b.e = r.e /\ b.hash = r.hash /\ b.ver = r.ver /\ ~b.sup
    /\ \A b \in ballot : ~b.sup => \E r \in owner : r.e = b.e /\ r.hash = b.hash
    /\ \A a, b \in ballot : a.e = b.e /\ a.hash = b.hash => a = b

\* A nonce is spent exactly when one ballot row was recorded with it, so a
\* resent ballot is recorded at most once and a spent nonce is never lost.
\* With OneRecorder only: two contexts may both find a nonce unspent.
NonceSpentOnce ==
    /\ nonce = {<<b.e, b.n>> : b \in ballot}
    /\ \A a, b \in ballot : a.e = b.e /\ a.n = b.n => a = b

\* A receipt handed out with BB_OK stays traceable: its row keeps hash, option
\* and version for ever, and is superseded only by a later ballot of that voter
\* (with OneRecorder).
ReceiptsTraceable ==
    \A t \in receipts : \E b \in ballot :
        /\ b.e = t.e /\ b.hash = t.hash /\ b.opt = t.opt /\ b.ver = t.ver
        /\ b.sup <=> \E r \in owner : r.e = t.e /\ r.cert = t.cert /\ r.ver > t.ver

\* The result code is honest about the store: only BB_OK and BB_ERR_DB may be
\* returned once the request's write took effect; every refusal wrote nothing,
\* also when an earlier attempt of the same call had got as far as its commit.
AnswerHonest ==
    \A c \in Ctxs : pc[c] = "idle" /\ applied[c] => answer[c].code \in {"OK", "DB"}

\* The tally and the hash list of one published answer are of one ballot box:
\* they agree option by option, the list is not cut off at its capacity, and
\* they are still what the table holds (no later step may change them).
ResultsAgree ==
    \A c \in Ctxs : answer[c].e # NoRow =>
        /\ answer[c].hashes = Live(answer[c].e)
        /\ \A o \in Options : answer[c].tally[o] =
             Cardinality({b \in answer[c].hashes : b.opt = o})

\* Ballots of an election are recorded only while it is OPEN, at the moment the
\* commit takes effect (not only when the state was read), however many contexts
\* record and change states.
RecordedWhileOpen ==
    [][\A e \in Elections :
         {b \in ballot' : b.e = e} # {b \in ballot : b.e = e}
            => election[e] = "OPEN" /\ election'[e] = "OPEN"]_vars

Chain == <<"DRAFT", "OPEN", "CLOSED", "PUBLISHED">>

\* The lifecycle moves along DRAFT -> OPEN -> CLOSED -> PUBLISHED only.
LifecycleForward ==
    [][\A e \in Elections : election'[e] # election[e] =>
         \E i \in 1..3 : /\ election[e] = Chain[i]
                         /\ election'[e] = Chain[i + 1]]_vars

\* No attempt of a request runs for ever: every request ends, with an answer
\* or with the process.
EveryRequestEnds == \A c \in Ctxs : pc[c] # "idle" ~> pc[c] = "idle"

\* BB_ERR_RETRY never escapes the library (types.h, db.h).
RetryNeverEscapes == \A c \in Ctxs : answer[c].code # "RETRY"

----------------------------------------------------------------------------
(***************************************************************************)
(* The inductive invariants: GInv, behind AnswerHonest and                 *)
(* RecordedWhileOpen, for any number of contexts that record; IInv, behind *)
(* OneLiveBallotPerVoter and NonceSpentOnce, with OneRecorder.             *)
(***************************************************************************)

\* Every row's hash is the receipt hash of its nonce and version.
RowsHashed == \A b \in ballot : b.hash = Hash(b.n, b.ver)

AfterSeen == AfterLoad \ {"seen"}
AfterPrior == AfterSeen \ {"prior"}
AfterAppend == {"mark", "owner", "consume", "commit"}
AfterMark == AfterAppend \ {"mark"}
RecordJobs == {j \in Jobs : j.op = "record"}

\* The election an open transaction has read is still OPEN, because its page
\* stays locked, and the transaction changes that election's ballots only.
LoadHolds(c) ==
    /\ pc[c] \in RecordSteps => job[c] \in RecordJobs
    /\ pc[c] \in AfterLoad => /\ election[job[c].e] = "OPEN"
                              /\ job[c].v \in Eligible[job[c].e]
                              /\ job[c].o < OptionCount[job[c].e]
    /\ pc[c] \in AfterAppend => Version(c) \in 1..MaxVersion
    /\ \A b \in tx[c].ballot \cup tx[c].gone : b.e = job[c].e

\* A transaction has written what its steps so far have written.
WritesStart(c) ==
    /\ pc[c] \notin AfterAppend => tx[c].ballot = {} /\ tx[c].gone = {}
    /\ pc[c] \notin {"consume", "commit"} => tx[c].owner = {} /\ tx[c].left = {}
    /\ pc[c] # "commit" => tx[c].nonce = {}

\* A request in progress is one of the context's, and has not taken effect.
OtherJobs(c) ==
    /\ pc[c] \in TransitionSteps => job[c] \in {j \in Jobs : j.op = "transition"}
    /\ pc[c] # "idle" => job[c] \in Requests[c] /\ ~applied[c]

GInv ==
    /\ TypeOK
    /\ \A c \in Ctxs : LoadHolds(c) /\ WritesStart(c) /\ OtherJobs(c)
    /\ AnswerHonest

\* What the one transaction that records has read of the other tables holds,
\* because no one else writes them.
ReadsHold(c) ==
    /\ pc[c] \in AfterSeen => <<job[c].e, job[c].n>> \notin nonce
    /\ pc[c] \in AfterPrior =>
         prior[c] \in run_get_prior_ballot(job[c].e, job[c].v)

\* The ballot table with the prior version superseded.
Superseding(c) ==
    IF prior[c] = NoRow THEN ballot
    ELSE {IF b.e = job[c].e /\ b.hash = prior[c].hash
          THEN [b EXCEPT !.sup = TRUE] ELSE b : b \in ballot}

\* The tables as that transaction leaves them, from the tables as they are.
WritesAre(c) ==
    /\ pc[c] = "mark" => /\ prior[c] # NoRow
                         /\ BallotOf(c) = ballot \cup {NewRow(c)}
    /\ pc[c] \in AfterMark => BallotOf(c) = Superseding(c) \cup {NewRow(c)}
    /\ pc[c] \in {"consume", "commit"} =>
         OwnerOf(c) = {r \in owner : ~(r.e = job[c].e /\ r.cert = job[c].v)}
                        \cup {NewOwner(c)}
    /\ pc[c] = "commit" => NonceOf(c) = nonce \cup {<<job[c].e, job[c].n>>}

TablesOK == OneLiveBallotPerVoter /\ NonceSpentOnce /\ RowsHashed

IInv ==
    /\ GInv
    /\ TablesOK
    /\ \A c \in Ctxs : ReadsHold(c) /\ WritesAre(c)

----------------------------------------------------------------------------
\* The vote that counts for a voter, read the way GET_PRIOR_BALLOT and
\* GET_TALLY read it, and the voter's current version.
VoteOf(e, v) ==
    LET rows == {b \in Live(e) : \E r \in owner :
                    r.e = e /\ r.cert = v /\ r.hash = b.hash}
    IN  IF rows = {} THEN NoVote ELSE (CHOOSE b \in rows : TRUE).opt

VersionOf(e, v) ==
    LET rows == {r \in owner : r.e = e /\ r.cert = v}
    IN  IF rows = {} THEN 0 ELSE (CHOOSE r \in rows : TRUE).ver

Ledger == INSTANCE BallotLedger WITH
    state <- election,
    vote <- [e \in Elections |-> [v \in Voters |-> VoteOf(e, v)]],
    casts <- [e \in Elections |-> [v \in Voters |-> VersionOf(e, v)]],
    used <- [e \in Elections |-> {n \in Nonces : <<e, n>> \in nonce}]

\* The library implements the ledger: every request takes effect at one point,
\* or not at all.
ImplementsLedger == Ledger!Spec
=============================================================================
