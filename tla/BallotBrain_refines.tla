------------------------ MODULE BallotBrain_refines ------------------------
(***************************************************************************)
(* What BallotBrain promises over its whole life.  It implements           *)
(* BallotLedger: a commit that takes effect is one Cast, a stored          *)
(* transition one Advance, and every other step, retries, failures and     *)
(* crashes included, leaves the ledger alone.  And what its answers are    *)
(* worth later: receipts stay traceable, published results stay true.      *)
(***************************************************************************)
EXTENDS BallotBrain_proofs, FiniteSetTheorems, TLAPS

\* A leaf is for Zenon, unless it names another prover.
USE ZenonT(40)

\* VoteOf with the voter's owner row and its live ballot row at hand.
LEMMA VoteIs ==
    ASSUME NEW bal, NEW own, NEW e, NEW v, NEW r \in own, NEW b \in bal,
           r.e = e, r.cert = v, b.e = e, b.hash = r.hash, ~b.sup,
           \A s \in own : s.e = e /\ s.cert = v => s = r,
           \A a \in bal : a.e = e /\ a.hash = r.hash => a = b
    PROVE  LET rows == {x \in {y \in bal : y.e = e /\ ~y.sup} : \E s \in own :
                           s.e = e /\ s.cert = v /\ s.hash = x.hash}
           IN  (IF rows = {} THEN NoVote ELSE (CHOOSE x \in rows : TRUE).opt) = b.opt
<1> DEFINE rows == {x \in {y \in bal : y.e = e /\ ~y.sup} : \E s \in own :
                       s.e = e /\ s.cert = v /\ s.hash = x.hash}
<1>1. rows = {b}
  OBVIOUS
<1>2. (CHOOSE x \in rows : TRUE) = b
  BY <1>1
<1> HIDE DEF rows
<1>3. (IF rows = {} THEN NoVote ELSE (CHOOSE x \in rows : TRUE).opt) = b.opt
  BY <1>1, <1>2
<1> QED
  BY <1>3 DEF rows

\* VersionOf with the voter's owner row at hand.
LEMMA VersionIs ==
    ASSUME NEW own, NEW e, NEW v, NEW r \in own, r.e = e, r.cert = v,
           \A s \in own : s.e = e /\ s.cert = v => s = r
    PROVE  LET rows == {s \in own : s.e = e /\ s.cert = v}
           IN  (IF rows = {} THEN 0 ELSE (CHOOSE s \in rows : TRUE).ver) = r.ver
<1> DEFINE rows == {s \in own : s.e = e /\ s.cert = v}
<1>1. rows = {r}
  OBVIOUS
<1>2. (CHOOSE x \in rows : TRUE) = r
  BY <1>1
<1> HIDE DEF rows
<1>3. (IF rows = {} THEN 0 ELSE (CHOOSE x \in rows : TRUE).ver) = r.ver
  BY <1>1, <1>2
<1> QED
  BY <1>3 DEF rows

\* A voter's vote and version, told from the rows of the two tables.
VoterAt(e, v) ==
    /\ \A r \in owner : r.e = e /\ r.cert = v => VersionOf(e, v) = r.ver
    /\ \A r \in owner, b \in ballot :
          r.e = e /\ r.cert = v /\ b.e = e /\ b.hash = r.hash /\ ~b.sup
             => VoteOf(e, v) = b.opt
    /\ (\A r \in owner : ~(r.e = e /\ r.cert = v))
          => VoteOf(e, v) = NoVote /\ VersionOf(e, v) = 0

LEMMA VoterTold == OneLiveBallotPerVoter => \A e \in Elections, v \in Voters : VoterAt(e, v)
<1> SUFFICES ASSUME OneLiveBallotPerVoter, NEW e \in Elections, NEW v \in Voters
             PROVE  VoterAt(e, v)
  OBVIOUS
<1>1. ASSUME NEW r \in owner, r.e = e, r.cert = v
      PROVE  VersionOf(e, v) = r.ver
  <2>1. \A s \in owner : s.e = e /\ s.cert = v => s = r
    BY <1>1 DEF OneLiveBallotPerVoter
  <2> QED BY <1>1, <2>1, VersionIs DEF VersionOf
<1>2. ASSUME NEW r \in owner, NEW b \in ballot,
             r.e = e, r.cert = v, b.e = e, b.hash = r.hash, ~b.sup
      PROVE  VoteOf(e, v) = b.opt
  <2>1. \A s \in owner : s.e = e /\ s.cert = v => s = r
    BY <1>2, SMT DEF OneLiveBallotPerVoter
  <2>2. \A a \in ballot : a.e = e /\ a.hash = r.hash => a = b
    BY <1>2, SMT DEF OneLiveBallotPerVoter
  <2> QED BY <1>2, <2>1, <2>2, VoteIs, SMTT(20) DEF VoteOf, Live
<1>3. ASSUME \A r \in owner : ~(r.e = e /\ r.cert = v)
      PROVE  VoteOf(e, v) = NoVote /\ VersionOf(e, v) = 0
  BY <1>3 DEF VoteOf, VersionOf
<1> QED BY <1>1, <1>2, <1>3 DEF VoterAt

\* The same after a step.
LEMMA VoterToldNext ==
    OneLiveBallotPerVoter' => (\A e \in Elections, v \in Voters : VoterAt(e, v))'
BY VoterTold, PTL

\* What a commit that takes effect does to the vote and the version of every voter.
LEMMA CommitVotes ==
    ASSUME IInv, IInv', NEW c \in Ctxs, pc[c] = "commit", Install(c),
           NEW x \in Elections, NEW y \in Voters
    PROVE  IF x = job[c].e /\ y = job[c].v
           THEN VoteOf(x, y)' = job[c].o /\ VersionOf(x, y)' = VersionOf(x, y) + 1
           ELSE VoteOf(x, y)' = VoteOf(x, y) /\ VersionOf(x, y)' = VersionOf(x, y)
<1> DEFINE e == job[c].e
           v == job[c].v
           hit(b) == prior[c] # NoRow /\ b.e = e /\ b.hash = prior[c].hash
           same(z, b) == /\ z.e = b.e /\ z.hash = b.hash /\ z.opt = b.opt
                         /\ z.ver = b.ver /\ z.n = b.n
                         /\ z.sup <=> (b.sup \/ hit(b))
<1>1. /\ ballot' = Superseding(c) \cup {NewRow(c)}
      /\ owner' = {r \in owner : ~(r.e = e /\ r.cert = v)} \cup {NewOwner(c)}
  BY DEF Install, IInv, WritesAre, AfterMark, AfterAppend
<1>2. \A b \in ballot : \E z \in Superseding(c) : same(z, b)
  BY SupersedingRows DEF IInv, GInv
<1>3. \A r \in owner : (r.e = e /\ r.cert = v) <=> (prior[c] # NoRow /\ r = prior[c])
  BY PriorRow DEF AfterPrior, AfterSeen, AfterLoad
<1>4. /\ NewRow(c).e = e /\ NewRow(c).opt = job[c].o /\ ~NewRow(c).sup
      /\ NewOwner(c).e = e /\ NewOwner(c).cert = v
      /\ NewOwner(c).hash = NewRow(c).hash /\ NewOwner(c).ver = Version(c)
  BY DEF NewRow, NewOwner
<1>5. OneLiveBallotPerVoter /\ OneLiveBallotPerVoter'
  BY DEF IInv, TablesOK
<1>6. VoterAt(x, y) /\ VoterAt(x, y)'
  BY <1>5, VoterTold, VoterToldNext
<1>7. prior[c] # NoRow => prior[c] \in owner
  BY DEF IInv, ReadsHold, run_get_prior_ballot, AfterPrior, AfterSeen, AfterLoad
<1>8. VoterAt(x, y)' <=>
        /\ \A r \in owner' : r.e = x /\ r.cert = y => VersionOf(x, y)' = r.ver
        /\ \A r \in owner', b \in ballot' :
              r.e = x /\ r.cert = y /\ b.e = x /\ b.hash = r.hash /\ ~b.sup
                 => VoteOf(x, y)' = b.opt
        /\ (\A r \in owner' : ~(r.e = x /\ r.cert = y))
              => VoteOf(x, y)' = NoVote /\ VersionOf(x, y)' = 0
  BY DEF VoterAt
<1> HIDE DEF e, v
<1>a. CASE x = e /\ y = v
  <2>1. VoteOf(x, y)' = job[c].o
    BY <1>a, <1>1, <1>4, <1>6, <1>8
  <2>2. VersionOf(x, y)' = Version(c)
    BY <1>a, <1>1, <1>4, <1>6, <1>8
  <2>3. Version(c) = VersionOf(x, y) + 1
    <3>1. CASE prior[c] = NoRow
      <4>1. VersionOf(x, y) = 0
        BY <1>a, <1>3, <1>6, <3>1 DEF VoterAt
      <4> QED BY <3>1, <4>1, SMT DEF Version
    <3>2. CASE prior[c] # NoRow
      <4>1. VersionOf(x, y) = prior[c].ver
        BY <1>a, <1>3, <1>6, <1>7, <3>2 DEF VoterAt
      <4> QED BY <3>2, <4>1 DEF Version
    <3> QED BY <3>1, <3>2
  <2> QED BY <1>a, <2>1, <2>2, <2>3 DEF e, v
<1>b. CASE ~(x = e /\ y = v)
  <2>1. CASE \A r \in owner : ~(r.e = x /\ r.cert = y)
    <3>1. \A r \in owner' : ~(r.e = x /\ r.cert = y)
      BY <1>b, <1>1, <1>4, <2>1
    <3> QED BY <1>b, <1>6, <1>8, <2>1, <3>1 DEF VoterAt, e, v
  <2>2. CASE \E r \in owner : r.e = x /\ r.cert = y
    <3>1. PICK r \in owner : r.e = x /\ r.cert = y
      BY <2>2
    <3>2. r \in owner'
      BY <1>b, <1>1, <3>1
    <3>3. PICK b \in ballot : b.e = r.e /\ b.hash = r.hash /\ ~b.sup
      BY <1>5 DEF OneLiveBallotPerVoter
    <3>4. ~hit(b)
      <4>1. \A s, t \in owner : s.e = t.e /\ s.hash = t.hash => s = t
        BY <1>5 DEF OneLiveBallotPerVoter
      <4>2. prior[c] # NoRow => prior[c].e = e /\ prior[c].cert = v
        BY <1>3, <1>7
      <4> QED BY <1>b, <1>7, <3>1, <3>3, <4>1, <4>2
    <3>5. PICK z \in ballot' : z.e = x /\ z.hash = r.hash /\ ~z.sup /\ z.opt = b.opt
      BY <1>1, <1>2, <3>1, <3>3, <3>4, SMTT(20)
    <3>6. VoteOf(x, y) = b.opt /\ VersionOf(x, y) = r.ver
      BY <1>6, <3>1, <3>3 DEF VoterAt
    <3>7. VoteOf(x, y)' = z.opt /\ VersionOf(x, y)' = r.ver
      BY <1>6, <1>8, <3>1, <3>2, <3>5
    <3> QED BY <1>b, <3>5, <3>6, <3>7 DEF e, v
  <2> QED BY <2>1, <2>2
<1> QED BY <1>a, <1>b

\* A commit that takes effect is a Cast of the ledger.
LEMMA CommitCasts ==
    ASSUME IInv, IInv', NEW c \in Ctxs, pc[c] = "commit", Install(c)
    PROVE  Ledger!Next
<1>0. PICK e \in Elections, v \in Voters, n \in Nonces, o \in Options :
        e = job[c].e /\ v = job[c].v /\ n = job[c].n /\ o = job[c].o
  BY DEF IInv, GInv, LoadHolds, RecordSteps, RecordJobs, Jobs
<1>1. /\ election[e] = "OPEN" /\ v \in Eligible[e] /\ o < OptionCount[e]
      /\ <<e, n>> \notin nonce
  BY <1>0 DEF IInv, GInv, LoadHolds, ReadsHold, AfterLoad, AfterSeen
<1>2. nonce' = nonce \cup {<<e, n>>} /\ UNCHANGED election
  BY <1>0 DEF Install, IInv, WritesAre
<1>3. \A x \in Elections, y \in Voters :
        IF x = e /\ y = v
        THEN VoteOf(x, y)' = o /\ VersionOf(x, y)' = VersionOf(x, y) + 1
        ELSE VoteOf(x, y)' = VoteOf(x, y) /\ VersionOf(x, y)' = VersionOf(x, y)
  BY <1>0, CommitVotes, SMT
<1>4. [x \in Elections |-> [y \in Voters |-> VoteOf(x, y)']]
        = [[x \in Elections |-> [y \in Voters |-> VoteOf(x, y)]] EXCEPT ![e][v] = o]
  BY <1>1, <1>3
<1>5. [x \in Elections |-> [y \in Voters |-> VersionOf(x, y)']]
        = [[x \in Elections |-> [y \in Voters |-> VersionOf(x, y)]]
             EXCEPT ![e][v] = @ + 1]
  BY <1>1, <1>3
<1>6. [x \in Elections |-> {m \in Nonces : <<x, m>> \in nonce'}]
        = [[x \in Elections |-> {m \in Nonces : <<x, m>> \in nonce}]
             EXCEPT ![e] = @ \cup {n}]
  BY <1>1, <1>2
<1>7. n \notin [x \in Elections |-> {m \in Nonces : <<x, m>> \in nonce}][e]
  BY <1>1
<1>8. Ledger!Cast(e, v, n, o)
  BY <1>1, <1>2, <1>4, <1>5, <1>6, <1>7 DEF Ledger!Cast
<1> QED
  BY <1>1, <1>8 DEF Ledger!Next

\* A step that changes no ballot, owner or nonce changes no vote of the ledger.
LEMMA VotesStay ==
    ASSUME UNCHANGED <<ballot, owner, nonce>>
    PROVE  /\ \A x, y : VoteOf(x, y)' = VoteOf(x, y) /\ VersionOf(x, y)' = VersionOf(x, y)
           /\ \A x, m : <<x, m>> \in nonce' <=> <<x, m>> \in nonce
BY SMT DEF VoteOf, VersionOf, Live

\* A stored transition is an Advance of the ledger.
LEMMA UpdateAdvances ==
    ASSUME IInv, NEW c \in Ctxs, TransitionHolds(c), pc[c] = "update", SetState(c)
    PROVE  Ledger!Next
<1>1. PICK e \in Elections, from, to \in Ledger!States :
        /\ e = job[c].e /\ from = election[e] /\ to = job[c].to
        /\ <<from, to>> \in
             {<<"DRAFT", "OPEN">>, <<"OPEN", "CLOSED">>, <<"CLOSED", "PUBLISHED">>}
  BY DEF IInv, GInv, OtherJobs, TransitionSteps, Jobs, TransitionHolds,
     bb_is_legal_transition, Ledger!States, States
<1>2. /\ election' = [election EXCEPT ![e] = to]
      /\ UNCHANGED <<ballot, owner, nonce>>
  BY <1>1 DEF SetState
<1>3. Ledger!Advance(e, from, to)
  BY <1>1, <1>2, VotesStay DEF Ledger!Advance
<1> QED
  BY <1>1, <1>3 DEF Ledger!Next

\* The library implements the ledger, for any number of contexts, elections,
\* voters and attempts, when one context records and one is the administrator's:
\* every request takes effect at one point, or not at all.
THEOREM Refinement ==
    ASSUME OneRecorder, OneAdministrator
    PROVE  Spec => ImplementsLedger
<1> DEFINE TInv == \A c \in Ctxs : TransitionHolds(c)
<1>1. Init => Ledger!Init
  <2> SUFFICES ASSUME Init PROVE Ledger!Init
    OBVIOUS
  <2>1. ballot = {} /\ owner = {} /\ nonce = {} /\ election \in [Elections -> {"NONE", "DRAFT"}]
    BY DEF Init
  <2>2. \A x \in Elections, y \in Voters : VoteOf(x, y) = NoVote /\ VersionOf(x, y) = 0
    BY <2>1 DEF VoteOf, VersionOf, Live
  <2>3. \A x \in Elections : {m \in Nonces : <<x, m>> \in nonce} = {}
    BY <2>1
  <2> QED
    BY <2>1, <2>2, <2>3 DEF Ledger!Init
<1>2. IInv /\ TInv /\ [Next]_vars => [Ledger!Next]_(Ledger!vars)
  <2> SUFFICES ASSUME IInv, TInv, [Next]_vars
               PROVE  Ledger!Next \/ UNCHANGED Ledger!vars
    OBVIOUS
  <2>1. IInv'
    BY NextIInv
  <2>2. CASE \E c \in Ctxs : pc[c] = "commit" /\ Install(c)
    BY <2>1, <2>2, CommitCasts
  <2>3. CASE \E c \in Ctxs : pc[c] = "update" /\ SetState(c)
    BY <2>3, UpdateAdvances
  <2>4. CASE UNCHANGED <<ballot, owner, nonce>> /\ UNCHANGED election
    BY <2>4, VotesStay DEF Ledger!vars
  <2> QED
    BY <2>2, <2>3, <2>4, WhoWrites
<1>3. Spec => []TInv
  BY TransitionsHold
<1> HIDE DEF TInv
<1> QED
  BY <1>1, <1>2, <1>3, Inductive, PTL DEF Spec, ImplementsLedger, Ledger!Spec

(***************************************************************************)
(* Receipts and published results.                                         *)
(***************************************************************************)
\* The ballot row a receipt names: live, with the voter's owner row pointing
\* at it, or superseded, and then that voter's owner row is of a later version.
Held(t, b) ==
    /\ b.e = t.e /\ b.hash = t.hash /\ b.opt = t.opt /\ b.ver = t.ver
    /\ \E r \in owner :
         /\ r.e = t.e /\ r.cert = t.cert
         /\ IF b.sup THEN r.ver > t.ver ELSE r.ver = t.ver /\ r.hash = t.hash

ReceiptsHeld == \A t \in receipts : \E b \in ballot : Held(t, b)

\* ReceiptsHeld is enough, owner rows being unique.
LEMMA HeldTraceable == IInv /\ ReceiptsHeld => ReceiptsTraceable
<1> SUFFICES ASSUME IInv, ReceiptsHeld, NEW t \in receipts
             PROVE  \E b \in ballot :
                      /\ b.e = t.e /\ b.hash = t.hash /\ b.opt = t.opt /\ b.ver = t.ver
                      /\ b.sup <=> \E r \in owner :
                                      r.e = t.e /\ r.cert = t.cert /\ r.ver > t.ver
  BY DEF ReceiptsTraceable
<1>1. PICK b \in ballot : Held(t, b)
  BY DEF ReceiptsHeld
<1>2. t.ver \in Int
  BY SMT DEF IInv, GInv, TypeOK, Receipts
<1>3. \A r, s \in owner : r.e = s.e /\ r.cert = s.cert => r = s
  BY DEF IInv, TablesOK, OneLiveBallotPerVoter
<1>4. b.sup \in BOOLEAN
  BY DEF IInv, GInv, TypeOK, BallotRows
<1> QED
  BY <1>1, <1>2, <1>3, <1>4, SMTT(20) DEF Held

\* The commit of another ballot keeps what a receipt names.
LEMMA CommitHolds ==
    ASSUME IInv, NEW c \in Ctxs, pc[c] = "commit", Install(c),
           NEW t \in receipts, NEW b \in ballot, Held(t, b)
    PROVE  \E x \in ballot' : Held(t, x)'
<1> DEFINE e == job[c].e
           v == job[c].v
           hit == prior[c] # NoRow /\ b.e = e /\ b.hash = prior[c].hash
<1>1. /\ ballot' = Superseding(c) \cup {NewRow(c)}
      /\ owner' = {r \in owner : ~(r.e = e /\ r.cert = v)} \cup {NewOwner(c)}
  BY DEF Install, IInv, WritesAre, AfterMark, AfterAppend
<1>2. PICK x \in Superseding(c) :
        /\ x.e = b.e /\ x.hash = b.hash /\ x.opt = b.opt /\ x.ver = b.ver
        /\ x.sup <=> (b.sup \/ hit)
  BY SupersedingRows, SMT DEF IInv, GInv
<1>3. \A r \in owner : (r.e = e /\ r.cert = v) <=> (prior[c] # NoRow /\ r = prior[c])
  BY PriorRow DEF AfterPrior, AfterSeen, AfterLoad
<1>4. /\ NewOwner(c).e = e /\ NewOwner(c).cert = v /\ NewOwner(c).ver = Version(c)
      /\ prior[c] # NoRow => Version(c) = prior[c].ver + 1
  BY DEF NewOwner, Version
<1>5. \A r, s \in owner : r.e = s.e /\ r.hash = s.hash => r = s
  BY DEF IInv, TablesOK, OneLiveBallotPerVoter
<1>6. /\ prior[c] # NoRow => prior[c] \in owner
      /\ \A r \in owner : r.ver \in Int
      /\ t.ver \in Int
  <2>1. prior[c] # NoRow => prior[c] \in owner
    BY DEF IInv, ReadsHold, run_get_prior_ballot, AfterPrior, AfterSeen, AfterLoad
  <2>2. (\A r \in owner : r.ver \in Int) /\ t.ver \in Int
    BY SMTT(20) DEF IInv, GInv, TypeOK, OwnerRows, Receipts
  <2> QED BY <2>1, <2>2
<1>7. x.sup \in BOOLEAN /\ b.sup \in BOOLEAN
  BY SupersedingRows, SMTT(20) DEF IInv, GInv, TypeOK, BallotRows
<1>8. PICK r \in owner :
        /\ r.e = t.e /\ r.cert = t.cert
        /\ IF b.sup THEN r.ver > t.ver ELSE r.ver = t.ver /\ r.hash = t.hash
  BY DEF Held
<1>9. b.e = t.e /\ b.hash = t.hash /\ b.opt = t.opt /\ b.ver = t.ver
  BY DEF Held
<1> HIDE DEF e, v
<1>a. SUFFICES \E s \in owner' :
                 /\ s.e = t.e /\ s.cert = t.cert
                 /\ IF x.sup THEN s.ver > t.ver ELSE s.ver = t.ver /\ s.hash = t.hash
  BY <1>1, <1>2, <1>9, SMTT(20) DEF Held
<1>b. CASE t.e = e /\ t.cert = v
  <2>1. prior[c] # NoRow /\ r = prior[c]
    BY <1>3, <1>8, <1>b
  <2>2. x.sup
    BY <1>2, <1>8, <1>9, <1>b, <2>1
  <2>3. Version(c) > t.ver
    BY <1>4, <1>6, <1>8, <2>1, SMTT(20)
  <2> QED BY <1>1, <1>4, <1>b, <2>2, <2>3
<1>c. CASE ~(t.e = e /\ t.cert = v)
  <2>1. r \in owner'
    BY <1>1, <1>8, <1>c
  <2>2. ~b.sup => ~hit
    BY <1>3, <1>5, <1>6, <1>8, <1>9, <1>c
  <2> QED BY <1>2, <1>7, <1>8, <2>1, <2>2
<1> QED BY <1>b, <1>c

\* Receipts are handed out by a commit that took effect, and by nothing else.
LEMMA WhoIssues ==
    ASSUME [Next]_vars
    PROVE  UNCHANGED receipts \/ \E c \in Ctxs : bb_db_commit(c)
<1>1. ASSUME NEW c \in Ctxs, Record(c) PROVE UNCHANGED receipts \/ bb_db_commit(c)
  BY <1>1 DEF Record, bb_db_begin, BeginFails, record_load, record_nonce_seen,
     record_prior, run_append_ballot, run_mark_superseded, run_set_owner,
     run_nonce_mark, CommitReplyLost, RecordFails, RecordRetry
<1>2. ASSUME NEW c \in Ctxs, Read(c) \/ transition_get(c) \/ OneShotFails(c)
                             \/ run_update_state(c) \/ Crash(c)
      PROVE  UNCHANGED receipts
  BY <1>2 DEF Read, join_load, join_prior, results_load, fetch_tally, fetch_hashes,
     lookup_load, run_find_hash, transition_get, OneShotFails, run_update_state, Crash
<1>3. ASSUME NEW c \in Ctxs, NEW j, Start(c, j) PROVE UNCHANGED receipts
  BY <1>3 DEF Start
<1>4. CASE UNCHANGED vars
  BY <1>4 DEF vars
<1> QED
  BY <1>1, <1>2, <1>3, <1>4 DEF Next, Step

\* A receipt handed out with BB_OK stays traceable for ever, across updates of
\* the same ballot, ballots of others, retries, lost replies and crashes, if one
\* context records.
THEOREM Traceable ==
    ASSUME OneRecorder
    PROVE  Spec => []ReceiptsTraceable
<1>1. Init => ReceiptsHeld
  BY DEF Init, ReceiptsHeld
<1>2. IInv /\ ReceiptsHeld /\ [Next]_vars => ReceiptsHeld'
  <2> SUFFICES ASSUME IInv, ReceiptsHeld, [Next]_vars, NEW t \in receipts'
               PROVE  \E b \in ballot' : Held(t, b)'
    BY DEF ReceiptsHeld
  <2>1. CASE t \in receipts
    <3>1. PICK b \in ballot : Held(t, b)
      BY <2>1 DEF ReceiptsHeld
    <3>2. CASE UNCHANGED <<ballot, owner, nonce>>
      <4>1. Held(t, b)'
        BY <3>1, <3>2 DEF Held
      <4> QED BY <3>2, <4>1
    <3>3. CASE \E c \in Ctxs : pc[c] = "commit" /\ Install(c)
      BY <2>1, <3>1, <3>3, CommitHolds
    <3> QED BY <3>2, <3>3, WhoWrites
  <2>2. CASE t \notin receipts
    <3>1. PICK c \in Ctxs : bb_db_commit(c)
      BY <2>2, WhoIssues
    <3>2. /\ pc[c] = "commit" /\ Install(c)
          /\ t = [e |-> job[c].e, cert |-> job[c].v, hash |-> bb_issue_receipt(c),
                  ver |-> Version(c), opt |-> job[c].o]
      BY <2>2, <3>1 DEF bb_db_commit
    <3>3. PICK b \in ballot', r \in owner' : b = NewRow(c) /\ r = NewOwner(c)
      BY <3>2 DEF Install, IInv, WritesAre, AfterMark, AfterAppend
    <3>4. /\ b.e = t.e /\ b.hash = t.hash /\ b.opt = t.opt /\ b.ver = t.ver /\ ~b.sup
          /\ r.e = t.e /\ r.cert = t.cert /\ r.ver = t.ver /\ r.hash = t.hash
      BY <3>2, <3>3 DEF NewRow, NewOwner
    <3>5. Held(t, b)'
      BY <3>4 DEF Held
    <3> QED BY <3>5
  <2> QED BY <2>1, <2>2
<1> QED
  BY <1>1, <1>2, HeldTraceable, Inductive, PTL DEF Spec

\* An election has no more live ballots than eligible voters, so the published
\* list is never cut off.
LEMMA LiveFits ==
    ASSUME IInv, NEW e \in Elections
    PROVE  run_get_hashes(e) = {Live(e)}
<1> DEFINE ownerOf(b) == CHOOSE r \in owner : r.e = b.e /\ r.hash = b.hash
           f == [b \in Live(e) |-> ownerOf(b).cert]
<1>1. \A b \in Live(e) : ownerOf(b) \in owner /\ ownerOf(b).e = e /\ ownerOf(b).hash = b.hash
  BY DEF Live, IInv, TablesOK, OneLiveBallotPerVoter
<1> HIDE DEF ownerOf
<1>2. \A b \in Live(e) : f[b] \in Eligible[e]
  BY <1>1 DEF IInv, TablesOK, OneLiveBallotPerVoter
<1>3. \A a, b \in Live(e) : f[a] = f[b] => a = b
  <2> SUFFICES ASSUME NEW a \in Live(e), NEW b \in Live(e),
                      ownerOf(a).cert = ownerOf(b).cert
               PROVE  a = b
    OBVIOUS
  <2>1. ownerOf(a) = ownerOf(b)
    BY <1>1, SMTT(20) DEF IInv, TablesOK, OneLiveBallotPerVoter
  <2> QED BY <1>1, <2>1, SMTT(20) DEF Live, IInv, TablesOK, OneLiveBallotPerVoter
<1>4. f \in Injection(Live(e), Eligible[e])
  BY <1>2, <1>3 DEF Injection, IsInjective
<1>5. Cardinality(Live(e)) <= Cardinality(Eligible[e]) /\ IsFiniteSet(Live(e))
  BY <1>4, FS_Injection, CapacityAssumption
<1>6. Cardinality(Live(e)) <= MaxVoters
  <2>1. /\ Cardinality(Live(e)) \in Nat /\ Cardinality(Eligible[e]) \in Nat
        /\ MaxVoters \in Nat
    BY <1>5, FS_CardinalityType, CapacityAssumption, ConfigAssumption
  <2> QED BY <1>5, <2>1, CapacityAssumption, SMTT(20)
<1> QED
  BY <1>6 DEF run_get_hashes

ResultSteps == {"rtally", "rhashes"}
Quiet(d) == pc'[d] \notin ResultSteps /\ (answer'[d] = answer[d] \/ answer'[d].e = NoRow)

\* What a step can do to the results a context is gathering or has answered.
LEMMA ResultMoves ==
    ASSUME TypeOK, [Next]_vars, NEW d \in Ctxs
    PROVE  \/ /\ pc'[d] = pc[d] /\ job'[d] = job[d]
              /\ tally'[d] = tally[d] /\ answer'[d] = answer[d]
           \/ Quiet(d)
           \/ results_load(d) /\ results_gate(job[d]) = "OK"
           \/ fetch_tally(d)
           \/ fetch_hashes(d)
<1> DEFINE Stays(c) == /\ pc'[c] = pc[c] /\ job'[c] = job[c]
                       /\ tally'[c] = tally[c] /\ answer'[c] = answer[c]
           Moves(c) == /\ \A x \in Ctxs \ {c} : Stays(x)
                       /\ \/ Quiet(c)
                          \/ results_load(c) /\ results_gate(job[c]) = "OK"
                          \/ fetch_tally(c)
                          \/ fetch_hashes(c)
<1>0. /\ DOMAIN pc = Ctxs /\ DOMAIN job = Ctxs
      /\ DOMAIN tally = Ctxs /\ DOMAIN answer = Ctxs
  BY DEF TypeOK
<1>1. ASSUME NEW c \in Ctxs, NEW a, Return(c, a)
      PROVE  (\A x \in Ctxs \ {c} : Stays(x)) /\ pc'[c] = "idle" /\ answer'[c] = a
  BY <1>0, <1>1 DEF Return, Forget, Goto
<1>2. ASSUME NEW c \in Ctxs, NEW code, Return(c, Coded(code)) PROVE Moves(c)
  <2>1. Coded(code).e = NoRow
    BY DEF Coded
  <2> QED BY <1>1, <1>2, <2>1, Zenon DEF Quiet, ResultSteps
<1>3. ASSUME NEW c \in Ctxs, NEW s, s \notin ResultSteps, Goto(c, s), 
             UNCHANGED <<job, tally, answer>>
      PROVE  Moves(c)
  BY <1>0, <1>3 DEF Goto, Quiet
<1>4. ASSUME NEW c \in Ctxs, Record(c) PROVE Moves(c)
  <2>1. CASE bb_db_begin(c) \/ record_prior(c) \/ run_append_ballot(c)
             \/ run_mark_superseded(c) \/ run_set_owner(c) \/ run_nonce_mark(c)
    <3>1. /\ UNCHANGED <<job, tally, answer>>
          /\ \E s \in {"load", "append", "owner", "mark", "consume", "commit"} : Goto(c, s)
      BY <2>1 DEF bb_db_begin, record_prior, run_append_ballot, run_mark_superseded,
         run_set_owner, run_nonce_mark, locals
    <3> QED BY <1>3, <3>1 DEF ResultSteps
  <2>2. CASE BeginFails(c) \/ bb_db_commit(c) \/ CommitReplyLost(c) \/ RecordFails(c)
    <3>1. \E code : Return(c, Coded(code))
      BY <2>2 DEF BeginFails, bb_db_commit, CommitReplyLost, RecordFails
    <3> QED BY <1>2, <3>1
  <2>3. CASE record_load(c) \/ record_nonce_seen(c) \/ RecordRetry(c)
    <3>1. \/ \E code : Return(c, Coded(code))
          \/ /\ UNCHANGED <<job, tally, answer>>
             /\ \E s \in {"seen", "prior", "begin"} : Goto(c, s)
      <4>1. CASE record_load(c)
        <5>1. CASE record_gate(job[c]) = "OK"
          BY <4>1, <5>1 DEF record_load, locals
        <5>2. CASE record_gate(job[c]) # "OK"
          BY <4>1, <5>2, Zenon DEF record_load
        <5> QED BY <5>1, <5>2
      <4>2. CASE record_nonce_seen(c) \/ RecordRetry(c)
        BY <4>2 DEF record_nonce_seen, RecordRetry, locals
      <4> QED BY <2>3, <4>1, <4>2
    <3> QED BY <1>2, <1>3, <3>1 DEF ResultSteps
  <2> QED BY <1>4, <2>1, <2>2, <2>3 DEF Record
<1>5. ASSUME NEW c \in Ctxs, Read(c) PROVE Moves(c)
  <2>1. CASE join_load(c) \/ join_prior(c) \/ lookup_load(c) \/ run_find_hash(c)
    <3>1. \/ \E code : Return(c, Coded(code))
          \/ /\ UNCHANGED <<job, tally, answer>>
             /\ \E s \in {"jprior", "lfind"} : Goto(c, s)
      BY <2>1, ZenonT(30) DEF join_load, join_prior, lookup_load, run_find_hash, locals
    <3> QED BY <1>2, <1>3, <3>1 DEF ResultSteps
  <2>2. CASE results_load(c)
    <3>1. CASE results_gate(job[c]) = "OK"
      <4>1. Goto(c, "rtally") /\ UNCHANGED <<job, tally, answer>>
        BY <2>2, <3>1 DEF results_load, locals
      <4> QED BY <1>0, <2>2, <3>1, <4>1 DEF Goto
    <3>2. CASE results_gate(job[c]) # "OK"
      <4>1. Return(c, Coded(results_gate(job[c])))
        BY <2>2, <3>2 DEF results_load
      <4> QED BY <1>2, <4>1
    <3> QED BY <3>1, <3>2
  <2>3. CASE fetch_tally(c)
    <3>1. \A x \in Ctxs \ {c} : Stays(x)
      BY <1>0, <2>3 DEF fetch_tally, Goto
    <3> QED BY <2>3, <3>1
  <2>4. CASE fetch_hashes(c)
    <3>1. \E a : Return(c, a)
      BY <2>4 DEF fetch_hashes
    <3> QED BY <1>1, <2>4, <3>1
  <2> QED BY <1>5, <2>1, <2>2, <2>3, <2>4 DEF Read
<1>6. ASSUME NEW c \in Ctxs, transition_get(c) \/ OneShotFails(c) \/ run_update_state(c)
      PROVE  Moves(c)
  <2>1. \/ \E code : Return(c, Coded(code))
        \/ UNCHANGED <<job, tally, answer>> /\ Goto(c, "update")
    BY <1>6, ZenonT(30) DEF transition_get, OneShotFails, run_update_state, locals
  <2> QED BY <1>2, <1>3, <2>1 DEF ResultSteps
<1>7. ASSUME NEW c \in Ctxs, Crash(c) PROVE Moves(c)
  <2>1. Return(c, Coded("DB"))
    BY <1>7 DEF Crash, Return, NoAnswer
  <2> QED BY <1>2, <2>1
<1>8. ASSUME NEW c \in Ctxs, NEW j, Start(c, j) PROVE Moves(c)
  <2>1. First(j.op) \notin ResultSteps
    BY DEF First, ResultSteps
  <2>2. NoAnswer.e = NoRow
    BY DEF NoAnswer, Coded
  <2> QED BY <1>0, <1>8, <2>1, <2>2 DEF Start, Quiet
<1>9. CASE UNCHANGED vars
  BY <1>9 DEF vars
<1> HIDE DEF Moves
<1>a. CASE \E c \in Ctxs : Moves(c)
  BY <1>a DEF Moves
<1> QED
  BY <1>4, <1>5, <1>6, <1>7, <1>8, <1>9, <1>a DEF Next, Step

\* A published election stays published, and its ballots stay as they are.
LEMMA PublishedStays ==
    ASSUME IInv, \A c \in Ctxs : TransitionHolds(c), [Next]_vars,
           NEW e \in Elections, election[e] = "PUBLISHED"
    PROVE  /\ election'[e] = "PUBLISHED"
           /\ Live(e)' = Live(e)
           /\ run_get_tally(e)' = run_get_tally(e)
<1>1. election'[e] = "PUBLISHED"
  <2>1. CASE UNCHANGED election
    BY <2>1
  <2>2. CASE \E c \in Ctxs : pc[c] = "update" /\ SetState(c)
    <3>1. PICK c \in Ctxs : pc[c] = "update" /\ SetState(c)
      BY <2>2
    <3>2. election[job[c].e] # "PUBLISHED"
      BY <3>1 DEF TransitionHolds, bb_is_legal_transition
    <3> QED BY <3>1, <3>2 DEF SetState, IInv, GInv, TypeOK
  <2> QED BY <2>1, <2>2, WhoWrites
<1>2. {b \in ballot' : b.e = e} = {b \in ballot : b.e = e}
  BY OpenOnly DEF IInv
<1>3. Live(e)' = Live(e)
  <2>1. Live(e)' = {b \in {x \in ballot' : x.e = e} : ~b.sup}
    BY DEF Live
  <2>2. Live(e) = {b \in {x \in ballot : x.e = e} : ~b.sup}
    BY DEF Live
  <2> QED BY <1>2, <2>1, <2>2
<1>4. run_get_tally(e)' = run_get_tally(e)
  BY <1>3 DEF run_get_tally
<1> QED BY <1>1, <1>3, <1>4

\* Results are gathered and answered of a published election only, and are what
\* its table holds.
ResultsKept(c) ==
    /\ pc[c] \in ResultSteps => /\ job[c].e \in Elections
                                /\ election[job[c].e] = "PUBLISHED"
    /\ pc[c] = "rhashes" => tally[c] = run_get_tally(job[c].e)
    /\ answer[c].e # NoRow => /\ answer[c].e \in Elections
                              /\ election[answer[c].e] = "PUBLISHED"
                              /\ answer[c].hashes = Live(answer[c].e)
                              /\ answer[c].tally = run_get_tally(answer[c].e)

\* A step keeps ResultsKept.
LEMMA ResultsKeep ==
    ASSUME IInv, \A c \in Ctxs : TransitionHolds(c) /\ ResultsKept(c), [Next]_vars,
           NEW d \in Ctxs
    PROVE  ResultsKept(d)'
<1> DEFINE Gathered(p, j, t) ==
             /\ p \in ResultSteps => j.e \in Elections /\ election'[j.e] = "PUBLISHED"
             /\ p = "rhashes" => \A e \in Elections : j.e = e => t = run_get_tally(e)'
           Answered(a) ==
             a.e # NoRow => /\ a.e \in Elections /\ election'[a.e] = "PUBLISHED"
                            /\ \A e \in Elections : a.e = e =>
                                 a.hashes = Live(e)' /\ a.tally = run_get_tally(e)'
<1>1. SUFFICES Gathered(pc'[d], job'[d], tally'[d]) /\ Answered(answer'[d])
  <2>1. ResultsKept(d)' <=>
          /\ pc'[d] \in ResultSteps => /\ job'[d].e \in Elections
                                       /\ election'[job'[d].e] = "PUBLISHED"
          /\ pc'[d] = "rhashes" => tally'[d] = run_get_tally(job[d].e)'
          /\ answer'[d].e # NoRow =>
               /\ answer'[d].e \in Elections
               /\ election'[answer'[d].e] = "PUBLISHED"
               /\ answer'[d].hashes = Live(answer[d].e)'
               /\ answer'[d].tally = run_get_tally(answer[d].e)'
    BY DEF ResultsKept
  <2>2. "rhashes" \in ResultSteps
    BY DEF ResultSteps
  <2>3. \A e \in Elections : job'[d].e = e => run_get_tally(job[d].e)' = run_get_tally(e)'
    BY SMT DEF run_get_tally, Live
  <2>4. \A e \in Elections : answer'[d].e = e =>
          /\ run_get_tally(answer[d].e)' = run_get_tally(e)'
          /\ Live(answer[d].e)' = Live(e)'
    BY DEF run_get_tally, Live
  <2> QED BY <2>1, <2>2, <2>3, <2>4
<1>2. \A e \in Elections : election[e] = "PUBLISHED" =>
        /\ election'[e] = "PUBLISHED" /\ Live(e)' = Live(e)
        /\ run_get_tally(e)' = run_get_tally(e)
  BY PublishedStays
<1>3. Gathered(pc[d], job[d], tally[d])
  <2>1. /\ pc[d] \in ResultSteps => /\ job[d].e \in Elections
                                    /\ election[job[d].e] = "PUBLISHED"
        /\ pc[d] = "rhashes" => tally[d] = run_get_tally(job[d].e)
    BY DEF ResultsKept
  <2> QED BY <1>2, <2>1 DEF ResultSteps
<1>4. Answered(answer[d])
  <2>1. answer[d].e # NoRow => /\ answer[d].e \in Elections
                               /\ election[answer[d].e] = "PUBLISHED"
                               /\ answer[d].hashes = Live(answer[d].e)
                               /\ answer[d].tally = run_get_tally(answer[d].e)
    BY DEF ResultsKept
  <2> QED BY <1>2, <2>1
<1>5. /\ pc \in [Ctxs -> Steps \cup {"idle"}] /\ DOMAIN tally = Ctxs /\ DOMAIN answer = Ctxs
      /\ pc[d] # "idle" => job[d] \in Jobs
  <2>1. /\ pc \in [Ctxs -> Steps \cup {"idle"}] /\ DOMAIN tally = Ctxs
        /\ DOMAIN answer = Ctxs
    BY DEF IInv, GInv, TypeOK
  <2>2. pc[d] # "idle" => job[d] \in Requests[d]
    BY DEF IInv, GInv, OtherJobs
  <2> QED BY <2>1, <2>2, ConfigAssumption
<1>6. CASE /\ pc'[d] = pc[d] /\ job'[d] = job[d]
           /\ tally'[d] = tally[d] /\ answer'[d] = answer[d]
  BY <1>3, <1>4, <1>6
<1>7. CASE Quiet(d)
  <2>1. "rhashes" \in ResultSteps
    BY DEF ResultSteps
  <2> QED BY <1>4, <1>7, <2>1 DEF Quiet
<1>8. CASE results_load(d) /\ results_gate(job[d]) = "OK"
  <2>1. /\ pc[d] = "rload" /\ pc'[d] = "rtally" /\ UNCHANGED <<job, answer, election>>
    BY <1>5, <1>8 DEF results_load, locals, tables, Goto
  <2>2. election[job[d].e] = "PUBLISHED"
    BY <1>8 DEF results_gate
  <2>3. job[d].e \in Elections
    BY <1>5, <2>1 DEF Jobs
  <2> QED BY <1>4, <2>1, <2>2, <2>3
<1>9. CASE fetch_tally(d)
  <2>1. /\ pc[d] = "rtally" /\ pc'[d] = "rhashes" /\ UNCHANGED <<job, answer>>
        /\ tally'[d] = run_get_tally(job[d].e)
    BY <1>5, <1>9 DEF fetch_tally, Goto
  <2>2. job[d].e \in Elections /\ election[job[d].e] = "PUBLISHED"
    BY <2>1 DEF ResultsKept, ResultSteps
  <2> QED BY <1>2, <1>4, <2>1, <2>2
<1>a. CASE fetch_hashes(d)
  <2>1. PICK rows \in run_get_hashes(job[d].e) :
          Return(d, [code |-> "OK", e |-> job[d].e, tally |-> tally[d], hashes |-> rows])
    BY <1>a DEF fetch_hashes
  <2>2. /\ pc[d] = "rhashes" /\ pc'[d] = "idle"
        /\ answer'[d].e = job[d].e /\ answer'[d].tally = tally[d] /\ answer'[d].hashes = rows
    BY <1>5, <1>a, <2>1 DEF fetch_hashes, Return, Forget, Goto
  <2>3. /\ job[d].e \in Elections /\ election[job[d].e] = "PUBLISHED"
        /\ tally[d] = run_get_tally(job[d].e)
    BY <2>2 DEF ResultsKept, ResultSteps
  <2>4. rows = Live(job[d].e)
    BY <2>1, <2>3, LiveFits
  <2>5. Answered(answer'[d])
    BY <1>2, <2>2, <2>3, <2>4
  <2>6. Gathered(pc'[d], job'[d], tally'[d])
    BY <2>2 DEF ResultSteps
  <2> QED BY <2>5, <2>6
<1> HIDE DEF Gathered, Answered
<1> QED
  BY <1>6, <1>7, <1>8, <1>9, <1>a, ResultMoves DEF IInv, GInv

\* A published answer's tally and hash list are of one ballot box, complete, and
\* stay what the table holds, for any number of contexts and voters, when one
\* context records and one is the administrator's: GET_TALLY and GET_HASHES are two transactions,
\* and nothing changes a published election between them or afterwards.
THEOREM PublishedAgree ==
    ASSUME OneRecorder, OneAdministrator
    PROVE  Spec => []ResultsAgree
<1> DEFINE TInv == \A c \in Ctxs : TransitionHolds(c)
           RInv == \A c \in Ctxs : ResultsKept(c)
<1>1. Init => RInv
  <2> SUFFICES ASSUME Init, NEW c \in Ctxs
               PROVE  ResultsKept(c)
    OBVIOUS
  <2>1. pc[c] = "idle" /\ answer[c].e = NoRow
    BY DEF Init, NoAnswer, Coded
  <2> QED BY <2>1 DEF ResultsKept, ResultSteps
<1>2. IInv /\ TInv /\ RInv /\ [Next]_vars => RInv'
  BY ResultsKeep
<1>3. RInv => ResultsAgree
  <2> SUFFICES ASSUME RInv, NEW c \in Ctxs, answer[c].e # NoRow
               PROVE  /\ answer[c].hashes = Live(answer[c].e)
                      /\ \A o \in Options : answer[c].tally[o] =
                           Cardinality({b \in answer[c].hashes : b.opt = o})
    BY DEF ResultsAgree
  <2>1. /\ answer[c].hashes = Live(answer[c].e)
        /\ answer[c].tally = run_get_tally(answer[c].e)
    BY DEF ResultsKept
  <2>2. answer[c].tally =
          [o \in Options |-> Cardinality({b \in answer[c].hashes : b.opt = o})]
    BY <2>1, Zenon DEF run_get_tally
  <2> QED BY <2>1, <2>2, Zenon
<1>4. Spec => []TInv
  BY TransitionsHold
<1> HIDE DEF TInv, RInv
<1> QED
  BY <1>1, <1>2, <1>3, <1>4, Inductive, PTL DEF Spec
=============================================================================
