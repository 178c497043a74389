------------------------- MODULE BallotBrain_proofs -------------------------
(***************************************************************************)
(* Theorems about BallotBrain, for any number of contexts, elections,      *)
(* voters, nonces and attempts.  GInv is inductive however many contexts   *)
(* record: the election an open transaction has read is still OPEN, and a  *)
(* request in progress has changed nothing.  IInv is inductive when one    *)
(* context records (OneRecorder): what its transaction has read of the     *)
(* other tables still holds, what it has written is a known function of    *)
(* the tables, and the tables are consistent.                              *)
(***************************************************************************)
EXTENDS BallotBrainProps, TLAPS

\* A leaf is for Zenon, unless it names another prover.
USE ZenonT(40)

-----------------------------------------------------------------------------
(* Any number of contexts that record.  Which contexts a step leaves       *)
(* alone, when an answer or a statement that goes on keeps GInv, and that  *)
(* the statements of every request do.                                     *)

\* The part of GInv that speaks of one context.
Local(c) == LoadHolds(c) /\ WritesStart(c) /\ OtherJobs(c)

\* A context whose own variables stay keeps Local, unless an election that it
\* has read changes.
LEMMA LocalFrame ==
    ASSUME NEW d \in Ctxs, Local(d),
           pc'[d] = pc[d], job'[d] = job[d], prior'[d] = prior[d],
           tx'[d] = tx[d], applied'[d] = applied[d],
           pc[d] \in AfterLoad => UNCHANGED election
    PROVE  Local(d)'
<1>1. LoadHolds(d)'
  <2>1. Version(d)' = Version(d)
    BY DEF Version
  <2> QED
    BY <2>1 DEF Local, LoadHolds
<1>2. WritesStart(d)' /\ OtherJobs(d)'
  BY DEF Local, WritesStart, OtherJobs
<1> QED
  BY <1>1, <1>2 DEF Local

\* A transaction begins with nothing written.
LEMMA NoWrites ==
    /\ EmptyTx \in Txs
    /\ EmptyTx.ballot = {} /\ EmptyTx.gone = {} /\ EmptyTx.owner = {}
    /\ EmptyTx.left = {} /\ EmptyTx.nonce = {}
BY SMT DEF EmptyTx, Txs

\* A transaction that has written nothing, at a step before the first write.
LEMMA NothingWritten ==
    ASSUME NEW c \in Ctxs, pc[c] \notin AfterAppend, WritesStart(c)
    PROVE  /\ tx[c].ballot = {} /\ tx[c].gone = {} /\ tx[c].owner = {}
           /\ tx[c].left = {} /\ tx[c].nonce = {}
BY DEF WritesStart, AfterAppend

\* What superseding does to one row: only sup may change, and only of the row
\* with the prior hash.
LEMMA SupersedeRow ==
    ASSUME NEW b \in BallotRows
    PROVE  LET x == [b EXCEPT !.sup = TRUE]
           IN  /\ x \in BallotRows
               /\ x.e = b.e /\ x.hash = b.hash /\ x.opt = b.opt
               /\ x.ver = b.ver /\ x.n = b.n /\ x.sup = TRUE
BY DEF BallotRows

\* The rows a recording transaction writes are rows of their tables.
LEMMA NewRowsType ==
    ASSUME NEW c \in Ctxs, job[c] \in RecordJobs, Version(c) \in 1..MaxVersion
    PROVE  /\ NewRow(c) \in BallotRows
           /\ NewOwner(c) \in OwnerRows
           /\ <<job[c].e, job[c].n>> \in Elections \X Nonces
BY SMT DEF NewRow, NewOwner, BallotRows, OwnerRows, RecordJobs, Jobs, Hashes,
       bb_issue_receipt

\* The end of a request keeps the types, whatever it did to the tables.
LEMMA ReturnType ==
    ASSUME TypeOK, NEW c \in Ctxs, NEW a, a.code \in Codes, Return(c, a),
           election' \in [Elections -> States \cup {"NONE"}],
           ballot' \subseteq BallotRows, owner' \subseteq OwnerRows,
           nonce' \subseteq Elections \X Nonces,
           applied' \in [Ctxs -> BOOLEAN], receipts' \subseteq Receipts
    PROVE  TypeOK'
<1>1. EmptyTx \in Txs
  BY DEF EmptyTx, Txs
<1>2. 0 \in 0..(MaxAttempts - 1)
  BY ConfigAssumption, SMT
<1>3. /\ pc' \in [Ctxs -> Steps \cup {"idle"}]
      /\ job' \in [Ctxs -> Jobs \cup {NoRow}]
      /\ attempt' \in [Ctxs -> 0..(MaxAttempts - 1)]
      /\ prior' \in [Ctxs -> OwnerRows \cup {NoRow}]
      /\ tx' \in [Ctxs -> Txs]
  BY <1>1, <1>2 DEF TypeOK, Return, Forget, Goto
<1>4. DOMAIN tally' = Ctxs /\ DOMAIN answer' = Ctxs
  BY DEF TypeOK, Return, Forget
<1>5. \A d \in Ctxs : answer'[d].code \in Codes
  BY DEF TypeOK, Return
<1> QED
  BY <1>3, <1>4, <1>5 DEF TypeOK

\* The end of a request forgets what it knew.
LEMMA ReturnLocal ==
    ASSUME GInv, NEW c \in Ctxs, NEW a, Return(c, a),
           \A d \in Ctxs \ {c} :
              /\ applied'[d] = applied[d]
              /\ pc[d] \in AfterLoad => UNCHANGED election
    PROVE  \A d \in Ctxs : Local(d)'
<1>2. ASSUME NEW d \in Ctxs, d # c PROVE Local(d)'
  <2>1. /\ pc'[d] = pc[d] /\ job'[d] = job[d] /\ prior'[d] = prior[d]
        /\ tx'[d] = tx[d] /\ applied'[d] = applied[d]
    BY <1>2 DEF Return, Forget, Goto, GInv, TypeOK
  <2>2. Local(d)
    BY DEF GInv, Local
  <2> QED
    BY <1>2, <2>1, <2>2, LocalFrame
<1>3. Local(c)'
  <2>1. pc'[c] = "idle" /\ tx'[c] = EmptyTx
    BY DEF Return, Forget, Goto, GInv, TypeOK
  <2>2. /\ tx'[c].ballot = {} /\ tx'[c].gone = {} /\ tx'[c].owner = {}
        /\ tx'[c].left = {} /\ tx'[c].nonce = {}
    BY <2>1, NoWrites
  <2>3. LoadHolds(c)'
    BY <2>1, <2>2 DEF LoadHolds, RecordSteps, AfterLoad, AfterAppend
  <2>4. WritesStart(c)' /\ OtherJobs(c)'
    BY <2>1, <2>2 DEF WritesStart, OtherJobs, TransitionSteps
  <2> QED
    BY <2>3, <2>4 DEF Local
<1> QED
  BY <1>2, <1>3

\* A request that ends without having written keeps GInv.
LEMMA RefusalKeeps ==
    ASSUME GInv, NEW c \in Ctxs, NEW a, a.code \in Codes, pc[c] # "idle",
           Return(c, a), UNCHANGED <<tables, applied, receipts>>
    PROVE  GInv'
<1>0. UNCHANGED <<election, ballot, owner, nonce, applied, receipts>>
  BY DEF tables
<1>1. TypeOK'
  BY <1>0, ReturnType DEF GInv, TypeOK
<1>2. \A d \in Ctxs : Local(d)'
  BY <1>0, ReturnLocal
<1>4. AnswerHonest'
  <2>1. ~applied'[c]
    BY <1>0 DEF GInv, OtherJobs
  <2>2. \A d \in Ctxs \ {c} : pc'[d] = pc[d] /\ answer'[d] = answer[d]
    BY DEF Return, Forget, Goto, GInv, TypeOK
  <2> QED
    BY <1>0, <2>1, <2>2 DEF GInv, AnswerHonest
<1> QED
  BY <1>1, <1>2, <1>4 DEF GInv, Local

\* A statement that succeeds and leaves the request open keeps GInv, if it
\* establishes what Local says of its next step.
LEMMA AdvanceKeeps ==
    ASSUME GInv, NEW c \in Ctxs, NEW s \in Steps, Goto(c, s),
           UNCHANGED <<tables, answer, applied, receipts, job>>,
           attempt' \in [Ctxs -> 0..(MaxAttempts - 1)],
           prior' \in [Ctxs -> OwnerRows \cup {NoRow}],
           tx' \in [Ctxs -> Txs], DOMAIN tally' = Ctxs,
           \A d \in Ctxs \ {c} : prior'[d] = prior[d] /\ tx'[d] = tx[d],
           Local(c)'
    PROVE  GInv'
<1>0. UNCHANGED <<election, ballot, owner, nonce>>
  BY DEF tables
<1>1. pc \in [Ctxs -> Steps \cup {"idle"}]
  BY DEF GInv, TypeOK
<1>2. pc'[c] = s /\ \A d \in Ctxs \ {c} : pc'[d] = pc[d]
  BY <1>1 DEF Goto
<1>3. TypeOK'
  <2>1. pc' \in [Ctxs -> Steps \cup {"idle"}]
    BY <1>1 DEF Goto
  <2> QED
    BY <1>0, <2>1 DEF GInv, TypeOK
<1>6. ASSUME NEW d \in Ctxs, d # c PROVE Local(d)'
  <2>1. Local(d)
    BY DEF GInv, Local
  <2> QED
    BY <1>0, <1>2, <1>6, <2>1, LocalFrame
<1>7. AnswerHonest'
  <2>1. s # "idle"
    BY DEF Steps, RecordSteps, TransitionSteps, JoinSteps, ResultsSteps, LookupSteps
  <2> QED
    BY <1>2, <2>1 DEF GInv, AnswerHonest
<1> QED
  BY <1>3, <1>6, <1>7 DEF GInv, Local

\* The same, for a statement that only reads: the transaction's own variables
\* stay, too.
LEMMA ReadKeeps ==
    ASSUME GInv, NEW c \in Ctxs, NEW s \in Steps, Goto(c, s),
           UNCHANGED <<tables, answer, applied, receipts, job, attempt, prior, tx>>,
           DOMAIN tally' = Ctxs, Local(c)'
    PROVE  GInv'
BY AdvanceKeeps DEF GInv, TypeOK

\* A handler outside bb_record_ballot knows nothing between its statements.
LEMMA OneShotKeeps ==
    ASSUME GInv, NEW c \in Ctxs, pc[c] # "idle", pc[c] \notin AfterAppend,
           NEW s \in Steps \ RecordSteps, Goto(c, s),
           UNCHANGED <<tables, answer, applied, receipts, job, attempt, prior, tx>>,
           DOMAIN tally' = Ctxs, s \in TransitionSteps => pc[c] \in TransitionSteps
    PROVE  GInv'
<1>2. pc'[c] = s
  BY DEF Goto, GInv, TypeOK
<1>3. Local(c)'
  <2>1. WritesStart(c) /\ OtherJobs(c)
    BY DEF GInv
  <2>2. /\ s \notin RecordSteps /\ s \notin AfterLoad /\ s \notin AfterAppend
        /\ s \notin {"consume", "commit"} /\ s # "commit"
    BY DEF RecordSteps, AfterLoad, AfterAppend
  <2>3. LoadHolds(c)'
    BY <1>2, <2>1, <2>2, NothingWritten DEF LoadHolds
  <2>4. WritesStart(c)'
    BY <1>2, <2>1, <2>2, NothingWritten DEF WritesStart
  <2>5. OtherJobs(c)'
    BY <1>2, <2>1 DEF OtherJobs, TransitionSteps
  <2> QED
    BY <2>3, <2>4, <2>5 DEF Local
<1> QED
  BY <1>3, ReadKeeps

\* The statements of bb_record_ballot's transaction that only read.
LEMMA RecordReadsKeep ==
    ASSUME GInv, NEW c \in Ctxs,
           bb_db_begin(c) \/ record_load(c) \/ record_nonce_seen(c) \/ record_prior(c)
    PROVE  GInv'
<1>0. /\ pc \in [Ctxs -> Steps \cup {"idle"}] /\ prior \in [Ctxs -> OwnerRows \cup {NoRow}]
      /\ tx \in [Ctxs -> Txs] /\ LoadHolds(c) /\ WritesStart(c) /\ OtherJobs(c)
      /\ DOMAIN tally = Ctxs /\ owner \subseteq OwnerRows
  BY DEF GInv, TypeOK
<1>1. /\ pc[c] \in {"begin", "load", "seen", "prior"}
      /\ UNCHANGED <<election, ballot, owner, nonce, applied, receipts>>
  BY DEF bb_db_begin, record_load, record_nonce_seen, record_prior, tables
<1>2. job[c] \in RecordJobs /\ pc[c] \notin AfterAppend /\ pc[c] # "idle"
  BY <1>0, <1>1 DEF LoadHolds, RecordSteps, AfterAppend
<1>3. ASSUME NEW s \in {"load", "seen", "prior", "append"}, pc'[c] = s,
             UNCHANGED <<election, job, applied>>,
             tx'[c].ballot = {}, tx'[c].gone = {}, tx'[c].owner = {},
             tx'[c].left = {}, tx'[c].nonce = {},
             s \in AfterLoad => /\ election[job[c].e] = "OPEN"
                                /\ job[c].v \in Eligible[job[c].e]
                                /\ job[c].o < OptionCount[job[c].e]
      PROVE  Local(c)' /\ s \in Steps
  <2>1. LoadHolds(c)'
    BY <1>2, <1>3 DEF LoadHolds, AfterAppend
  <2>2. WritesStart(c)' /\ OtherJobs(c)'
    BY <1>0, <1>2, <1>3 DEF WritesStart, OtherJobs, TransitionSteps
  <2> QED
    BY <2>1, <2>2 DEF Local, Steps, RecordSteps
<1>4. /\ tx[c].ballot = {} /\ tx[c].gone = {} /\ tx[c].owner = {}
      /\ tx[c].left = {} /\ tx[c].nonce = {}
  BY <1>0, <1>2, NothingWritten
<1>5. ASSUME NEW s \in {"load", "seen", "prior"}, Goto(c, s),
             UNCHANGED <<locals, answer>>,
             s \in AfterLoad => /\ election[job[c].e] = "OPEN"
                                /\ job[c].v \in Eligible[job[c].e]
                                /\ job[c].o < OptionCount[job[c].e]
      PROVE  GInv'
  <2>1. pc'[c] = s /\ UNCHANGED <<job, attempt, prior, tx, tally>>
    BY <1>0, <1>5 DEF Goto, locals
  <2>2. UNCHANGED tables
    BY <1>1 DEF tables
  <2>3. Local(c)' /\ s \in Steps
    BY <1>1, <1>3, <1>4, <1>5, <2>1
  <2> QED
    BY <1>0, <1>1, <1>5, <2>1, <2>2, <2>3, ReadKeeps
<1>6. CASE bb_db_begin(c)
  <2>1. Goto(c, "load") /\ UNCHANGED <<locals, answer>> /\ "load" \notin AfterLoad
    BY <1>6 DEF bb_db_begin, AfterLoad
  <2> QED
    BY <1>5, <2>1
<1>7. CASE record_load(c)
  <2>1. CASE record_gate(job[c]) = "OK"
    <3>1. Goto(c, "seen") /\ UNCHANGED <<locals, answer>>
      BY <1>7, <2>1 DEF record_load
    <3>2. /\ election[job[c].e] = "OPEN" /\ job[c].v \in Eligible[job[c].e]
          /\ job[c].o < OptionCount[job[c].e]
      <4>1. election[job[c].e] \in States \cup {"NONE"}
        BY <1>2 DEF GInv, TypeOK, RecordJobs, Jobs
      <4>2. /\ election[job[c].e] = "OPEN" /\ job[c].v \in Eligible[job[c].e]
            /\ ~(job[c].o >= OptionCount[job[c].e])
        BY <2>1, <4>1 DEF record_gate, bb_check_eligibility, States
      <4>3. job[c].o \in Nat /\ OptionCount[job[c].e] \in Nat
        BY <1>2, ConfigAssumption DEF RecordJobs, Jobs
      <4> QED
        BY <4>2, <4>3, SMT
    <3> QED
      BY <1>5, <3>1, <3>2
  <2>2. CASE record_gate(job[c]) # "OK"
    <3>1. /\ Return(c, Coded(record_gate(job[c])))
          /\ UNCHANGED <<tables, applied, receipts>>
      BY <1>7, <2>2 DEF record_load
    <3>2. Coded(record_gate(job[c])).code \in Codes
      BY DEF Coded, record_gate, Codes
    <3> QED
      BY <1>2, <3>1, <3>2, RefusalKeeps
  <2> QED BY <2>1, <2>2
<1>8. CASE record_nonce_seen(c)
  <2>1. CASE <<job[c].e, job[c].n>> \notin nonce
    <3>1. Goto(c, "prior") /\ UNCHANGED <<locals, answer>> /\ pc[c] = "seen"
      BY <1>8, <2>1 DEF record_nonce_seen
    <3>2. /\ election[job[c].e] = "OPEN" /\ job[c].v \in Eligible[job[c].e]
          /\ job[c].o < OptionCount[job[c].e]
      BY <1>0, <3>1 DEF LoadHolds, AfterLoad
    <3> QED
      BY <1>5, <3>1, <3>2
  <2>2. CASE <<job[c].e, job[c].n>> \in nonce
    <3>1. Return(c, Coded("REPLAY")) /\ UNCHANGED <<tables, applied, receipts>>
      BY <1>8, <2>2 DEF record_nonce_seen
    <3>2. Coded("REPLAY").code \in Codes
      BY DEF Coded, Codes
    <3> QED
      BY <1>2, <3>1, <3>2, RefusalKeeps
  <2> QED BY <2>1, <2>2
<1>9. CASE record_prior(c)
  <2>1. /\ pc[c] = "prior" /\ Goto(c, "append") /\ pc'[c] = "append"
        /\ UNCHANGED <<tables, answer, applied, receipts, job, attempt, tally>>
        /\ tx' = [tx EXCEPT ![c].read = owner]
    BY <1>0, <1>9 DEF record_prior, Goto
  <2>2. PICK r \in run_get_prior_ballot(job[c].e, job[c].v) :
               prior' = [prior EXCEPT ![c] = r]
    BY <1>9 DEF record_prior
  <2>3. r \in OwnerRows \cup {NoRow}
    BY <1>0 DEF run_get_prior_ballot
  <2>4. /\ prior' \in [Ctxs -> OwnerRows \cup {NoRow}]
        /\ \A d \in Ctxs \ {c} : prior'[d] = prior[d]
    BY <1>0, <2>2, <2>3
  <2>5. /\ tx' \in [Ctxs -> Txs] /\ \A d \in Ctxs \ {c} : tx'[d] = tx[d]
        /\ tx'[c].ballot = {} /\ tx'[c].gone = {} /\ tx'[c].owner = {}
        /\ tx'[c].left = {} /\ tx'[c].nonce = {}
    <3>1. tx' \in [Ctxs -> Txs] /\ \A d \in Ctxs \ {c} : tx'[d] = tx[d]
      BY <1>0, <2>1 DEF Txs
    <3>2. /\ tx'[c].ballot = tx[c].ballot /\ tx'[c].gone = tx[c].gone
          /\ tx'[c].owner = tx[c].owner /\ tx'[c].left = tx[c].left
          /\ tx'[c].nonce = tx[c].nonce
      BY <1>0, <2>1 DEF Txs
    <3> QED BY <1>0, <1>4, <2>1, <3>1, <3>2
  <2>6. /\ election[job[c].e] = "OPEN" /\ job[c].v \in Eligible[job[c].e]
        /\ job[c].o < OptionCount[job[c].e]
    BY <1>0, <2>1 DEF LoadHolds, AfterLoad
  <2>7. Local(c)' /\ "append" \in Steps
    BY <1>1, <1>3, <2>1, <2>5, <2>6
  <2>8. attempt' \in [Ctxs -> 0..(MaxAttempts - 1)] /\ DOMAIN tally' = Ctxs
    BY <2>1 DEF GInv, TypeOK
  <2> QED
    BY <2>1, <2>4, <2>5, <2>7, <2>8, AdvanceKeeps
<1> QED
  BY <1>6, <1>7, <1>8, <1>9

\* The reading handlers and the read of a transition change no table.
LEMMA OtherStepsKeep ==
    ASSUME GInv, NEW c \in Ctxs, Read(c) \/ transition_get(c) \/ OneShotFails(c)
    PROVE  GInv'
<1>0. \A code \in Codes : Coded(code).code \in Codes
  BY DEF Coded
<1>1. DOMAIN tally = Ctxs
  BY DEF GInv, TypeOK
<1>2. ASSUME NEW a, a.code \in Codes, pc[c] # "idle", Return(c, a),
             UNCHANGED <<tables, applied, receipts>>
      PROVE  GInv'
  BY <1>2, RefusalKeeps
<1>3. ASSUME NEW s \in Steps \ RecordSteps, Goto(c, s), pc[c] # "idle",
             pc[c] \notin AfterAppend,
             UNCHANGED <<tables, locals, answer, applied, receipts>>,
             s \in TransitionSteps => pc[c] \in TransitionSteps
      PROVE  GInv'
  <2>1. /\ UNCHANGED <<tables, answer, applied, receipts, job, attempt, prior, tx>>
        /\ DOMAIN tally' = Ctxs
    BY <1>1, <1>3 DEF locals
  <2> QED
    BY <1>3, <2>1, OneShotKeeps
<1>a. pc[c] \notin AfterAppend
  BY DEF Read, join_load, join_prior, results_load, fetch_tally, fetch_hashes,
     lookup_load, run_find_hash, transition_get, OneShotFails, AfterAppend, RecordSteps
<1>4. /\ {"update", "jprior", "rtally", "rhashes", "lfind"} \subseteq Steps \ RecordSteps
      /\ {"jprior", "rtally", "rhashes", "lfind"} \cap TransitionSteps = {}
      /\ {"get", "update"} = TransitionSteps
  BY DEF Steps, RecordSteps, TransitionSteps, JoinSteps, ResultsSteps, LookupSteps
<1>5. CASE join_load(c)
  <2>1. join_gate(job[c]) \in Codes
    BY DEF join_gate, Codes
  <2>2. CASE join_gate(job[c]) = "OK"
    <3>1. /\ Goto(c, "jprior") /\ pc[c] # "idle"
          /\ UNCHANGED <<tables, locals, answer, applied, receipts>>
      BY <1>5, <2>2 DEF join_load
    <3> QED BY <1>3, <1>4, <1>a, <3>1
  <2>3. CASE join_gate(job[c]) # "OK"
    <3>1. /\ Return(c, Coded(join_gate(job[c]))) /\ pc[c] # "idle"
          /\ UNCHANGED <<tables, applied, receipts>>
      BY <1>5, <2>3 DEF join_load
    <3> QED BY <1>0, <1>2, <2>1, <3>1
  <2> QED BY <2>2, <2>3
<1>6. CASE join_prior(c)
  <2>1. /\ Return(c, Coded("OK")) /\ pc[c] # "idle" /\ "OK" \in Codes
        /\ UNCHANGED <<tables, applied, receipts>>
    BY <1>6 DEF join_prior, Codes
  <2> QED BY <1>0, <1>2, <2>1
<1>7. CASE results_load(c)
  <2>1. results_gate(job[c]) \in Codes
    BY DEF results_gate, Codes
  <2>2. CASE results_gate(job[c]) = "OK"
    <3>1. /\ Goto(c, "rtally") /\ pc[c] # "idle"
          /\ UNCHANGED <<tables, locals, answer, applied, receipts>>
      BY <1>7, <2>2 DEF results_load
    <3> QED BY <1>3, <1>4, <1>a, <3>1
  <2>3. CASE results_gate(job[c]) # "OK"
    <3>1. /\ Return(c, Coded(results_gate(job[c]))) /\ pc[c] # "idle"
          /\ UNCHANGED <<tables, applied, receipts>>
      BY <1>7, <2>3 DEF results_load
    <3> QED BY <1>0, <1>2, <2>1, <3>1
  <2> QED BY <2>2, <2>3
<1>8. CASE fetch_tally(c)
  <2>1. /\ Goto(c, "rhashes") /\ pc[c] # "idle"
        /\ UNCHANGED <<tables, answer, applied, receipts, job, attempt, prior, tx>>
    BY <1>8 DEF fetch_tally
  <2>2. DOMAIN tally' = Ctxs
    BY <1>1, <1>8 DEF fetch_tally
  <2> QED
    BY <1>4, <1>a, <2>1, <2>2, OneShotKeeps
<1>9. CASE fetch_hashes(c)
  <2>1. pc[c] # "idle" /\ UNCHANGED <<tables, applied, receipts>>
    BY <1>9 DEF fetch_hashes
  <2>2. PICK rows \in run_get_hashes(job[c].e) :
               Return(c, [code |-> "OK", e |-> job[c].e, tally |-> tally[c],
                          hashes |-> rows])
    BY <1>9, Zenon DEF fetch_hashes
  <2> DEFINE a == [code |-> "OK", e |-> job[c].e, tally |-> tally[c], hashes |-> rows]
  <2>3. a.code \in Codes /\ Return(c, a)
    BY <2>2 DEF Codes
  <2> HIDE DEF a
  <2> QED BY <1>2, <2>1, <2>3
<1>10. CASE lookup_load(c)
  <2>1. CASE election[job[c].e] # "NONE"
    <3>1. /\ Goto(c, "lfind") /\ pc[c] # "idle"
          /\ UNCHANGED <<tables, locals, answer, applied, receipts>>
      BY <1>10, <2>1 DEF lookup_load
    <3> QED BY <1>3, <1>4, <1>a, <3>1
  <2>2. CASE election[job[c].e] = "NONE"
    <3>1. /\ Return(c, Coded("NOT_FOUND")) /\ pc[c] # "idle" /\ "NOT_FOUND" \in Codes
          /\ UNCHANGED <<tables, applied, receipts>>
      BY <1>10, <2>2 DEF lookup_load, Codes
    <3> QED BY <1>0, <1>2, <3>1
  <2> QED BY <2>1, <2>2
<1>11. CASE run_find_hash(c)
  <2> DEFINE code == IF \E b \in Live(job[c].e) : b.hash = job[c].h
                     THEN "OK" ELSE "NOT_FOUND"
  <2>1. /\ Return(c, Coded(code)) /\ pc[c] # "idle"
        /\ UNCHANGED <<tables, applied, receipts>>
    BY <1>11 DEF run_find_hash
  <2>2. code \in Codes
    BY DEF Codes
  <2> HIDE DEF code
  <2> QED BY <1>0, <1>2, <2>1, <2>2
<1>12. CASE transition_get(c)
  <2>1. pc[c] = "get" /\ UNCHANGED <<tables, applied, receipts>>
    BY <1>12 DEF transition_get
  <2>2. \/ \E code \in {"NOT_FOUND", "ILLEGAL_TRANSITION"} : Return(c, Coded(code))
        \/ Goto(c, "update") /\ UNCHANGED <<locals, answer>>
    BY <1>12 DEF transition_get
  <2>3. {"NOT_FOUND", "ILLEGAL_TRANSITION"} \subseteq Codes
    BY DEF Codes
  <2> QED BY <1>0, <1>2, <1>3, <1>4, <1>a, <2>1, <2>2, <2>3
<1>13. CASE OneShotFails(c)
  <2>1. /\ Return(c, Coded("DB")) /\ pc[c] # "idle" /\ "DB" \in Codes
        /\ UNCHANGED <<tables, applied, receipts>>
    BY <1>13 DEF OneShotFails, Codes, Steps, RecordSteps, TransitionSteps,
       JoinSteps, ResultsSteps, LookupSteps
  <2> QED BY <1>0, <1>2, <2>1
<1> QED
  BY <1>5, <1>6, <1>7, <1>8, <1>9, <1>10, <1>11, <1>12, <1>13 DEF Read

(***************************************************************************)
(* The writing statements of bb_record_ballot's transaction, its retry and *)
(* the acceptance of a request.                                            *)
(***************************************************************************)
\* APPEND_BALLOT adds the new row to the transaction.
LEMMA AppendKeeps ==
    ASSUME GInv, NEW c \in Ctxs, run_append_ballot(c)
    PROVE  GInv'
<1> DEFINE s == IF prior[c] = NoRow THEN "owner" ELSE "mark"
           R == tx[c].ballot \cup {NewRow(c)}
<1>1. /\ pc[c] = "append" /\ Goto(c, s) /\ Version(c) <= MaxVersion
      /\ tx' = [tx EXCEPT ![c].ballot = R]
      /\ UNCHANGED <<tables, answer, applied, receipts, job, attempt, prior, tally>>
  BY DEF run_append_ballot
<1>2. /\ pc \in [Ctxs -> Steps \cup {"idle"}] /\ tx \in [Ctxs -> Txs]
      /\ LoadHolds(c) /\ WritesStart(c) /\ OtherJobs(c)
      /\ prior[c] \in OwnerRows \cup {NoRow}
  BY DEF GInv, TypeOK
<1>3. Version(c) \in 1..MaxVersion
  BY <1>1, <1>2, ConfigAssumption, SMT DEF Version, OwnerRows
<1>4. /\ job[c] \in RecordJobs /\ election[job[c].e] = "OPEN"
      /\ job[c].v \in Eligible[job[c].e] /\ job[c].o < OptionCount[job[c].e]
  BY <1>1, <1>2 DEF LoadHolds, RecordSteps, AfterLoad
<1>5. /\ tx[c].ballot = {} /\ tx[c].gone = {} /\ tx[c].owner = {}
      /\ tx[c].left = {} /\ tx[c].nonce = {}
  BY <1>1, <1>2, NothingWritten DEF AfterAppend
<1>6. R \in SUBSET BallotRows /\ R = {NewRow(c)}
  BY <1>3, <1>4, <1>5, NewRowsType
<1> HIDE DEF R
<1>7. /\ tx' \in [Ctxs -> Txs] /\ \A d \in Ctxs \ {c} : tx'[d] = tx[d]
      /\ tx'[c].ballot = R /\ tx'[c].gone = {} /\ tx'[c].owner = {}
      /\ tx'[c].left = {} /\ tx'[c].nonce = {}
  BY <1>1, <1>2, <1>5, <1>6 DEF Txs
<1>8. s \in {"owner", "mark"} /\ s \in Steps /\ pc'[c] = s
  BY <1>1, <1>2 DEF Steps, RecordSteps, Goto
<1>9. Version(c)' = Version(c)
  BY <1>1 DEF Version
<1>10. Local(c)'
  <2>1. \A b \in tx'[c].ballot \cup tx'[c].gone : b.e = job[c].e
    <3>1. NewRow(c).e = job[c].e
      BY DEF NewRow
    <3> QED BY <1>6, <1>7, <3>1
  <2>2. LoadHolds(c)'
    BY <1>1, <1>3, <1>4, <1>9, <2>1 DEF LoadHolds, tables
  <2>3. WritesStart(c)'
    BY <1>7, <1>8 DEF WritesStart, AfterAppend
  <2>4. OtherJobs(c)'
    BY <1>1, <1>2, <1>8 DEF OtherJobs, TransitionSteps
  <2> QED BY <2>2, <2>3, <2>4 DEF Local
<1>12. /\ attempt' \in [Ctxs -> 0..(MaxAttempts - 1)]
       /\ prior' \in [Ctxs -> OwnerRows \cup {NoRow}]
       /\ DOMAIN tally' = Ctxs /\ \A d \in Ctxs : prior'[d] = prior[d]
  BY <1>1 DEF GInv, TypeOK
<1> HIDE DEF s
<1> QED
  BY <1>1, <1>7, <1>8, <1>10, <1>12, AdvanceKeeps

\* A transaction with other ballot rows added is one.
LEMMA BallotFieldTx ==
    ASSUME NEW u \in Txs, NEW R \in SUBSET BallotRows
    PROVE  [u EXCEPT !.ballot = R] \in Txs
BY SMT DEF Txs

\* What MARK_SUPERSEDED does to the transaction.
LEMMA MarkTx ==
    ASSUME tx \in [Ctxs -> Txs], ballot \subseteq BallotRows, NEW c \in Ctxs,
           NEW r \in HashRows(c),
           tx' = [tx EXCEPT ![c].gone = @ \cup HashRows(c),
                            ![c].ballot = (@ \ HashRows(c)) \cup {[r EXCEPT !.sup = TRUE]}]
    PROVE  /\ tx' \in [Ctxs -> Txs] /\ \A d \in Ctxs \ {c} : tx'[d] = tx[d]
           /\ tx'[c].gone = tx[c].gone \cup HashRows(c)
           /\ tx'[c].ballot = (tx[c].ballot \ HashRows(c)) \cup {[r EXCEPT !.sup = TRUE]}
           /\ tx'[c].owner = tx[c].owner /\ tx'[c].left = tx[c].left
           /\ tx'[c].nonce = tx[c].nonce
           /\ [r EXCEPT !.sup = TRUE].e = job[c].e
           /\ \A b \in HashRows(c) : b.e = job[c].e
<1> DEFINE x == [r EXCEPT !.sup = TRUE]
           G == tx[c].gone \cup HashRows(c)
           R == (tx[c].ballot \ HashRows(c)) \cup {x}
<1>1. HashRows(c) \subseteq BallotRows /\ \A b \in HashRows(c) : b.e = job[c].e
  BY DEF HashRows, BallotOf, Txs
<1>2. x \in BallotRows /\ x.e = job[c].e
  BY <1>1, SupersedeRow
<1>3. tx' = [tx EXCEPT ![c].gone = G, ![c].ballot = R]
  BY Zenon
<1>4. G \in SUBSET BallotRows /\ R \in SUBSET BallotRows
  BY <1>1, <1>2 DEF Txs
<1> HIDE DEF x, G, R
<1>5. /\ tx' \in [Ctxs -> Txs] /\ \A d \in Ctxs \ {c} : tx'[d] = tx[d]
      /\ tx'[c].gone = G /\ tx'[c].ballot = R
      /\ tx'[c].owner = tx[c].owner /\ tx'[c].left = tx[c].left
      /\ tx'[c].nonce = tx[c].nonce
  <2>1. PICK t : t = [tx EXCEPT ![c].gone = G]
    OBVIOUS
  <2>2. tx' = [t EXCEPT ![c].ballot = R]
    BY <1>3, <2>1, Zenon
  <2>3. /\ t \in [Ctxs -> Txs] /\ \A d \in Ctxs \ {c} : t[d] = tx[d]
        /\ t[c].gone = G /\ t[c].ballot = tx[c].ballot
        /\ t[c].owner = tx[c].owner /\ t[c].left = tx[c].left
        /\ t[c].nonce = tx[c].nonce
    BY <1>4, <2>1 DEF Txs
  <2>4. /\ tx' \in [Ctxs -> Txs] /\ \A d \in Ctxs \ {c} : tx'[d] = t[d]
        /\ tx'[c].gone = t[c].gone /\ tx'[c].ballot = R
        /\ tx'[c].owner = t[c].owner /\ tx'[c].left = t[c].left
        /\ tx'[c].nonce = t[c].nonce
    <3>1. t \in [Ctxs -> Txs] /\ R \in SUBSET BallotRows
      BY <1>4, <2>3
    <3>3. /\ \A d \in Ctxs \ {c} : tx'[d] = t[d]
          /\ tx'[c] = [t[c] EXCEPT !.ballot = R]
      BY <2>2, <3>1
    <3>4. PICK u, w : u \in Txs /\ u = t[c] /\ w = [u EXCEPT !.ballot = R]
      BY <3>1
    <3>5. /\ w.ballot = R /\ w.gone = u.gone /\ w.owner = u.owner
          /\ w.left = u.left /\ w.nonce = u.nonce
      BY <3>4, SMT DEF Txs
    <3>a. w = tx'[c]
      BY <3>3, <3>4
    <3>2. tx' \in [Ctxs -> Txs]
      <4>1. w \in Txs
        BY <3>1, <3>4, BallotFieldTx, Zenon
      <4>2. tx' = [t EXCEPT ![c] = w]
        BY <2>2, <3>4, Zenon
      <4> QED BY <3>1, <4>1, <4>2
    <3>6. /\ tx'[c].ballot = R /\ tx'[c].gone = t[c].gone /\ tx'[c].owner = t[c].owner
          /\ tx'[c].left = t[c].left /\ tx'[c].nonce = t[c].nonce
      BY <3>4, <3>5, <3>a
    <3> QED BY <3>2, <3>3, <3>6
  <2> QED BY <2>3, <2>4
<1> QED
  BY <1>1, <1>2, <1>5, Zenon DEF x, G, R

\* MARK_SUPERSEDED keeps GInv.
LEMMA MarkKeeps ==
    ASSUME GInv, NEW c \in Ctxs, run_mark_superseded(c)
    PROVE  GInv'
<1>1. /\ pc[c] = "mark" /\ Goto(c, "owner")
      /\ UNCHANGED <<tables, answer, applied, receipts, job, attempt, prior, tally>>
  BY DEF run_mark_superseded
<1>2. PICK r \in HashRows(c) :
        tx' = [tx EXCEPT ![c].gone = @ \cup HashRows(c),
                         ![c].ballot = (@ \ HashRows(c)) \cup {[r EXCEPT !.sup = TRUE]}]
  BY Zenon DEF run_mark_superseded
<1>3. /\ pc \in [Ctxs -> Steps \cup {"idle"}] /\ tx \in [Ctxs -> Txs]
      /\ LoadHolds(c) /\ WritesStart(c) /\ OtherJobs(c) /\ ballot \subseteq BallotRows
  BY DEF GInv, TypeOK
<1> DEFINE x == [r EXCEPT !.sup = TRUE]
<1>4. /\ tx' \in [Ctxs -> Txs] /\ \A d \in Ctxs \ {c} : tx'[d] = tx[d]
      /\ tx'[c].gone = tx[c].gone \cup HashRows(c)
      /\ tx'[c].ballot = (tx[c].ballot \ HashRows(c)) \cup {x}
      /\ tx'[c].owner = tx[c].owner /\ tx'[c].left = tx[c].left
      /\ tx'[c].nonce = tx[c].nonce /\ x.e = job[c].e
      /\ \A b \in HashRows(c) : b.e = job[c].e
  BY <1>2, <1>3, MarkTx, Zenon
<1> HIDE DEF x
<1>5. pc'[c] = "owner" /\ "owner" \in Steps
  BY <1>1, <1>3 DEF Goto, Steps, RecordSteps
<1>6. Local(c)'
  <2>1. Version(c)' = Version(c)
    BY <1>1 DEF Version
  <2>2. \A b \in tx'[c].ballot \cup tx'[c].gone : b.e = job[c].e
    BY <1>3, <1>4 DEF LoadHolds
  <2>3. LoadHolds(c)'
    BY <1>1, <1>3, <1>5, <2>1, <2>2 DEF LoadHolds, RecordSteps, AfterLoad,
       AfterAppend, tables
  <2>4. WritesStart(c)'
    BY <1>1, <1>3, <1>4, <1>5 DEF WritesStart, AfterAppend
  <2>5. OtherJobs(c)'
    BY <1>1, <1>3, <1>5 DEF OtherJobs, TransitionSteps
  <2> QED BY <2>3, <2>4, <2>5 DEF Local
<1>7. /\ attempt' \in [Ctxs -> 0..(MaxAttempts - 1)]
      /\ prior' \in [Ctxs -> OwnerRows \cup {NoRow}]
      /\ DOMAIN tally' = Ctxs /\ \A d \in Ctxs : prior'[d] = prior[d]
  BY <1>1 DEF GInv, TypeOK
<1> QED
  BY <1>1, <1>4, <1>5, <1>6, <1>7, AdvanceKeeps

\* A transaction with other owner rows added is one.
LEMMA OwnerFieldTx ==
    ASSUME NEW u \in Txs, NEW O \in SUBSET OwnerRows
    PROVE  [u EXCEPT !.owner = O] \in Txs
BY SMT DEF Txs

\* What SET_OWNER and NONCE_MARK do to the transaction.
LEMMA OwnerTx ==
    ASSUME tx \in [Ctxs -> Txs], owner \subseteq OwnerRows, NEW c \in Ctxs,
           NewOwner(c) \in OwnerRows, run_set_owner(c)
    PROVE  /\ tx' \in [Ctxs -> Txs] /\ \A d \in Ctxs \ {c} : tx'[d] = tx[d]
           /\ tx'[c].left = tx[c].left \cup OldOwners(c)
           /\ tx'[c].owner = tx[c].owner \cup {NewOwner(c)}
           /\ tx'[c].ballot = tx[c].ballot /\ tx'[c].gone = tx[c].gone
           /\ tx'[c].nonce = tx[c].nonce
<1> DEFINE L == tx[c].left \cup OldOwners(c)
           O == tx[c].owner \cup {NewOwner(c)}
<1>1. tx' = [tx EXCEPT ![c].left = L, ![c].owner = O]
  BY Zenon DEF run_set_owner
<1>2. L \in SUBSET OwnerRows /\ O \in SUBSET OwnerRows
  BY DEF Txs, OldOwners
<1> HIDE DEF L, O
<1>3. /\ tx' \in [Ctxs -> Txs] /\ \A d \in Ctxs \ {c} : tx'[d] = tx[d]
      /\ tx'[c].left = L /\ tx'[c].owner = O
      /\ tx'[c].ballot = tx[c].ballot /\ tx'[c].gone = tx[c].gone
      /\ tx'[c].nonce = tx[c].nonce
  <2>1. PICK t : t = [tx EXCEPT ![c].left = L]
    OBVIOUS
  <2>2. tx' = [t EXCEPT ![c].owner = O]
    BY <1>1, <2>1, Zenon
  <2>3. /\ t \in [Ctxs -> Txs] /\ \A d \in Ctxs \ {c} : t[d] = tx[d]
        /\ t[c].left = L /\ t[c].ballot = tx[c].ballot
        /\ t[c].gone = tx[c].gone /\ t[c].nonce = tx[c].nonce
    BY <1>2, <2>1 DEF Txs
  <2>4. /\ tx' \in [Ctxs -> Txs] /\ \A d \in Ctxs \ {c} : tx'[d] = t[d]
        /\ tx'[c].left = t[c].left /\ tx'[c].owner = O
        /\ tx'[c].ballot = t[c].ballot /\ tx'[c].gone = t[c].gone
        /\ tx'[c].nonce = t[c].nonce
    <3>1. t \in [Ctxs -> Txs] /\ O \in SUBSET OwnerRows
      BY <1>2, <2>3
    <3>2. /\ \A d \in Ctxs \ {c} : tx'[d] = t[d]
          /\ tx'[c] = [t[c] EXCEPT !.owner = O]
      BY <2>2, <3>1
    <3>3. PICK u, w : u \in Txs /\ u = t[c] /\ w = [u EXCEPT !.owner = O]
      BY <3>1
    <3>4. /\ w.left = u.left /\ w.owner = O /\ w.ballot = u.ballot
          /\ w.gone = u.gone /\ w.nonce = u.nonce
      BY <3>3, SMT DEF Txs
    <3>5. w = tx'[c]
      BY <3>2, <3>3
    <3>6. tx' \in [Ctxs -> Txs]
      <4>1. w \in Txs
        BY <3>1, <3>3, OwnerFieldTx, Zenon
      <4>2. tx' = [t EXCEPT ![c] = w]
        BY <2>2, <3>3, Zenon
      <4> QED BY <3>1, <4>1, <4>2
    <3>7. /\ tx'[c].left = t[c].left /\ tx'[c].owner = O
          /\ tx'[c].ballot = t[c].ballot /\ tx'[c].gone = t[c].gone
          /\ tx'[c].nonce = t[c].nonce
      BY <3>3, <3>4, <3>5
    <3> QED BY <3>2, <3>6, <3>7
  <2> QED BY <2>3, <2>4
<1> QED
  BY <1>3 DEF L, O

\* The same of NONCE_MARK's insert.
LEMMA NonceTx ==
    ASSUME tx \in [Ctxs -> Txs], NEW c \in Ctxs,
           <<job[c].e, job[c].n>> \in Elections \X Nonces, run_nonce_mark(c)
    PROVE  /\ tx' \in [Ctxs -> Txs] /\ \A d \in Ctxs \ {c} : tx'[d] = tx[d]
           /\ tx'[c].nonce = tx[c].nonce \cup {<<job[c].e, job[c].n>>}
           /\ tx'[c].ballot = tx[c].ballot /\ tx'[c].gone = tx[c].gone
           /\ tx'[c].owner = tx[c].owner /\ tx'[c].left = tx[c].left
<1> DEFINE N == tx[c].nonce \cup {<<job[c].e, job[c].n>>}
<1>1. tx' = [tx EXCEPT ![c].nonce = N]
  BY Zenon DEF run_nonce_mark
<1>2. N \in SUBSET (Elections \X Nonces)
  BY DEF Txs
<1> HIDE DEF N
<1>3. /\ tx' \in [Ctxs -> Txs] /\ \A d \in Ctxs \ {c} : tx'[d] = tx[d]
      /\ tx'[c].nonce = N
      /\ tx'[c].ballot = tx[c].ballot /\ tx'[c].gone = tx[c].gone
      /\ tx'[c].owner = tx[c].owner /\ tx'[c].left = tx[c].left
  BY <1>1, <1>2, SMT DEF Txs
<1> QED
  BY <1>3 DEF N

\* SET_OWNER and NONCE_MARK keep GInv.
LEMMA OwnerNonceKeep ==
    ASSUME GInv, NEW c \in Ctxs, run_set_owner(c) \/ run_nonce_mark(c)
    PROVE  GInv'
<1>1. /\ pc \in [Ctxs -> Steps \cup {"idle"}] /\ tx \in [Ctxs -> Txs]
      /\ LoadHolds(c) /\ WritesStart(c) /\ OtherJobs(c) /\ owner \subseteq OwnerRows
  BY DEF GInv, TypeOK
<1>2. /\ pc[c] \in {"owner", "consume"}
      /\ UNCHANGED <<tables, answer, applied, receipts, job, attempt, prior, tally>>
  BY DEF run_set_owner, run_nonce_mark
<1>3. Version(c) \in 1..MaxVersion /\ job[c] \in RecordJobs
  BY <1>1, <1>2 DEF LoadHolds, RecordSteps, AfterAppend
<1>4. NewOwner(c) \in OwnerRows /\ <<job[c].e, job[c].n>> \in Elections \X Nonces
  BY <1>3, NewRowsType
<1>5. Version(c)' = Version(c)
  BY <1>2 DEF Version
<1>6. /\ attempt' \in [Ctxs -> 0..(MaxAttempts - 1)]
      /\ prior' \in [Ctxs -> OwnerRows \cup {NoRow}]
      /\ DOMAIN tally' = Ctxs /\ \A d \in Ctxs : prior'[d] = prior[d]
  BY <1>2 DEF GInv, TypeOK
<1>7. ASSUME pc'[c] \in {"consume", "commit"},
             tx'[c].ballot = tx[c].ballot, tx'[c].gone = tx[c].gone
      PROVE  LoadHolds(c)' /\ OtherJobs(c)'
  <2>1. \A b \in tx'[c].ballot \cup tx'[c].gone : b.e = job[c].e
    BY <1>1, <1>7 DEF LoadHolds
  <2>2. LoadHolds(c)'
    BY <1>1, <1>2, <1>3, <1>5, <1>7, <2>1 DEF LoadHolds, RecordSteps, AfterLoad,
       AfterAppend, tables
  <2> QED
    BY <1>1, <1>2, <1>7, <2>2 DEF OtherJobs, TransitionSteps
<1>8. CASE run_set_owner(c)
  <2>1. pc[c] = "owner" /\ Goto(c, "consume") /\ pc'[c] = "consume"
    BY <1>1, <1>8 DEF run_set_owner, Goto
  <2>2. /\ tx' \in [Ctxs -> Txs] /\ \A d \in Ctxs \ {c} : tx'[d] = tx[d]
        /\ tx'[c].ballot = tx[c].ballot /\ tx'[c].gone = tx[c].gone
        /\ tx'[c].nonce = tx[c].nonce
    BY <1>1, <1>4, <1>8, OwnerTx
  <2>3. WritesStart(c)'
    BY <1>1, <2>1, <2>2 DEF WritesStart, AfterAppend
  <2>4. Local(c)' /\ "consume" \in Steps
    BY <1>7, <2>1, <2>2, <2>3 DEF Local, Steps, RecordSteps
  <2> QED
    BY <1>2, <1>6, <2>1, <2>2, <2>4, AdvanceKeeps
<1>9. CASE run_nonce_mark(c)
  <2>1. pc[c] = "consume" /\ Goto(c, "commit") /\ pc'[c] = "commit"
    BY <1>1, <1>9 DEF run_nonce_mark, Goto
  <2>2. /\ tx' \in [Ctxs -> Txs] /\ \A d \in Ctxs \ {c} : tx'[d] = tx[d]
        /\ tx'[c].ballot = tx[c].ballot /\ tx'[c].gone = tx[c].gone
    BY <1>1, <1>4, <1>9, NonceTx
  <2>3. WritesStart(c)'
    BY <2>1 DEF WritesStart, AfterAppend
  <2>4. Local(c)' /\ "commit" \in Steps
    BY <1>7, <2>1, <2>2, <2>3 DEF Local, Steps, RecordSteps
  <2> QED
    BY <1>2, <1>6, <2>1, <2>2, <2>4, AdvanceKeeps
<1> QED
  BY <1>8, <1>9

\* A transaction aborted to break a deadlock starts again with nothing, or ends
\* the request.
LEMMA RetryKeeps ==
    ASSUME GInv, NEW c \in Ctxs, RecordRetry(c)
    PROVE  GInv'
<1>1. pc[c] # "idle" /\ pc[c] \in RecordSteps
  BY DEF RecordRetry, RecordSteps
<1>2. CASE attempt[c] + 1 < MaxAttempts
  <2>1. /\ Goto(c, "begin") /\ attempt' = [attempt EXCEPT ![c] = @ + 1]
        /\ prior' = [prior EXCEPT ![c] = NoRow] /\ tx' = [tx EXCEPT ![c] = EmptyTx]
        /\ UNCHANGED <<tables, answer, applied, receipts, job, tally>>
    BY <1>2 DEF RecordRetry
  <2>2. EmptyTx \in Txs
    BY NoWrites
  <2>3. /\ attempt \in [Ctxs -> 0..(MaxAttempts - 1)] /\ tx \in [Ctxs -> Txs]
        /\ prior \in [Ctxs -> OwnerRows \cup {NoRow}] /\ DOMAIN tally = Ctxs
        /\ pc \in [Ctxs -> Steps \cup {"idle"}]
    BY DEF GInv, TypeOK
  <2>4. attempt' \in [Ctxs -> 0..(MaxAttempts - 1)]
    BY <1>2, <2>1, <2>3, ConfigAssumption, SMT
  <2>5. /\ prior' \in [Ctxs -> OwnerRows \cup {NoRow}] /\ tx' \in [Ctxs -> Txs]
        /\ DOMAIN tally' = Ctxs
        /\ \A d \in Ctxs \ {c} : prior'[d] = prior[d] /\ tx'[d] = tx[d]
    BY <2>1, <2>2, <2>3
  <2>6. pc'[c] = "begin" /\ "begin" \in Steps
    BY <2>1, <2>3 DEF Goto, Steps, RecordSteps
  <2>7. Local(c)'
    <3>1. /\ tx'[c].ballot = {} /\ tx'[c].gone = {} /\ tx'[c].owner = {}
          /\ tx'[c].left = {} /\ tx'[c].nonce = {}
      BY <2>1, <2>3, NoWrites
    <3>2. LoadHolds(c) /\ OtherJobs(c)
      BY DEF GInv
    <3>3. LoadHolds(c)'
      BY <1>1, <2>1, <2>6, <3>1, <3>2 DEF LoadHolds, RecordSteps, AfterLoad, AfterAppend
    <3>4. WritesStart(c)' /\ OtherJobs(c)'
      BY <1>1, <2>1, <2>6, <3>1, <3>2 DEF WritesStart, OtherJobs, TransitionSteps
    <3> QED BY <3>3, <3>4 DEF Local
  <2> QED
    BY <2>1, <2>4, <2>5, <2>6, <2>7, AdvanceKeeps, SMT
<1>3. CASE ~(attempt[c] + 1 < MaxAttempts)
  <2>1. Return(c, Coded("RETRY")) /\ UNCHANGED <<tables, applied, receipts>>
    BY <1>3 DEF RecordRetry
  <2>2. Coded("RETRY").code \in Codes
    BY DEF Coded, Codes
  <2> QED
    BY <1>1, <2>1, <2>2, RefusalKeeps
<1> QED
  BY <1>2, <1>3

\* A new request finds its context idle and holding nothing.
LEMMA StartKeeps ==
    ASSUME GInv, NEW c \in Ctxs, NEW j \in Requests[c], Start(c, j)
    PROVE  GInv'
<1>1. j \in Jobs
  BY ConfigAssumption
<1>2. First(j.op) \in {"begin", "get", "jload", "lload", "rload"}
  BY DEF First
<1>3. /\ First(j.op) = "begin" => j.op = "record"
      /\ First(j.op) = "get" => j.op = "transition"
  BY DEF First
<1>4. /\ pc[c] = "idle" /\ Goto(c, First(j.op)) /\ job' = [job EXCEPT ![c] = j]
      /\ answer' = [answer EXCEPT ![c] = NoAnswer]
      /\ applied' = [applied EXCEPT ![c] = FALSE]
      /\ UNCHANGED <<election, ballot, owner, nonce, attempt, prior, tx, tally, receipts>>
  BY DEF Start, tables, Goto
<1>5. /\ pc \in [Ctxs -> Steps \cup {"idle"}] /\ job \in [Ctxs -> Jobs \cup {NoRow}]
      /\ applied \in [Ctxs -> BOOLEAN] /\ DOMAIN answer = Ctxs
  BY DEF GInv, TypeOK
<1>6. NoAnswer.code \in Codes
  BY DEF NoAnswer, Coded, Codes
<1>7. First(j.op) \in Steps /\ pc'[c] = First(j.op)
  BY <1>2, <1>4, <1>5 DEF Goto, Steps, RecordSteps, TransitionSteps, JoinSteps,
     ResultsSteps, LookupSteps
<1>8. TypeOK'
  <2>1. pc' \in [Ctxs -> Steps \cup {"idle"}]
    BY <1>4, <1>5, <1>7 DEF Goto
  <2>2. job' \in [Ctxs -> Jobs \cup {NoRow}] /\ applied' \in [Ctxs -> BOOLEAN]
    BY <1>1, <1>4, <1>5
  <2>3. DOMAIN answer' = Ctxs /\ \A d \in Ctxs : answer'[d].code \in Codes
    BY <1>4, <1>5, <1>6 DEF GInv, TypeOK
  <2> QED
    BY <1>4, <2>1, <2>2, <2>3 DEF GInv, TypeOK
<1>10. ASSUME NEW d \in Ctxs, d # c PROVE Local(d)'
  <2>1. pc'[d] = pc[d] /\ job'[d] = job[d] /\ applied'[d] = applied[d]
    BY <1>4, <1>5, <1>10 DEF Goto
  <2>2. Local(d)
    BY DEF GInv, Local
  <2> QED
    BY <1>4, <2>1, <2>2, LocalFrame, ZenonT(30)
<1>11. Local(c)'
  <2>1. job'[c] = j /\ ~applied'[c]
    BY <1>4, <1>5
  <2>2. pc'[c] \notin AfterLoad /\ pc'[c] \notin AfterAppend
        /\ (pc'[c] \in RecordSteps => pc'[c] = "begin")
        /\ (pc'[c] \in TransitionSteps => pc'[c] = "get")
    BY <1>2, <1>7 DEF AfterLoad, AfterAppend, RecordSteps, TransitionSteps
  <2>3. /\ tx[c].ballot = {} /\ tx[c].gone = {} /\ tx[c].owner = {}
        /\ tx[c].left = {} /\ tx[c].nonce = {}
    BY <1>4, NothingWritten DEF GInv, AfterAppend
  <2>4. LoadHolds(c)'
    BY <1>1, <1>3, <1>4, <1>7, <2>1, <2>2, <2>3 DEF LoadHolds, RecordJobs
  <2>5. WritesStart(c)'
    BY <1>4, <2>3 DEF WritesStart
  <2>6. OtherJobs(c)'
    BY <1>1, <1>3, <1>7, <2>1, <2>2 DEF OtherJobs
  <2> QED BY <2>4, <2>5, <2>6 DEF Local
<1>13. AnswerHonest'
  <2>1. pc'[c] # "idle"
    BY <1>2, <1>7
  <2>2. \A d \in Ctxs \ {c} : /\ pc'[d] = pc[d] /\ answer'[d] = answer[d]
                              /\ applied'[d] = applied[d]
    BY <1>4, <1>5 DEF Goto
  <2> QED
    BY <2>1, <2>2 DEF GInv, AnswerHonest
<1> QED
  BY <1>8, <1>10, <1>11, <1>13 DEF GInv, Local

-----------------------------------------------------------------------------
(* Commits, crashes and the whole of Next; what follows from GInv.         *)

\* A commit that takes effect keeps GInv, whether its reply arrives or not.
LEMMA CommitKeeps ==
    ASSUME GInv, NEW c \in Ctxs, NEW a, a.code \in {"OK", "DB"},
           pc[c] = "commit", Install(c), Return(c, a), receipts' \subseteq Receipts
    PROVE  GInv'
<1>0. UNCHANGED election /\ applied' = [applied EXCEPT ![c] = TRUE]
  BY DEF Install
<1>1. TypeOK'
  <2>1. tx[c] \in Txs
    BY DEF GInv, TypeOK
  <2>2. /\ ballot' \subseteq BallotRows /\ owner' \subseteq OwnerRows
        /\ nonce' \subseteq Elections \X Nonces
    BY <2>1 DEF Install, BallotOf, OwnerOf, NonceOf, Txs, GInv, TypeOK
  <2>3. a.code \in Codes
    BY DEF Codes
  <2>4. applied' \in [Ctxs -> BOOLEAN]
    BY <1>0 DEF GInv, TypeOK
  <2> QED
    BY <1>0, <2>2, <2>3, <2>4, ReturnType DEF GInv, TypeOK
<1>2. \A d \in Ctxs : Local(d)'
  <2>2. \A d \in Ctxs \ {c} : applied'[d] = applied[d]
    BY <1>0 DEF GInv, TypeOK
  <2> QED
    BY <1>0, <2>2, ReturnLocal
<1>4. AnswerHonest'
  <2>1. answer'[c] = a
    BY DEF Return, GInv, TypeOK
  <2>2. \A d \in Ctxs \ {c} : pc'[d] = pc[d] /\ answer'[d] = answer[d]
                              /\ applied'[d] = applied[d]
    BY <1>0 DEF Return, Forget, Goto, GInv, TypeOK
  <2> QED
    BY <2>1, <2>2 DEF GInv, AnswerHonest
<1> QED
  BY <1>1, <1>2, <1>4 DEF GInv, Local

\* A lifecycle update keeps GInv: no open transaction has read the election.
LEMMA UpdateKeeps ==
    ASSUME GInv, NEW c \in Ctxs, NEW a, a.code \in {"OK", "DB"},
           pc[c] = "update", SetState(c), Return(c, a), UNCHANGED receipts
    PROVE  GInv'
<1>0. /\ applied' = [applied EXCEPT ![c] = TRUE]
      /\ UNCHANGED <<ballot, owner, nonce>>
      /\ election' = [election EXCEPT ![job[c].e] = job[c].to]
      /\ ~ElectionHeld(c)
  BY DEF SetState
<1>1. TypeOK'
  <2>1. job[c].to \in States
    BY DEF GInv, OtherJobs, TransitionSteps, Jobs
  <2>2. election' \in [Elections -> States \cup {"NONE"}]
    BY <1>0, <2>1, ZenonT(30) DEF GInv, TypeOK
  <2>3. a.code \in Codes /\ applied' \in [Ctxs -> BOOLEAN]
    BY <1>0 DEF Codes, GInv, TypeOK
  <2> QED
    BY <1>0, <2>2, <2>3, ReturnType DEF GInv, TypeOK
<1>2. \A d \in Ctxs : Local(d)'
  <2>1. \A d \in Ctxs \ {c} : pc[d] \notin AfterLoad
    BY <1>0 DEF ElectionHeld
  <2>2. \A d \in Ctxs \ {c} : applied'[d] = applied[d]
    BY <1>0 DEF GInv, TypeOK
  <2> QED
    BY <1>0, <2>1, <2>2, ReturnLocal, ZenonT(30)
<1>4. AnswerHonest'
  <2>1. answer'[c] = a
    BY DEF Return, GInv, TypeOK
  <2>2. \A d \in Ctxs \ {c} : pc'[d] = pc[d] /\ answer'[d] = answer[d]
                              /\ applied'[d] = applied[d]
    BY <1>0 DEF Return, Forget, Goto, GInv, TypeOK
  <2> QED
    BY <2>1, <2>2 DEF GInv, AnswerHonest
<1> QED
  BY <1>1, <1>2, <1>4 DEF GInv, Local

\* The initial state: no rows, no request.
LEMMA InitGInv == Init => GInv
<1> SUFFICES ASSUME Init PROVE GInv
  OBVIOUS
<1>1. TypeOK
  <2>1. EmptyTx \in Txs
    BY NoWrites
  <2>3. 0 \in 0..(MaxAttempts - 1)
    BY ConfigAssumption, SMT
  <2>2. NoAnswer.code \in Codes
    BY DEF NoAnswer, Coded, Codes
  <2> QED
    BY <2>1, <2>2, <2>3 DEF Init, TypeOK, States
<1>2. \A c \in Ctxs : pc[c] = "idle" /\ ~applied[c] /\ tx[c] = EmptyTx
  BY DEF Init
<1>5. \A c \in Ctxs : LoadHolds(c) /\ WritesStart(c) /\ OtherJobs(c)
  BY <1>2, NoWrites DEF LoadHolds, WritesStart, OtherJobs, RecordSteps, AfterLoad,
     AfterAppend, TransitionSteps
<1>6. AnswerHonest
  BY <1>2 DEF AnswerHonest
<1> QED
  BY <1>1, <1>5, <1>6 DEF GInv

\* Every step keeps GInv.
LEMMA NextGInv == GInv /\ [Next]_vars => GInv'
<1> SUFFICES ASSUME GInv, [Next]_vars PROVE GInv'
  OBVIOUS
<1>0. \A code \in Codes : Coded(code).code = code
  BY DEF Coded
<1>1. ASSUME NEW c \in Ctxs, NEW j \in Requests[c], Start(c, j) PROVE GInv'
  BY <1>1, StartKeeps
<1>2. ASSUME NEW c \in Ctxs, Record(c) PROVE GInv'
  <2>1. CASE bb_db_begin(c) \/ record_load(c) \/ record_nonce_seen(c) \/ record_prior(c)
    BY <2>1, RecordReadsKeep
  <2>2. CASE BeginFails(c) \/ RecordFails(c)
    <3>1. /\ Return(c, Coded("DB")) /\ pc[c] # "idle" /\ "DB" \in Codes
          /\ UNCHANGED <<tables, applied, receipts>>
      BY <2>2 DEF BeginFails, RecordFails, RecordSteps, Codes
    <3> QED BY <1>0, <3>1, RefusalKeeps
  <2>3. CASE run_append_ballot(c)
    BY <2>3, AppendKeeps
  <2>4. CASE run_mark_superseded(c)
    BY <2>4, MarkKeeps
  <2>5. CASE run_set_owner(c) \/ run_nonce_mark(c)
    BY <2>5, OwnerNonceKeep
  <2>6. CASE bb_db_commit(c)
    <3>1. pc[c] = "commit" /\ Install(c) /\ Return(c, Coded("OK")) /\ "OK" \in Codes
      BY <2>6 DEF bb_db_commit, Codes
    <3>2. job[c] \in RecordJobs /\ Version(c) \in 1..MaxVersion
      BY <3>1 DEF GInv, LoadHolds, RecordSteps, AfterAppend
    <3>3. [e |-> job[c].e, cert |-> job[c].v, hash |-> bb_issue_receipt(c),
           ver |-> Version(c), opt |-> job[c].o] \in Receipts
      <4>1. /\ job[c].e \in Elections /\ job[c].v \in Voters
            /\ job[c].n \in Nonces /\ job[c].o \in Options
        BY <3>2 DEF RecordJobs, Jobs
      <4>2. bb_issue_receipt(c) \in Hashes
        BY <3>2, <4>1, SMT DEF Hashes, bb_issue_receipt
      <4> QED
        BY <3>2, <4>1, <4>2 DEF Receipts
    <3>4. receipts' \subseteq Receipts
      BY <2>6, <3>3 DEF bb_db_commit, GInv, TypeOK
    <3> QED BY <1>0, <3>1, <3>4, CommitKeeps, SMT
  <2>7. CASE CommitReplyLost(c)
    <3>1. /\ pc[c] = "commit" /\ Install(c) /\ Return(c, Coded("DB")) /\ "DB" \in Codes
          /\ receipts' \subseteq Receipts
      BY <2>7 DEF CommitReplyLost, Codes, GInv, TypeOK
    <3> QED BY <1>0, <3>1, CommitKeeps, SMT
  <2>8. CASE RecordRetry(c)
    BY <2>8, RetryKeeps
  <2> QED
    BY <1>2, <2>1, <2>2, <2>3, <2>4, <2>5, <2>6, <2>7, <2>8 DEF Record
<1>3. ASSUME NEW c \in Ctxs, run_update_state(c) PROVE GInv'
  <2>1. /\ pc[c] = "update" /\ SetState(c) /\ UNCHANGED receipts
        /\ \E code \in {"OK", "DB"} : Return(c, Coded(code))
    BY <1>3 DEF run_update_state
  <2>2. {"OK", "DB"} \subseteq Codes
    BY DEF Codes
  <2> QED BY <1>0, <2>1, <2>2, UpdateKeeps, SMT
<1>4. ASSUME NEW c \in Ctxs, Read(c) \/ transition_get(c) \/ OneShotFails(c) PROVE GInv'
  BY <1>4, OtherStepsKeep
<1>5. ASSUME NEW c \in Ctxs, Crash(c) PROVE GInv'
  <2>1. /\ pc[c] # "idle" /\ Return(c, NoAnswer) /\ UNCHANGED receipts
        /\ NoAnswer.code = "DB" /\ "DB" \in Codes
    BY <1>5 DEF Crash, Return, NoAnswer, Coded, Codes
  <2>2. CASE UNCHANGED <<tables, applied>>
    BY <2>1, <2>2, RefusalKeeps
  <2>3. CASE pc[c] = "commit" /\ Install(c)
    <3>1. receipts' \subseteq Receipts
      BY <2>1 DEF GInv, TypeOK
    <3> QED BY <2>1, <2>3, <3>1, CommitKeeps, SMT
  <2>4. CASE pc[c] = "update" /\ SetState(c)
    BY <2>1, <2>4, UpdateKeeps, SMT
  <2> QED
    BY <1>5, <2>2, <2>3, <2>4 DEF Crash
<1>6. CASE UNCHANGED vars
  <2>1. \A c \in Ctxs : Local(c)'
    BY <1>6, LocalFrame DEF vars, GInv, Local
  <2>2. TypeOK' /\ AnswerHonest'
    BY <1>6 DEF vars, GInv, TypeOK, AnswerHonest
  <2> QED
    BY <2>1, <2>2 DEF GInv, Local
<1> QED
  BY <1>1, <1>2, <1>3, <1>4, <1>5, <1>6 DEF Next, Step

\* GInv holds in every reachable state, however many contexts record.
THEOREM General == Spec => []GInv
BY InitGInv, NextGInv, PTL DEF Spec

\* Type correctness, for any number of contexts and any constants.
THEOREM TypeCorrect == Spec => []TypeOK
<1>1. GInv => TypeOK
  BY DEF GInv
<1> QED
  BY <1>1, General, PTL

\* Every refusal is final: what bb_record_ballot or bb_transition_state answers
\* with another code than BB_OK and BB_ERR_DB changed nothing.
THEOREM HonestAnswers == Spec => []AnswerHonest
<1>1. GInv => AnswerHonest
  BY DEF GInv
<1> QED
  BY <1>1, General, PTL

\* Only a commit that takes effect changes the ballot table, and it leaves the
\* election table alone; only a lifecycle update changes the election table.
LEMMA WhoWrites ==
    ASSUME [Next]_vars
    PROVE  /\ \/ UNCHANGED <<ballot, owner, nonce>>
              \/ \E c \in Ctxs : pc[c] = "commit" /\ Install(c)
           /\ \/ UNCHANGED election
              \/ \E c \in Ctxs : pc[c] = "update" /\ SetState(c)
<1>1. ASSUME NEW c \in Ctxs, Record(c)
      PROVE  /\ UNCHANGED election
             /\ UNCHANGED <<ballot, owner, nonce>> \/ (pc[c] = "commit" /\ Install(c))
  BY <1>1 DEF Record, bb_db_begin, BeginFails, record_load, record_nonce_seen,
     record_prior, run_append_ballot, run_mark_superseded, run_set_owner,
     run_nonce_mark, bb_db_commit, CommitReplyLost, RecordFails, RecordRetry,
     Install, tables
<1>2. ASSUME NEW c \in Ctxs, Read(c) \/ transition_get(c) \/ OneShotFails(c)
      PROVE  UNCHANGED <<election, ballot, owner, nonce>>
  BY <1>2 DEF Read, join_load, join_prior, results_load, fetch_tally, fetch_hashes,
     lookup_load, run_find_hash, transition_get, OneShotFails, tables
<1>3. ASSUME NEW c \in Ctxs, run_update_state(c)
      PROVE  pc[c] = "update" /\ SetState(c) /\ UNCHANGED <<ballot, owner, nonce>>
  BY <1>3 DEF run_update_state, SetState
<1>4. ASSUME NEW c \in Ctxs, Crash(c)
      PROVE  \/ UNCHANGED <<election, ballot, owner, nonce>>
             \/ pc[c] = "commit" /\ Install(c) /\ UNCHANGED election
             \/ pc[c] = "update" /\ SetState(c) /\ UNCHANGED <<ballot, owner, nonce>>
  BY <1>4 DEF Crash, Install, SetState, tables
<1>5. ASSUME NEW c \in Ctxs, NEW j, Start(c, j)
      PROVE  UNCHANGED <<election, ballot, owner, nonce>>
  BY <1>5 DEF Start, tables
<1>6. CASE UNCHANGED vars
  BY <1>6 DEF vars
<1> QED
  BY <1>1, <1>2, <1>3, <1>4, <1>5, <1>6 DEF Next, Step

\* Only a commit changes the rows of an election, and only while it is OPEN: the
\* transaction holds the shared lock that GET_ELECTION took.
LEMMA OpenOnly ==
    ASSUME GInv, [Next]_vars, NEW e \in Elections,
           {b \in ballot' : b.e = e} # {b \in ballot : b.e = e}
    PROVE  election[e] = "OPEN" /\ election'[e] = "OPEN"
<1>1. PICK c \in Ctxs : pc[c] = "commit" /\ Install(c)
  BY WhoWrites
<1>2. LoadHolds(c)
  BY DEF GInv
<1>3. election[job[c].e] = "OPEN" /\ UNCHANGED election
  BY <1>1, <1>2 DEF LoadHolds, AfterLoad, Install
<1>4. e = job[c].e
  <2>1. ballot' = (ballot \ tx[c].gone) \cup tx[c].ballot
    BY <1>1 DEF Install, BallotOf
  <2>2. \A b \in tx[c].ballot \cup tx[c].gone : b.e = job[c].e
    BY <1>2 DEF LoadHolds
  <2> QED BY <2>1, <2>2
<1> QED BY <1>3, <1>4

\* Ballots are recorded only while their election is OPEN, at the moment the
\* commit takes effect.
THEOREM RecordedOpen == Spec => RecordedWhileOpen
<1>1. GInv /\ [Next]_vars =>
        [\A e \in Elections :
           {b \in ballot' : b.e = e} # {b \in ballot : b.e = e}
              => election[e] = "OPEN" /\ election'[e] = "OPEN"]_vars
  BY OpenOnly
<1> QED
  BY <1>1, General, PTL DEF Spec, RecordedWhileOpen

\* With one administrator, a transition found legal is still legal when it is
\* stored, although the two statements are two transactions.
TransitionHolds(c) ==
    pc[c] = "update" => bb_is_legal_transition(election[job[c].e], job[c].to)

\* Where a step can take a context.
LEMMA OneMoves ==
    ASSUME TypeOK, [Next]_vars, NEW d \in Ctxs
    PROVE  \/ pc'[d] = pc[d] /\ job'[d] = job[d]
           \/ pc'[d] = "idle"
           \/ pc'[d] # "update" /\ job'[d] \in Requests[d]
           \/ pc[d] # "idle" /\ pc'[d] # "update" /\ job'[d] = job[d]
           \/ /\ pc[d] = "get" /\ job'[d] = job[d] /\ UNCHANGED election
              /\ bb_is_legal_transition(election[job[d].e], job[d].to)
<1>0. pc \in [Ctxs -> Steps \cup {"idle"}] /\ job \in [Ctxs -> Jobs \cup {NoRow}]
  BY DEF TypeOK
<1> DEFINE Moved(c) == \/ Goto(c, "idle") /\ \E x : job' = [job EXCEPT ![c] = x]
                       \/ /\ \E s : s # "update" /\ Goto(c, s)
                          /\ pc[c] # "idle" /\ UNCHANGED job
                       \/ /\ Goto(c, "update") /\ pc[c] = "get"
                          /\ UNCHANGED <<job, election>>
                          /\ bb_is_legal_transition(election[job[c].e], job[c].to)
<1>1. ASSUME NEW c \in Ctxs, NEW a, Return(c, a) PROVE Moved(c)
  BY <1>1, Zenon DEF Return, Forget
<1>2. ASSUME NEW c \in Ctxs, Record(c) PROVE Moved(c)
  <2>1. CASE bb_db_begin(c) \/ record_prior(c) \/ run_append_ballot(c)
             \/ run_mark_superseded(c) \/ run_set_owner(c) \/ run_nonce_mark(c)
    <3>1. /\ pc[c] # "idle" /\ UNCHANGED job
          /\ \E s \in {"load", "append", "owner", "mark", "consume", "commit"} : Goto(c, s)
      BY <2>1 DEF bb_db_begin, record_prior, run_append_ballot, run_mark_superseded,
         run_set_owner, run_nonce_mark, locals
    <3> QED BY <3>1
  <2>2. CASE BeginFails(c) \/ bb_db_commit(c) \/ CommitReplyLost(c) \/ RecordFails(c)
    <3>1. \E a : Return(c, a)
      BY <2>2 DEF BeginFails, bb_db_commit, CommitReplyLost, RecordFails
    <3> QED BY <1>1, <3>1
  <2>3. CASE record_load(c) \/ record_nonce_seen(c) \/ RecordRetry(c)
    <3>1. \/ \E a : Return(c, a)
          \/ /\ pc[c] # "idle" /\ UNCHANGED job
             /\ \E s \in {"seen", "prior", "begin"} : Goto(c, s)
      BY <2>3 DEF record_load, record_nonce_seen, RecordRetry, locals, RecordSteps
    <3> QED BY <1>1, <3>1
  <2> QED BY <1>2, <2>1, <2>2, <2>3 DEF Record
<1>3. ASSUME NEW c \in Ctxs, Read(c) \/ OneShotFails(c) \/ run_update_state(c)
      PROVE  Moved(c)
  <2>1. \/ \E a : Return(c, a)
        \/ /\ pc[c] # "idle" /\ UNCHANGED job
           /\ \E s \in {"jprior", "rtally", "rhashes", "lfind"} : Goto(c, s)
    BY <1>3, ZenonT(30) DEF Read, join_load, join_prior, results_load, fetch_tally, fetch_hashes,
       lookup_load, run_find_hash, OneShotFails, run_update_state, locals
  <2> QED BY <1>1, <2>1
<1>4. ASSUME NEW c \in Ctxs, transition_get(c) PROVE Moved(c)
  <2>1. \/ \E a : Return(c, a)
        \/ /\ Goto(c, "update") /\ pc[c] = "get" /\ UNCHANGED <<job, election>>
           /\ bb_is_legal_transition(election[job[c].e], job[c].to)
    BY <1>4 DEF transition_get, locals, tables
  <2> QED BY <1>1, <2>1
<1>5. ASSUME NEW c \in Ctxs, Crash(c) PROVE Moved(c)
  BY <1>5, Zenon DEF Crash, Forget
<1>6. ASSUME NEW c \in Ctxs, Moved(c)
      PROVE  \/ pc'[d] = pc[d] /\ job'[d] = job[d]
             \/ pc'[d] = "idle"
             \/ pc[d] # "idle" /\ pc'[d] # "update" /\ job'[d] = job[d]
             \/ /\ pc[d] = "get" /\ job'[d] = job[d] /\ UNCHANGED election
                /\ bb_is_legal_transition(election[job[d].e], job[d].to)
  BY <1>0, <1>6 DEF Goto
<1>7. ASSUME NEW c \in Ctxs, NEW j \in Requests[c], Start(c, j)
      PROVE  \/ pc'[d] = pc[d] /\ job'[d] = job[d]
             \/ pc'[d] # "update" /\ job'[d] \in Requests[d]
  <2>1. First(j.op) # "update"
    BY DEF First
  <2> QED BY <1>0, <1>7, <2>1 DEF Start
<1>8. CASE UNCHANGED vars
  BY <1>8 DEF vars
<1> HIDE DEF Moved
<1> QED
  BY <1>2, <1>3, <1>4, <1>5, <1>6, <1>7, <1>8 DEF Next, Step

\* At most one context receives bb_transition_state requests, as in ballotd.
OneAdministrator ==
    \A c, d \in Ctxs : \A i \in Requests[c], j \in Requests[d] :
       i.op = "transition" /\ j.op = "transition" => c = d

\* No other context changes an election between the administrator's read of
\* its state and the update that follows.
THEOREM TransitionsHold ==
    ASSUME OneAdministrator
    PROVE  Spec => [](\A c \in Ctxs : TransitionHolds(c))
<1> DEFINE TInv == \A c \in Ctxs : TransitionHolds(c)
<1>1. Init => TInv
  BY DEF Init, TransitionHolds
<1>2. GInv /\ TInv /\ [Next]_vars => TInv'
  <2> SUFFICES ASSUME GInv, TInv, [Next]_vars, NEW d \in Ctxs
               PROVE  TransitionHolds(d)'
    BY Zenon
  <2>2. ASSUME pc'[d] = "update"
        PROVE  bb_is_legal_transition(election'[job'[d].e], job'[d].to)
    <3>1. CASE /\ job'[d] = job[d] /\ UNCHANGED election
               /\ bb_is_legal_transition(election[job[d].e], job[d].to)
      BY <3>1 DEF bb_is_legal_transition
    <3>2. CASE pc'[d] = pc[d] /\ job'[d] = job[d]
      <4>1. bb_is_legal_transition(election[job[d].e], job[d].to)
        BY <2>2, <3>2 DEF TransitionHolds
      <4>2. CASE UNCHANGED election
        BY <3>2, <4>1, <4>2 DEF bb_is_legal_transition
      <4>3. CASE ~UNCHANGED election
        <5>1. PICK c \in Ctxs : pc[c] = "update" /\ SetState(c)
          BY <4>3, WhoWrites
        <5>2. job[c].op = "transition" /\ job[d].op = "transition"
          BY <2>2, <3>2, <5>1 DEF GInv, OtherJobs, TransitionSteps
        <5>3. job[c] \in Requests[c] /\ job[d] \in Requests[d]
          BY <2>2, <3>2, <5>1 DEF GInv, OtherJobs
        <5>4. c = d
          BY <5>2, <5>3 DEF OneAdministrator
        <5>5. applied'[d] = TRUE
          BY <5>1, <5>4 DEF SetState, GInv, TypeOK
        <5>6. GInv'
          BY NextGInv
        <5>7. ~applied'[d]
          BY <2>2, <5>6 DEF GInv, OtherJobs
        <5> QED BY <5>5, <5>7
      <4> QED BY <4>2, <4>3
    <3> QED
      BY <2>2, <3>1, <3>2, OneMoves DEF GInv
  <2>3. TransitionHolds(d)' <=>
          (pc'[d] = "update" => bb_is_legal_transition(election'[job'[d].e], job'[d].to))
    BY DEF TransitionHolds, bb_is_legal_transition
  <2> QED BY <2>2, <2>3
<1> HIDE DEF TInv
<1>3. Spec => []TInv
  BY <1>1, <1>2, General, PTL DEF Spec
<1> QED
  BY <1>3 DEF TInv

\* With one administrator the lifecycle only moves forward, across lost
\* replies, failed statements and crashes.
THEOREM Lifecycle ==
    ASSUME OneAdministrator
    PROVE  Spec => LifecycleForward
<1> DEFINE TInv == \A c \in Ctxs : TransitionHolds(c)
           Fwd == \A e \in Elections : election'[e] # election[e] =>
                    \E i \in 1..3 : /\ election[e] = Chain[i]
                                    /\ election'[e] = Chain[i + 1]
<1>2. Spec => []TInv
  BY TransitionsHold
<1>3. GInv /\ TInv /\ [Next]_vars => [Fwd]_vars
  <2> SUFFICES ASSUME GInv, TInv, [Next]_vars, NEW e \in Elections,
                      election'[e] # election[e]
               PROVE  \E i \in 1..3 : election[e] = Chain[i] /\ election'[e] = Chain[i + 1]
    OBVIOUS
  <2>1. PICK c \in Ctxs : pc[c] = "update" /\ SetState(c)
    BY WhoWrites
  <2>2. e = job[c].e /\ election'[e] = job[c].to
    BY <2>1 DEF SetState, GInv, TypeOK
  <2>3. bb_is_legal_transition(election[e], election'[e])
    BY <2>1, <2>2 DEF TransitionHolds
  <2>4. \/ election[e] = Chain[1] /\ election'[e] = Chain[1 + 1]
        \/ election[e] = Chain[2] /\ election'[e] = Chain[2 + 1]
        \/ election[e] = Chain[3] /\ election'[e] = Chain[3 + 1]
    BY <2>3, SMT DEF bb_is_legal_transition, Chain
  <2> QED BY <2>4, SMT
<1> HIDE DEF TInv
<1> QED
  BY <1>2, <1>3, General, PTL DEF Spec, LifecycleForward, Fwd

-----------------------------------------------------------------------------
(* One context that records.  What it has read of the nonce, ballot and    *)
(* owner tables still holds, because no other transaction writes them, and *)
(* its commit installs the tables that IInv describes.                     *)

\* The part of IInv that speaks of one context.
Own(c) == ReadsHold(c) /\ WritesAre(c)

\* At most one context is inside bb_record_ballot.
LEMMA RecordsAlone ==
    ASSUME OneRecorder, GInv, NEW c \in Ctxs, NEW d \in Ctxs,
           pc[c] \in RecordSteps, pc[d] \in RecordSteps
    PROVE  c = d
<1>1. "idle" \notin RecordSteps
  BY DEF RecordSteps
<1>2. /\ job[c] \in Requests[c] /\ job[d] \in Requests[d]
      /\ job[c].op = "record" /\ job[d].op = "record"
  BY <1>1 DEF GInv, LoadHolds, OtherJobs, RecordJobs
<1> QED
  BY <1>2 DEF OneRecorder

\* Superseding(c), row by row.
LEMMA SupersedingRows ==
    ASSUME TypeOK, NEW c \in Ctxs
    PROVE  /\ Superseding(c) \subseteq BallotRows
           /\ \A x \in Superseding(c) : \E b \in ballot :
                /\ x.e = b.e /\ x.hash = b.hash /\ x.opt = b.opt
                /\ x.ver = b.ver /\ x.n = b.n
                /\ x.sup <=> (b.sup \/ (/\ prior[c] # NoRow /\ b.e = job[c].e
                                       /\ b.hash = prior[c].hash))
           /\ \A b \in ballot : \E x \in Superseding(c) :
                /\ x.e = b.e /\ x.hash = b.hash /\ x.opt = b.opt
                /\ x.ver = b.ver /\ x.n = b.n
                /\ x.sup <=> (b.sup \/ (/\ prior[c] # NoRow /\ b.e = job[c].e
                                       /\ b.hash = prior[c].hash))
<1>1. ballot \subseteq BallotRows
  BY DEF TypeOK
<1>2. CASE prior[c] = NoRow
  <2>1. Superseding(c) = ballot
    BY <1>2 DEF Superseding
  <2> QED
    BY <1>1, <1>2, <2>1
<1>3. CASE prior[c] # NoRow
  <2> DEFINE S(b) == IF b.e = job[c].e /\ b.hash = prior[c].hash
                     THEN [b EXCEPT !.sup = TRUE] ELSE b
  <2>1. Superseding(c) = {S(b) : b \in ballot}
    BY <1>3, Zenon DEF Superseding
  <2>2. ASSUME NEW b \in ballot
        PROVE  /\ S(b) \in BallotRows
               /\ S(b).e = b.e /\ S(b).hash = b.hash /\ S(b).opt = b.opt
               /\ S(b).ver = b.ver /\ S(b).n = b.n
               /\ S(b).sup <=> (b.sup \/ (b.e = job[c].e /\ b.hash = prior[c].hash))
    <3>1. CASE b.e = job[c].e /\ b.hash = prior[c].hash
      <4>1. S(b) = [b EXCEPT !.sup = TRUE]
        BY <3>1, Zenon
      <4> HIDE DEF S
      <4> QED BY <1>1, <3>1, <4>1, SupersedeRow
    <3>2. CASE ~(b.e = job[c].e /\ b.hash = prior[c].hash)
      <4>1. S(b) = b
        BY <3>2, Zenon
      <4> HIDE DEF S
      <4> QED BY <1>1, <3>2, <4>1
    <3> QED BY <3>1, <3>2
  <2> HIDE DEF S
  <2>3. Superseding(c) \subseteq BallotRows
    BY <2>1, <2>2
  <2>4. \A x \in Superseding(c) : \E b \in ballot : x = S(b)
    BY <2>1
  <2>5. \A b \in ballot : S(b) \in Superseding(c)
    BY <2>1
  <2> QED
    BY <1>3, <2>2, <2>3, <2>4, <2>5, SMT
<1> QED
  BY <1>2, <1>3

\* The owner row the transaction read is the one it replaces.
LEMMA PriorRow ==
    ASSUME IInv, NEW c \in Ctxs, pc[c] \in AfterPrior
    PROVE  \A r \in owner : (r.e = job[c].e /\ r.cert = job[c].v)
                              <=> (prior[c] # NoRow /\ r = prior[c])
<1>1. prior[c] \in run_get_prior_ballot(job[c].e, job[c].v)
  BY DEF IInv, ReadsHold
<1>2. owner \subseteq OwnerRows /\ NoRow \notin OwnerRows
  BY ConfigAssumption DEF IInv, GInv, TypeOK
<1>3. \A r, s \in owner : r.e = s.e /\ r.cert = s.cert => r = s
  BY DEF IInv, TablesOK, OneLiveBallotPerVoter
<1>4. CASE {r \in owner : r.e = job[c].e /\ r.cert = job[c].v} = {}
  BY <1>1, <1>4 DEF run_get_prior_ballot
<1>5. CASE {r \in owner : r.e = job[c].e /\ r.cert = job[c].v} # {}
  <2>1. prior[c] \in {r \in owner : r.e = job[c].e /\ r.cert = job[c].v}
    BY <1>1, <1>5 DEF run_get_prior_ballot
  <2> QED
    BY <1>2, <1>3, <2>1
<1> QED
  BY <1>4, <1>5

\* The new receipt hash is the hash of no row of the election.
LEMMA FreshHash ==
    ASSUME IInv, NEW c \in Ctxs, pc[c] \in AfterAppend
    PROVE  /\ \A b \in ballot : b.e = job[c].e => b.n # job[c].n
           /\ \A b \in ballot : b.e = job[c].e => b.hash # NewRow(c).hash
           /\ \A r \in owner : r.e = job[c].e => r.hash # NewRow(c).hash
<1>1. /\ <<job[c].e, job[c].n>> \notin nonce
      /\ job[c] \in RecordJobs
  BY DEF IInv, GInv, LoadHolds, ReadsHold, AfterSeen, AfterLoad, AfterAppend, RecordSteps
<1>2. job[c].n \in Nonces /\ Version(c) \in 1..MaxVersion
  BY <1>1 DEF RecordJobs, Jobs, IInv, GInv, LoadHolds
<1>3. \A b \in ballot : b.e = job[c].e => b.n # job[c].n
  BY <1>1 DEF IInv, TablesOK, NonceSpentOnce
<1>4. \A b \in ballot : /\ b.hash = Hash(b.n, b.ver)
                        /\ b.n \in Nonces /\ b.ver \in 1..MaxVersion
  BY DEF IInv, GInv, TablesOK, RowsHashed, TypeOK, BallotRows
<1>5. NewRow(c).hash = Hash(job[c].n, Version(c))
  BY DEF NewRow, bb_issue_receipt
<1>6. \A b \in ballot : b.e = job[c].e => b.hash # NewRow(c).hash
  BY <1>2, <1>3, <1>4, <1>5, HashAssumption, SMT
<1>7. \A r \in owner : \E b \in ballot : b.e = r.e /\ b.hash = r.hash
  BY DEF IInv, TablesOK, OneLiveBallotPerVoter
<1> QED
  BY <1>3, <1>6, <1>7, SMT

\* Installing a complete transaction keeps the tables consistent.
LEMMA CommitTables ==
    ASSUME IInv, NEW c \in Ctxs, pc[c] = "commit", Install(c)
    PROVE  TablesOK'
<1> DEFINE e == job[c].e
           v == job[c].v
           hit(b) == prior[c] # NoRow /\ b.e = e /\ b.hash = prior[c].hash
           same(x, b) == /\ x.e = b.e /\ x.hash = b.hash /\ x.opt = b.opt
                         /\ x.ver = b.ver /\ x.n = b.n
                         /\ x.sup <=> (b.sup \/ hit(b))
<1>1. /\ ballot' = Superseding(c) \cup {NewRow(c)}
      /\ owner' = {r \in owner : ~(r.e = e /\ r.cert = v)} \cup {NewOwner(c)}
      /\ nonce' = nonce \cup {<<e, job[c].n>>}
  BY DEF Install, IInv, WritesAre, AfterMark, AfterAppend
<1>2. /\ \A x \in Superseding(c) : \E b \in ballot : same(x, b)
      /\ \A b \in ballot : \E x \in Superseding(c) : same(x, b)
  BY SupersedingRows DEF IInv, GInv
<1>3. \A r \in owner : (r.e = e /\ r.cert = v) <=> (prior[c] # NoRow /\ r = prior[c])
  BY PriorRow DEF AfterPrior, AfterSeen, AfterLoad
<1>4. /\ \A b \in ballot : b.e = e => b.n # job[c].n
      /\ \A b \in ballot : b.e = e => b.hash # NewRow(c).hash
      /\ \A r \in owner : r.e = e => r.hash # NewRow(c).hash
  BY FreshHash DEF AfterAppend
<1>5. /\ NewRow(c).e = e /\ NewRow(c).ver = Version(c) /\ NewRow(c).sup = FALSE
      /\ NewRow(c).n = job[c].n /\ NewRow(c).hash = Hash(job[c].n, Version(c))
      /\ NewOwner(c).e = e /\ NewOwner(c).cert = v
      /\ NewOwner(c).hash = NewRow(c).hash /\ NewOwner(c).ver = Version(c)
  BY DEF NewRow, NewOwner, bb_issue_receipt
<1>6. OneLiveBallotPerVoter /\ NonceSpentOnce /\ RowsHashed
  BY DEF IInv, TablesOK
<1>7. v \in Eligible[e]
  BY DEF IInv, GInv, LoadHolds, AfterLoad
<1>8. prior[c] # NoRow => prior[c] \in owner
  BY DEF IInv, ReadsHold, run_get_prior_ballot, AfterPrior, AfterSeen, AfterLoad
<1> HIDE DEF e, v
<1>a. OneLiveBallotPerVoter'
  <2>1. \A r, s \in owner' : r.e = s.e /\ r.cert = s.cert => r = s
    BY <1>1, <1>5, <1>6, SMT DEF OneLiveBallotPerVoter
  <2>2. \A r, s \in owner' : r.e = s.e /\ r.hash = s.hash => r = s
    BY <1>1, <1>4, <1>5, <1>6, SMT DEF OneLiveBallotPerVoter
  <2>3. \A r \in owner' : r.cert \in Eligible[r.e]
    BY <1>1, <1>5, <1>6, <1>7 DEF OneLiveBallotPerVoter
  <2>4. ASSUME NEW r \in owner'
        PROVE  \E b \in ballot' : b.e = r.e /\ b.hash = r.hash /\ b.ver = r.ver /\ ~b.sup
    <3>1. CASE r = NewOwner(c)
      BY <3>1, <1>1, <1>5
    <3>2. CASE r # NewOwner(c)
      <4>1. r \in owner /\ ~(r.e = e /\ r.cert = v)
        BY <3>2, <1>1
      <4>2. PICK b \in ballot : b.e = r.e /\ b.hash = r.hash /\ b.ver = r.ver /\ ~b.sup
        BY <4>1, <1>6 DEF OneLiveBallotPerVoter
      <4>3. ~hit(b)
        <5>1. \A s, t \in owner : s.e = t.e /\ s.hash = t.hash => s = t
          BY <1>6 DEF OneLiveBallotPerVoter
        <5>2. prior[c] # NoRow => prior[c].e = e /\ prior[c].cert = v
          BY <1>3, <1>8
        <5> QED
          BY <4>1, <4>2, <5>1, <5>2, <1>8
      <4>4. PICK x \in Superseding(c) : same(x, b)
        BY <1>2
      <4> QED
        BY <1>1, <4>2, <4>3, <4>4
    <3> QED BY <3>1, <3>2
  <2>5. ASSUME NEW b \in ballot', ~b.sup
        PROVE  \E r \in owner' : r.e = b.e /\ r.hash = b.hash
    <3>1. CASE b = NewRow(c)
      BY <3>1, <1>1, <1>5
    <3>2. CASE b # NewRow(c)
      <4>1. PICK a \in ballot : same(b, a)
        BY <3>2, <1>1, <1>2, SMT
      <4>2. PICK r \in owner : r.e = a.e /\ r.hash = a.hash
        BY <2>5, <4>1, <1>6 DEF OneLiveBallotPerVoter
      <4>3. ~(r.e = e /\ r.cert = v)
        BY <2>5, <4>1, <4>2, <1>3
      <4> QED
        BY <1>1, <4>1, <4>2, <4>3
    <3> QED BY <3>1, <3>2
  <2>6. \A a, b \in ballot' : a.e = b.e /\ a.hash = b.hash => a = b
    <3>0. \A a, b \in ballot : a.e = b.e /\ a.hash = b.hash => a = b
      BY <1>6 DEF OneLiveBallotPerVoter
    <3>1. \A a, b \in Superseding(c) : a.e = b.e /\ a.hash = b.hash => a = b
      <4>1. CASE prior[c] = NoRow
        BY <4>1, <3>0 DEF Superseding
      <4>2. CASE prior[c] # NoRow
        <5> DEFINE S(x) == IF x.e = job[c].e /\ x.hash = prior[c].hash
                           THEN [x EXCEPT !.sup = TRUE] ELSE x
        <5>1. Superseding(c) = {S(x) : x \in ballot}
          BY <4>2, Zenon DEF Superseding
        <5>2. \A x \in ballot : S(x).e = x.e /\ S(x).hash = x.hash
          <6>1. \A x \in ballot : x \in BallotRows
            BY DEF IInv, GInv, TypeOK
          <6>2. \A x \in ballot : [x EXCEPT !.sup = TRUE].e = x.e
                                   /\ [x EXCEPT !.sup = TRUE].hash = x.hash
            BY <6>1, SupersedeRow
          <6> QED BY <6>2, Zenon
        <5> HIDE DEF S
        <5> QED
          BY <5>1, <5>2, <3>0, SMT
      <4> QED BY <4>1, <4>2
    <3>2. \A a \in Superseding(c) : a.e = e => a.hash # NewRow(c).hash
      BY <1>2, <1>4, SMT
    <3> QED
      BY <3>1, <3>2, <1>1, <1>5, SMT
  <2> QED
    BY <2>1, <2>2, <2>3, <2>4, <2>5, <2>6 DEF OneLiveBallotPerVoter
<1>b. NonceSpentOnce'
  <2>1. nonce = {<<b.e, b.n>> : b \in ballot}
        /\ \A a, b \in ballot : a.e = b.e /\ a.n = b.n => a = b
    BY <1>6 DEF NonceSpentOnce
  <2>2. nonce' = {<<b.e, b.n>> : b \in ballot'}
    BY <2>1, <1>1, <1>2, <1>5, SMT DEF e
  <2>3. \A a, b \in Superseding(c) : a.e = b.e /\ a.n = b.n => a.hash = b.hash
    BY <2>1, <1>2, SMT
  <2>4. \A a \in Superseding(c) : a.e = e => a.n # job[c].n
    BY <1>2, <1>4, SMT
  <2>5. \A a, b \in ballot' : a.e = b.e /\ a.n = b.n => a.hash = b.hash
    BY <2>3, <2>4, <1>1, <1>5, SMT
  <2>6. \A a, b \in ballot' : a.e = b.e /\ a.n = b.n => a = b
    BY <2>5, <1>a DEF OneLiveBallotPerVoter
  <2> QED
    BY <2>2, <2>6 DEF NonceSpentOnce
<1>c. RowsHashed'
  BY <1>1, <1>2, <1>5, <1>6, SMT DEF RowsHashed
<1> QED
  BY <1>a, <1>b, <1>c DEF TablesOK

\* A context outside the steps in which ReadsHold and WritesAre say something.
LEMMA OwnNothing ==
    ASSUME NEW c, pc[c] \notin AfterSeen
    PROVE  Own(c)
BY DEF Own, ReadsHold, WritesAre, AfterPrior, AfterMark, AfterAppend, AfterSeen, AfterLoad

\* A context whose own variables stay keeps Own, if the tables stay.
LEMMA OwnFrame ==
    ASSUME NEW d \in Ctxs, Own(d), UNCHANGED <<ballot, owner, nonce>>,
           pc'[d] = pc[d], job'[d] = job[d], prior'[d] = prior[d], tx'[d] = tx[d]
    PROVE  Own(d)'
<1>1. ReadsHold(d)'
  BY DEF Own, ReadsHold, run_get_prior_ballot
<1>2. WritesAre(d)'
  BY SMT DEF Own, WritesAre, Superseding, NewRow, NewOwner, bb_issue_receipt, Version,
         BallotOf, OwnerOf, NonceOf
<1> QED
  BY <1>1, <1>2 DEF Own

\* NONCE_SEEN and GET_PRIOR_BALLOT establish what ReadsHold says.
LEMMA OwnReads ==
    ASSUME IInv, NEW c \in Ctxs, record_nonce_seen(c) \/ record_prior(c),
           pc'[c] \in AfterSeen
    PROVE  Own(c)'
<1>0. /\ pc \in [Ctxs -> Steps \cup {"idle"}] /\ prior \in [Ctxs -> OwnerRows \cup {NoRow}]
      /\ Own(c)
  BY DEF IInv, GInv, TypeOK, Own
<1>1. CASE record_nonce_seen(c)
  <2>1. CASE <<job[c].e, job[c].n>> \notin nonce
    <3>1. pc'[c] = "prior" /\ UNCHANGED <<nonce, job>>
      BY <1>0, <1>1, <2>1 DEF record_nonce_seen, Goto, tables, locals
    <3> QED
      BY <2>1, <3>1 DEF Own, ReadsHold, WritesAre, AfterPrior, AfterMark, AfterAppend
  <2>2. CASE <<job[c].e, job[c].n>> \in nonce
    <3>1. pc'[c] = "idle"
      BY <1>0, <1>1, <2>2 DEF record_nonce_seen, Return, Forget, Goto
    <3> QED
      BY <3>1 DEF AfterSeen, AfterLoad
  <2> QED BY <2>1, <2>2
<1>2. CASE record_prior(c)
  <2>1. /\ pc[c] = "prior" /\ pc'[c] = "append" /\ UNCHANGED <<ballot, owner, nonce, job>>
    BY <1>0, <1>2 DEF record_prior, Goto, tables
  <2>2. PICK r \in run_get_prior_ballot(job[c].e, job[c].v) :
               prior' = [prior EXCEPT ![c] = r]
    BY <1>2 DEF record_prior
  <2>3. prior'[c] \in run_get_prior_ballot(job[c].e, job[c].v)
    BY <1>0, <2>2
  <2>4. ReadsHold(c)'
    BY <1>0, <2>1, <2>3 DEF Own, ReadsHold, run_get_prior_ballot, AfterSeen, AfterLoad
  <2>5. WritesAre(c)'
    BY <2>1 DEF WritesAre, AfterMark, AfterAppend
  <2> QED BY <2>4, <2>5 DEF Own
<1> QED
  BY <1>1, <1>2

\* A writing statement keeps what was read, and the rows it goes by.
LEMMA OwnStays ==
    ASSUME NEW c \in Ctxs, ReadsHold(c), pc[c] \in AfterPrior,
           pc'[c] \in AfterPrior, UNCHANGED <<tables, job, prior>>
    PROVE  /\ ReadsHold(c)'
           /\ NewRow(c)' = NewRow(c) /\ NewOwner(c)' = NewOwner(c)
           /\ Superseding(c)' = Superseding(c)
<1>1. ReadsHold(c)'
  BY DEF ReadsHold, run_get_prior_ballot, tables, AfterPrior
<1>2. /\ NewRow(c)' = NewRow(c) /\ NewOwner(c)' = NewOwner(c)
      /\ Superseding(c)' = Superseding(c)
  BY Zenon DEF NewRow, NewOwner, Version, bb_issue_receipt, Superseding, tables
<1> QED
  BY <1>1, <1>2

\* APPEND_BALLOT adds the new row.
LEMMA OwnAppend ==
    ASSUME IInv, NEW c \in Ctxs, run_append_ballot(c)
    PROVE  Own(c)'
<1> DEFINE s == IF prior[c] = NoRow THEN "owner" ELSE "mark"
           R == tx[c].ballot \cup {NewRow(c)}
<1>1. /\ pc \in [Ctxs -> Steps \cup {"idle"}] /\ tx \in [Ctxs -> Txs]
      /\ WritesStart(c) /\ ReadsHold(c)
  BY DEF IInv, GInv, TypeOK
<1>2. /\ pc[c] = "append" /\ pc'[c] = s /\ tx' = [tx EXCEPT ![c].ballot = R]
      /\ UNCHANGED <<tables, job, prior>>
  BY <1>1 DEF run_append_ballot, Goto
<1>3. tx[c].ballot = {} /\ tx[c].gone = {}
  BY <1>1, <1>2, NothingWritten DEF AfterAppend
<1>4. R = {NewRow(c)}
  BY <1>3
<1> HIDE DEF R
<1>5. tx'[c].ballot = R /\ tx'[c].gone = {}
  BY <1>1, <1>2, <1>3 DEF Txs
<1>6. s \in {"owner", "mark"} /\ pc[c] \in AfterPrior /\ pc'[c] \in AfterPrior
  BY <1>2 DEF AfterPrior, AfterSeen, AfterLoad
<1>7. /\ ReadsHold(c)' /\ NewRow(c)' = NewRow(c) /\ Superseding(c)' = Superseding(c)
  BY <1>1, <1>2, <1>6, OwnStays
<1>8. BallotOf(c)' = ballot \cup {NewRow(c)}
  BY <1>2, <1>4, <1>5 DEF BallotOf, tables
<1>9. WritesAre(c)'
  <2>1. CASE prior[c] = NoRow
    <3>1. pc'[c] = "owner" /\ Superseding(c) = ballot
      BY <1>2, <2>1 DEF Superseding
    <3> QED BY <1>7, <1>8, <3>1 DEF WritesAre
  <2>2. CASE prior[c] # NoRow
    <3>1. pc'[c] = "mark" /\ UNCHANGED <<ballot, prior>>
      BY <1>2, <2>2 DEF tables
    <3> QED BY <1>7, <1>8, <2>2, <3>1 DEF WritesAre, AfterMark, AfterAppend
  <2> QED BY <2>1, <2>2
<1> QED
  BY <1>7, <1>9 DEF Own

\* Marking replaces exactly the voter's previous live row.
LEMMA MarkRow ==
    ASSUME IInv, NEW c \in Ctxs, pc[c] = "mark", NEW r \in HashRows(c)
    PROVE  (BallotOf(c) \ HashRows(c)) \cup {[r EXCEPT !.sup = TRUE]}
             = Superseding(c) \cup {NewRow(c)}
<1>1. /\ prior[c] # NoRow /\ BallotOf(c) = ballot \cup {NewRow(c)}
  BY DEF IInv, WritesAre
<1>2. prior[c] \in owner /\ prior[c].e = job[c].e
  BY <1>1 DEF IInv, ReadsHold, run_get_prior_ballot, AfterPrior, AfterSeen, AfterLoad
<1>3. NewRow(c).hash # prior[c].hash
  BY <1>2, FreshHash DEF AfterAppend
<1>4. HashRows(c) = {b \in ballot : b.e = job[c].e /\ b.hash = prior[c].hash}
  BY <1>1, <1>3 DEF HashRows
<1>5. \A a, b \in ballot : a.e = b.e /\ a.hash = b.hash => a = b
  BY DEF IInv, TablesOK, OneLiveBallotPerVoter
<1>6. HashRows(c) = {r} /\ r \in ballot /\ r.e = job[c].e /\ r.hash = prior[c].hash
  BY <1>4, <1>5
<1>7. \A b \in ballot : (b.e = job[c].e /\ b.hash = prior[c].hash) <=> b = r
  BY <1>5, <1>6
<1> DEFINE S(b) == IF b.e = job[c].e /\ b.hash = prior[c].hash
                   THEN [b EXCEPT !.sup = TRUE] ELSE b
<1>8. Superseding(c) = {S(b) : b \in ballot}
  BY <1>1, Zenon DEF Superseding
<1>9. S(r) = [r EXCEPT !.sup = TRUE] /\ \A b \in ballot \ {r} : S(b) = b
  BY <1>6, <1>7, Zenon
<1> HIDE DEF S
<1>10. Superseding(c) = (ballot \ {r}) \cup {[r EXCEPT !.sup = TRUE]}
  <2> DEFINE t == [r EXCEPT !.sup = TRUE]
  <2>1. S(r) = t
    BY <1>9
  <2> HIDE DEF t
  <2>2. Superseding(c) = (ballot \ {r}) \cup {t}
    BY <1>6, <1>8, <1>9, <2>1, SMT
  <2> QED BY <2>2 DEF t
<1>11. NewRow(c) # r
  BY <1>3, <1>6
<1> DEFINE t == [r EXCEPT !.sup = TRUE]
<1>12. Superseding(c) = (ballot \ {r}) \cup {t}
  BY <1>10
<1> HIDE DEF t
<1>13. (BallotOf(c) \ HashRows(c)) \cup {t} = Superseding(c) \cup {NewRow(c)}
  BY <1>1, <1>6, <1>11, <1>12
<1> QED
  BY <1>13 DEF t

\* MARK_SUPERSEDED completes the ballot table.
LEMMA OwnMark ==
    ASSUME IInv, NEW c \in Ctxs, run_mark_superseded(c)
    PROVE  Own(c)'
<1>1. /\ pc \in [Ctxs -> Steps \cup {"idle"}] /\ tx \in [Ctxs -> Txs]
      /\ ballot \subseteq BallotRows /\ ReadsHold(c)
  BY DEF IInv, GInv, TypeOK
<1>2. /\ pc[c] = "mark" /\ pc'[c] = "owner" /\ UNCHANGED <<tables, job, prior>>
  BY <1>1 DEF run_mark_superseded, Goto
<1>3. PICK r \in HashRows(c) :
        tx' = [tx EXCEPT ![c].gone = @ \cup HashRows(c),
                         ![c].ballot = (@ \ HashRows(c)) \cup {[r EXCEPT !.sup = TRUE]}]
  BY Zenon DEF run_mark_superseded
<1> DEFINE x == [r EXCEPT !.sup = TRUE]
<1>4. /\ tx'[c].gone = tx[c].gone \cup HashRows(c)
      /\ tx'[c].ballot = (tx[c].ballot \ HashRows(c)) \cup {x}
  BY <1>1, <1>3, MarkTx, Zenon
<1>5. (BallotOf(c) \ HashRows(c)) \cup {x} = Superseding(c) \cup {NewRow(c)}
  BY <1>2, MarkRow
<1> HIDE DEF x
<1>6. BallotOf(c)' = Superseding(c) \cup {NewRow(c)}
  <2>1. BallotOf(c)' = (ballot \ tx'[c].gone) \cup tx'[c].ballot
    BY <1>2 DEF BallotOf, tables
  <2>2. BallotOf(c) = (ballot \ tx[c].gone) \cup tx[c].ballot
    BY DEF BallotOf
  <2>3. BallotOf(c)' = (BallotOf(c) \ HashRows(c)) \cup {x}
    BY <1>4, <2>1, <2>2
  <2> QED BY <1>5, <2>3
<1>7. pc[c] \in AfterPrior /\ pc'[c] \in AfterPrior
  BY <1>2 DEF AfterPrior, AfterSeen, AfterLoad
<1>8. /\ ReadsHold(c)' /\ NewRow(c)' = NewRow(c) /\ Superseding(c)' = Superseding(c)
  BY <1>1, <1>2, <1>7, OwnStays
<1>9. WritesAre(c)'
  BY <1>2, <1>6, <1>8 DEF WritesAre
<1> QED
  BY <1>8, <1>9 DEF Own

\* SET_OWNER completes the owner table, NONCE_MARK the nonce table.
LEMMA OwnOwnerNonce ==
    ASSUME IInv, NEW c \in Ctxs, run_set_owner(c) \/ run_nonce_mark(c)
    PROVE  Own(c)'
<1>1. /\ pc \in [Ctxs -> Steps \cup {"idle"}] /\ tx \in [Ctxs -> Txs]
      /\ owner \subseteq OwnerRows /\ LoadHolds(c) /\ WritesStart(c)
      /\ ReadsHold(c) /\ WritesAre(c)
  BY DEF IInv, GInv, TypeOK
<1>2. /\ pc[c] \in {"owner", "consume"} /\ UNCHANGED <<tables, job, prior>>
      /\ UNCHANGED <<ballot, owner, nonce>>
  BY DEF run_set_owner, run_nonce_mark, tables
<1>3. Version(c) \in 1..MaxVersion /\ job[c] \in RecordJobs
  BY <1>1, <1>2 DEF LoadHolds, RecordSteps, AfterAppend
<1>4. NewOwner(c) \in OwnerRows /\ <<job[c].e, job[c].n>> \in Elections \X Nonces
  BY <1>3, NewRowsType
<1>5. pc[c] \in AfterPrior /\ pc[c] \in AfterMark
  BY <1>2 DEF AfterPrior, AfterSeen, AfterLoad, AfterMark, AfterAppend
<1>6. BallotOf(c) = Superseding(c) \cup {NewRow(c)}
  BY <1>1, <1>5 DEF WritesAre
<1> DEFINE O == {r \in owner : ~(r.e = job[c].e /\ r.cert = job[c].v)} \cup {NewOwner(c)}
<1>7. CASE run_set_owner(c)
  <2>1. pc[c] = "owner" /\ pc'[c] = "consume"
    BY <1>1, <1>7 DEF run_set_owner, Goto
  <2>2. /\ tx'[c].left = tx[c].left \cup OldOwners(c)
        /\ tx'[c].owner = tx[c].owner \cup {NewOwner(c)}
        /\ tx'[c].ballot = tx[c].ballot /\ tx'[c].gone = tx[c].gone
    BY <1>1, <1>4, <1>7, OwnerTx
  <2>3. tx[c].left = {} /\ tx[c].owner = {}
    BY <1>1, <2>1 DEF WritesStart
  <2>4. OwnerOf(c)' = O
    <3>1. OwnerOf(c)' = (owner \ tx'[c].left) \cup tx'[c].owner
      BY <1>2 DEF OwnerOf
    <3>2. owner \ OldOwners(c) = {r \in owner : ~(r.e = job[c].e /\ r.cert = job[c].v)}
      BY DEF OldOwners
    <3> QED BY <2>2, <2>3, <3>1, <3>2
  <2>5. BallotOf(c)' = BallotOf(c)
    BY <1>2, <2>2 DEF BallotOf
  <2>6. pc'[c] \in AfterPrior
    BY <2>1 DEF AfterPrior, AfterSeen, AfterLoad
  <2>7. /\ ReadsHold(c)' /\ NewRow(c)' = NewRow(c) /\ NewOwner(c)' = NewOwner(c)
        /\ Superseding(c)' = Superseding(c)
    BY <1>1, <1>2, <1>5, <2>6, OwnStays
  <2>8. O' = O
    BY <1>2, <2>7
  <2> HIDE DEF O
  <2>9. OwnerOf(c)' = O'
    BY <2>4, <2>8
  <2>10. WritesAre(c)'
    BY <1>6, <2>1, <2>5, <2>7, <2>9 DEF WritesAre, O
  <2> QED BY <2>7, <2>10 DEF Own
<1>8. CASE run_nonce_mark(c)
  <2> DEFINE N == nonce \cup {<<job[c].e, job[c].n>>}
  <2>1. pc[c] = "consume" /\ pc'[c] = "commit"
    BY <1>1, <1>8 DEF run_nonce_mark, Goto
  <2>2. /\ tx'[c].nonce = tx[c].nonce \cup {<<job[c].e, job[c].n>>}
        /\ tx'[c].ballot = tx[c].ballot /\ tx'[c].gone = tx[c].gone
        /\ tx'[c].owner = tx[c].owner /\ tx'[c].left = tx[c].left
    BY <1>1, <1>4, <1>8, NonceTx
  <2>3. tx[c].nonce = {}
    BY <1>1, <2>1 DEF WritesStart
  <2>4. NonceOf(c)' = N
    BY <1>2, <2>2, <2>3 DEF NonceOf
  <2>5. BallotOf(c)' = BallotOf(c) /\ OwnerOf(c)' = OwnerOf(c) /\ OwnerOf(c) = O
    BY <1>1, <1>2, <2>1, <2>2 DEF BallotOf, OwnerOf, WritesAre
  <2>6. pc'[c] \in AfterPrior
    BY <2>1 DEF AfterPrior, AfterSeen, AfterLoad
  <2>7. /\ ReadsHold(c)' /\ NewRow(c)' = NewRow(c) /\ NewOwner(c)' = NewOwner(c)
        /\ Superseding(c)' = Superseding(c)
    BY <1>1, <1>2, <1>5, <2>6, OwnStays
  <2>8. O' = O /\ N' = N
    BY <1>2, <2>7
  <2> HIDE DEF O, N
  <2>9. OwnerOf(c)' = O' /\ NonceOf(c)' = N'
    BY <2>4, <2>5, <2>8
  <2>10. WritesAre(c)'
    BY <1>6, <2>1, <2>5, <2>7, <2>9 DEF WritesAre, O, N
  <2> QED BY <2>7, <2>10 DEF Own
<1> QED
  BY <1>7, <1>8

\* Where a step can take a context, as far as ReadsHold and WritesAre go.
OwnStep(d) == \/ record_nonce_seen(d) \/ record_prior(d) \/ run_append_ballot(d)
              \/ run_mark_superseded(d) \/ run_set_owner(d) \/ run_nonce_mark(d)

LEMMA RecordMoves ==
    ASSUME TypeOK, [Next]_vars, NEW d \in Ctxs
    PROVE  \/ /\ pc'[d] = pc[d] /\ job'[d] = job[d] /\ prior'[d] = prior[d]
              /\ tx'[d] = tx[d]
           \/ pc'[d] \notin AfterSeen
           \/ OwnStep(d)
<1>0. /\ pc \in [Ctxs -> Steps \cup {"idle"}] /\ job \in [Ctxs -> Jobs \cup {NoRow}]
      /\ prior \in [Ctxs -> OwnerRows \cup {NoRow}] /\ tx \in [Ctxs -> Txs]
  BY DEF TypeOK
<1> DEFINE Same(c) == /\ pc'[c] = pc[c] /\ job'[c] = job[c] /\ prior'[c] = prior[c]
                      /\ tx'[c] = tx[c]
           Moved(c) == /\ \A b \in Ctxs \ {c} : Same(b)
                       /\ pc'[c] \notin AfterSeen \/ OwnStep(c)
<1>1. ASSUME NEW c \in Ctxs, Forget(c) PROVE Moved(c)
  BY <1>0, <1>1 DEF Forget, Goto, AfterSeen, AfterLoad
<1>2. ASSUME NEW c \in Ctxs, NEW s, Goto(c, s), UNCHANGED <<job, prior, tx>>,
             s \notin AfterSeen
      PROVE  Moved(c)
  BY <1>0, <1>2 DEF Goto
<1>3. ASSUME NEW c \in Ctxs, OwnStep(c) PROVE Moved(c)
  <2>1. \/ Forget(c)
        \/ /\ \E s : Goto(c, s)
           /\ UNCHANGED job
           /\ \E r : prior' = [prior EXCEPT ![c] = r]
           /\ \E t : tx' = [tx EXCEPT ![c] = t]
    <3>1. \E r : prior = [prior EXCEPT ![c] = r]
      BY <1>0
    <3>2. \E t : tx = [tx EXCEPT ![c] = t]
      BY <1>0
    <3>3. CASE record_nonce_seen(c)
      BY <3>1, <3>2, <3>3 DEF record_nonce_seen, Return, locals
    <3>4. CASE record_prior(c)
      <4>1. tx' = [tx EXCEPT ![c] = [tx[c] EXCEPT !.read = owner]]
        BY <3>4, Zenon DEF record_prior
      <4>2. \E t : tx' = [tx EXCEPT ![c] = t]
        BY <4>1, Zenon
      <4> QED BY <3>4, <4>2 DEF record_prior
    <3>5. CASE \/ run_append_ballot(c) \/ run_mark_superseded(c)
               \/ run_set_owner(c) \/ run_nonce_mark(c)
      <4>1. \E t : tx' = [tx EXCEPT ![c] = t]
        BY <3>5, Zenon DEF run_append_ballot, run_mark_superseded, run_set_owner,
           run_nonce_mark
      <4> QED
        BY <3>1, <3>5, <4>1 DEF run_append_ballot, run_mark_superseded, run_set_owner,
           run_nonce_mark
    <3> QED BY <1>3, <3>3, <3>4, <3>5 DEF OwnStep
  <2> QED BY <1>0, <1>1, <1>3, <2>1 DEF Goto
<1>4. /\ \A s \in {"load", "seen", "begin", "jprior", "rtally", "rhashes", "lfind",
                   "update"} : s \notin AfterSeen
      /\ \A op : First(op) \notin AfterSeen
  BY DEF AfterSeen, AfterLoad, First
<1>5. ASSUME NEW c \in Ctxs, Record(c) PROVE Moved(c)
  <2>1. CASE OwnStep(c)
    BY <1>3, <2>1
  <2>2. CASE BeginFails(c) \/ bb_db_commit(c) \/ CommitReplyLost(c) \/ RecordFails(c)
    <3>1. Forget(c)
      BY <2>2 DEF BeginFails, bb_db_commit, CommitReplyLost, RecordFails, Return
    <3> QED BY <1>1, <3>1
  <2>3. CASE bb_db_begin(c) \/ record_load(c)
    <3>1. \/ Forget(c)
          \/ \E s \in {"load", "seen"} : Goto(c, s) /\ UNCHANGED <<job, prior, tx>>
      BY <2>3 DEF bb_db_begin, record_load, Return, locals
    <3> QED BY <1>1, <1>2, <1>4, <3>1
  <2>4. CASE RecordRetry(c)
    <3>1. \/ Forget(c)
          \/ /\ Goto(c, "begin") /\ UNCHANGED job
             /\ prior' = [prior EXCEPT ![c] = NoRow]
             /\ tx' = [tx EXCEPT ![c] = EmptyTx]
      BY <2>4 DEF RecordRetry, Return
    <3>2. CASE /\ Goto(c, "begin") /\ UNCHANGED job
               /\ prior' = [prior EXCEPT ![c] = NoRow]
               /\ tx' = [tx EXCEPT ![c] = EmptyTx]
      BY <1>0, <1>4, <3>2 DEF Goto
    <3> QED BY <1>1, <3>1, <3>2
  <2> QED BY <1>5, <2>1, <2>2, <2>3, <2>4 DEF Record, OwnStep
<1>6. ASSUME NEW c \in Ctxs,
             Read(c) \/ OneShotFails(c) \/ run_update_state(c) \/ transition_get(c)
      PROVE  Moved(c)
  <2>1. \/ Forget(c)
        \/ \E s \in {"jprior", "rtally", "rhashes", "lfind", "update"} :
              Goto(c, s) /\ UNCHANGED <<job, prior, tx>>
    BY <1>6 DEF Read, join_load, join_prior, results_load, fetch_tally,
       fetch_hashes, lookup_load, run_find_hash, OneShotFails, run_update_state,
       transition_get, locals, Return
  <2> QED BY <1>1, <1>2, <1>4, <2>1
<1>7. ASSUME NEW c \in Ctxs, Crash(c) PROVE Moved(c)
  BY <1>1, <1>7 DEF Crash
<1>8. ASSUME NEW c \in Ctxs, NEW j, Start(c, j) PROVE Moved(c)
  BY <1>0, <1>4, <1>8 DEF Start
<1>9. CASE UNCHANGED vars
  BY <1>9 DEF vars
<1>10. \A c \in Ctxs : Moved(c) => \/ Same(d) \/ pc'[d] \notin AfterSeen \/ OwnStep(d)
  OBVIOUS
<1> HIDE DEF Moved, Same
<1>11. Same(d) \/ pc'[d] \notin AfterSeen \/ OwnStep(d) \/ UNCHANGED vars
  BY <1>5, <1>6, <1>7, <1>8, <1>10 DEF Next, Step
<1> QED
  BY <1>9, <1>11 DEF Same

\* The initial state: no rows, no request.
LEMMA InitIInv == Init => IInv
<1> SUFFICES ASSUME Init PROVE IInv
  OBVIOUS
<1>1. TablesOK
  BY DEF Init, TablesOK, OneLiveBallotPerVoter, NonceSpentOnce, RowsHashed
<1>2. \A c \in Ctxs : pc[c] \notin AfterSeen
  BY DEF Init, AfterSeen, AfterLoad
<1>3. \A c \in Ctxs : Own(c)
  BY <1>2, OwnNothing
<1> QED
  BY <1>1, <1>3, InitGInv DEF IInv, Own

\* Every step keeps IInv, if one context records.
LEMMA NextIInv ==
    ASSUME OneRecorder
    PROVE  IInv /\ [Next]_vars => IInv'
<1> SUFFICES ASSUME IInv, [Next]_vars PROVE IInv'
  OBVIOUS
<1>1. GInv /\ GInv' /\ TypeOK /\ pc' \in [Ctxs -> Steps \cup {"idle"}]
  BY NextGInv DEF IInv, GInv, TypeOK
<1>2. \/ UNCHANGED <<ballot, owner, nonce>>
      \/ \E c \in Ctxs : pc[c] = "commit" /\ Install(c)
  BY WhoWrites
<1>3. TablesOK'
  <2>1. CASE UNCHANGED <<ballot, owner, nonce>>
    BY <2>1, SMT DEF IInv, TablesOK, OneLiveBallotPerVoter, NonceSpentOnce, RowsHashed
  <2> QED BY <1>2, <2>1, CommitTables
<1>4. ASSUME NEW d \in Ctxs PROVE Own(d)'
  <2>1. CASE pc'[d] \notin AfterSeen
    BY <2>1 DEF Own, ReadsHold, WritesAre, AfterPrior, AfterMark, AfterAppend,
       AfterSeen, AfterLoad
  <2>2. CASE OwnStep(d) /\ pc'[d] \in AfterSeen
    BY <2>2, OwnReads, OwnAppend, OwnMark, OwnOwnerNonce DEF OwnStep
  <2>3. CASE /\ pc'[d] = pc[d] /\ job'[d] = job[d] /\ prior'[d] = prior[d]
             /\ tx'[d] = tx[d] /\ pc'[d] \in AfterSeen
    <3>1. CASE UNCHANGED <<ballot, owner, nonce>>
      BY <2>3, <3>1, OwnFrame DEF IInv, Own
    <3>2. ASSUME NEW c \in Ctxs, pc[c] = "commit", Install(c) PROVE FALSE
      <4>1. pc[c] \in RecordSteps /\ pc[d] \in RecordSteps
        BY <2>3, <3>2 DEF RecordSteps, AfterSeen, AfterLoad
      <4>2. c = d
        BY <1>1, <4>1, RecordsAlone
      <4>3. applied'[c] = TRUE
        BY <3>2 DEF Install, IInv, GInv, TypeOK
      <4>4. pc'[d] # "idle"
        BY <2>3 DEF AfterSeen, AfterLoad
      <4> QED
        BY <1>1, <4>2, <4>3, <4>4 DEF GInv, OtherJobs
    <3> QED BY <1>2, <3>1, <3>2
  <2> QED BY <1>1, <2>1, <2>2, <2>3, RecordMoves
<1> QED
  BY <1>1, <1>3, <1>4 DEF IInv, Own

\* With one context that records, IInv holds in every reachable state.
THEOREM Inductive ==
    ASSUME OneRecorder
    PROVE  Spec => []IInv
BY InitIInv, NextIInv, PTL DEF Spec

\* One live ballot per voter, if one context receives the casts, as in ballotd:
\* whatever retries, lost commit replies and crashes do, bb_record_ballot's
\* transactions keep ballot and ballot_owner in one-to-one correspondence.
THEOREM OneLiveBallot ==
    ASSUME OneRecorder
    PROVE  Spec => []OneLiveBallotPerVoter
<1>1. IInv => OneLiveBallotPerVoter
  BY DEF IInv, TablesOK
<1> QED
  BY <1>1, Inductive, PTL

\* A nonce is spent if and only if exactly one ballot was recorded with it, if
\* one context receives the casts.
THEOREM NonceOnce ==
    ASSUME OneRecorder
    PROVE  Spec => []NonceSpentOnce
<1>1. IInv => NonceSpentOnce
  BY DEF IInv, TablesOK
<1> QED
  BY <1>1, Inductive, PTL
=============================================================================
