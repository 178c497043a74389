----------------------------- MODULE Elections -----------------------------
(* How elections come into being: the create screen of ballotctl, the       *)
(* admin thread that serves one request at a time, the allocation of ids    *)
(* from max(seq) and the transaction of inserts that stores an election.    *)
(*                                                                          *)
(* An id is its prefix and its trailing number: "E-105" is ("E", 105) and   *)
(* "board" is ("board", Nil).  C's int is -IntMax-1 .. IntMax.  Rows carry  *)
(* the number of the insert that made them, so that two rows with one id    *)
(* stay apart.                                                              *)
EXTENDS Integers, FiniteSets, FiniteSetsExt

CONSTANTS
  Operators,    \* running ballotctl processes
  Configs,      \* configurations an operator may enter
  Typed,        \* ids an operator may type
  Nil,
  First,        \* the id number of the first election (100)
  IntMax,       \* largest int
  Attempts,     \* SELF_RETRY_ATTEMPTS
  MaxRows,      \* bound: elections ever inserted
  MaxFailures   \* bound: failing statements, lost answers, crashes

VARIABLES
  ui,           \* each operator's screen, request and last answer
  job,          \* the request the admin thread is working on
  elections, options, eligible,   \* committed rows of the three tables
  txn,          \* rows the open transaction has inserted
  blind,        \* some id was allocated without knowing the largest one
  made,         \* elections inserted so far, committed or not
  failures

store == <<elections, options, eligible>>
evars == <<ui, job, elections, options, eligible, txn, blind, made, failures>>

NoTxn == [elections |-> {}, options |-> {}, eligible |-> {}]
Idle == [at |-> "menu", id |-> Nil, cfg |-> Nil, told |-> Nil]

CreateInit ==
  /\ ui = [o \in Operators |-> Idle] /\ job = Nil
  /\ elections = {} /\ options = {} /\ eligible = {} /\ txn = NoTxn
  /\ blind = FALSE /\ made = 0 /\ failures = 0

Failure == failures < MaxFailures /\ failures' = failures + 1

-----------------------------------------------------------------------------
(* Ids *)

\* The conversion of a long to an int keeps the low bits.
ToInt(v) == IF v <= IntMax THEN v
            ELSE ((v + IntMax + 1) % (2 * (IntMax + 1))) - (IntMax + 1)

\* The number after the last dash; the sign of a negative number is that dash.
id_seq(id) == CASE id.n = Nil -> 0
                [] id.n # Nil /\ id.n < 0 -> ToInt(-id.n)
                [] OTHER -> ToInt(id.n)

Seqs == {e.seq : e \in elections}

nextNumber == IF Max(Seqs) = IntMax THEN -(IntMax + 1) ELSE Max(Seqs) + 1

\* The number the store's answer leads to; an empty table or a negative
\* maximum leaves the default.
bb_alloc_id == [p |-> "E", n |-> IF Seqs = {} \/ Max(Seqs) < 0 THEN First ELSE nextNumber]

\* The store is unreachable, or its answer is unusable.
bb_alloc_idBlind == [p |-> "E", n |-> First]

Overflows == Seqs # {} /\ Max(Seqs) = IntMax

-----------------------------------------------------------------------------
(* The operator *)

Form(id) == [at |-> "form", id |-> id, cfg |-> Nil, told |-> Nil]

\* The form opens with the id the daemon would allocate, or blank.
screen_create_election(o) ==
  /\ ui[o].at = "menu" /\ job = Nil /\ made < MaxRows
  /\ \/ ui' = [ui EXCEPT ![o] = Form(bb_alloc_id)] /\ UNCHANGED failures
     \/ Failure /\ \E id \in {Nil, bb_alloc_idBlind} : ui' = [ui EXCEPT ![o] = Form(id)]
  /\ UNCHANGED <<job, store, txn, blind, made>>

bb_validate_config(c) ==
  CASE ~c.title -> "TITLE" [] c.title /\ c.options < 2 -> "OPTIONS"
    [] c.title /\ c.options >= 2 /\ ~c.window -> "TIME" [] OTHER -> "OK"

\* A refused configuration leaves the form up; a valid one is sent with the
\* id as it stands, edited or blanked.
bc_build_create(o) ==
  /\ ui[o].at = "form"
  /\ \E c \in Configs, id \in Typed \cup {Nil, ui[o].id} :
       /\ bb_validate_config(c) = "OK"
       /\ ui' = [ui EXCEPT ![o] = [at |-> "sent", id |-> id, cfg |-> c, told |-> Nil]]
  /\ UNCHANGED <<job, store, txn, blind, made, failures>>

Cancel(o) ==
  /\ ui[o].at = "form" /\ ui' = [ui EXCEPT ![o] = Idle]
  /\ UNCHANGED <<job, store, txn, blind, made, failures>>

-----------------------------------------------------------------------------
(* The admin thread *)

Answer(o, status, id) ==
  ui' = [ui EXCEPT ![o] = [at |-> "told", id |-> @.id, cfg |-> @.cfg,
                           told |-> [status |-> status, id |-> id]]]

Dismiss(o) ==
  /\ ui[o].at = "told" /\ ui' = [ui EXCEPT ![o] = Idle]
  /\ UNCHANGED <<job, store, txn, blind, made, failures>>

\* db_exec of BB_DB_INSERT_ELECTION starts.
Insert(o, id) ==
  job' = [o |-> o, id |-> id, cfg |-> ui[o].cfg, row |-> made + 1, k |-> 0, attempt |-> 1]

\* Mutant: a typed id is not looked up.
load_electionNever(id) == FALSE

\* A typed id is looked up before it is used.
load_election(id) == \E e \in elections : e.id = id

CheckDesired(o) ==
  /\ ui[o].at = "sent" /\ job = Nil /\ made < MaxRows /\ ui[o].id # Nil
  /\ \/ /\ load_election(ui[o].id)
        /\ Answer(o, "ID_TAKEN", ui[o].id) /\ UNCHANGED <<job, made, failures>>
     \/ Failure /\ Answer(o, "DB", ui[o].id) /\ UNCHANGED <<job, made>>
     \/ /\ ~load_election(ui[o].id)
        /\ Insert(o, ui[o].id) /\ made' = made + 1 /\ UNCHANGED <<ui, failures>>
  /\ UNCHANGED <<store, txn, blind>>

\* A blank one is replaced by an allocated id, which is not looked up.
AllocateId(o) ==
  /\ ui[o].at = "sent" /\ job = Nil /\ made < MaxRows /\ ui[o].id = Nil
  /\ \/ Insert(o, bb_alloc_id) /\ blind' = (blind \/ Overflows) /\ UNCHANGED failures
     \/ Failure /\ Insert(o, bb_alloc_idBlind) /\ blind' = TRUE
  /\ made' = made + 1 /\ UNCHANGED <<ui, store, txn>>

op_is_write == TRUE

\* Statement k inserts the election row, then the options, then the voters.
Statements(c) == 1 + c.options + c.eligible

NewElection == [row |-> job.row, id |-> job.id, seq |-> id_seq(job.id), cfg |-> job.cfg]
NewOption == [row |-> job.row, id |-> job.id, idx |-> job.k - 1]
NewEligible == [row |-> job.row, id |-> job.id, who |-> job.k - job.cfg.options]

\* A line break or tab in the k-th value is refused before its statement.
unsafe == job.cfg.unsafe = job.k

\* The transaction with the row of statement k.
Inserted ==
  [elections |-> txn.elections \cup (IF job.k = 0 THEN {NewElection} ELSE {}),
   options |-> txn.options \cup (IF job.k \in 1..job.cfg.options THEN {NewOption} ELSE {}),
   eligible |-> txn.eligible \cup (IF job.k > job.cfg.options THEN {NewEligible} ELSE {})]

\* The job at statement k of an attempt.
At(k, attempt) ==
  [o |-> job.o, id |-> job.id, cfg |-> job.cfg, row |-> job.row, k |-> k, attempt |-> attempt]

run_insert_election ==
  /\ job # Nil /\ job.k < Statements(job.cfg) /\ ~unsafe
  /\ IF op_is_write
     THEN txn' = Inserted /\ UNCHANGED store
     ELSE /\ txn' = NoTxn /\ elections' = elections \cup Inserted.elections
          /\ options' = options \cup Inserted.options /\ eligible' = eligible \cup Inserted.eligible
  /\ job' = At(job.k + 1, job.attempt)
  /\ UNCHANGED <<ui, blind, made, failures>>

\* Mutant: the failure of a statement is not passed on.
InsertFailsQuietly ==
  /\ job # Nil /\ job.k < Statements(job.cfg) /\ (IF unsafe THEN UNCHANGED failures ELSE Failure)
  /\ txn' = NoTxn /\ job' = Nil /\ Answer(job.o, "OK", job.id)
  /\ UNCHANGED <<store, blind, made>>

\* A refused value or a failing statement rolls the transaction back.
InsertFails ==
  /\ job # Nil /\ job.k < Statements(job.cfg) /\ (IF unsafe THEN UNCHANGED failures ELSE Failure)
  /\ txn' = NoTxn /\ job' = Nil /\ Answer(job.o, "DB", job.id)
  /\ UNCHANGED <<store, blind, made>>

\* A deadlock abort is redone on a new connection until the attempts run out.
InsertAborted ==
  /\ job # Nil /\ Failure /\ txn' = NoTxn
  /\ IF job.attempt < Attempts
     THEN job' = At(0, job.attempt + 1) /\ UNCHANGED ui
     ELSE job' = Nil /\ Answer(job.o, "DB", job.id)
  /\ UNCHANGED <<store, blind, made>>

\* The commit, whose answer may be lost.
InsertCommits ==
  /\ job # Nil /\ job.k = Statements(job.cfg)
  /\ elections' = elections \cup txn.elections /\ options' = options \cup txn.options
  /\ eligible' = eligible \cup txn.eligible
  /\ txn' = NoTxn /\ job' = Nil
  /\ \/ Answer(job.o, "OK", job.id) /\ UNCHANGED failures
     \/ Failure /\ Answer(job.o, "DB", job.id)
  /\ UNCHANGED <<blind, made>>

\* ballotd dies; the store rolls its transaction back, and the operator's
\* connection breaks.
Crash ==
  /\ job # Nil /\ Failure
  /\ txn' = NoTxn /\ job' = Nil /\ Answer(job.o, "DB", job.id)
  /\ UNCHANGED <<store, blind, made>>

CreateNext ==
  \/ \E o \in Operators : screen_create_election(o) \/ bc_build_create(o) \/ Cancel(o)
                          \/ Dismiss(o) \/ CheckDesired(o) \/ AllocateId(o)
  \/ run_insert_election \/ InsertFails \/ InsertAborted \/ InsertCommits \/ Crash

CreateSpec == CreateInit /\ [][CreateNext]_evars
=============================================================================
