---------------------------- MODULE BallotBrain ----------------------------
(***************************************************************************)
(* libballotbrain: the daemon-side rules of BallotBox over its SimpleDB    *)
(* tables.  A context (bb_ctx) serves one request at a time; ballotd has   *)
(* one context, driven by admin_thread.  Several contexts are several      *)
(* processes linked with the library and sharing one store.                *)
(*                                                                         *)
(* A request is a sequence of db_exec calls.  bb_record_ballot runs its    *)
(* calls in one SimpleDB transaction; every other handler runs each call   *)
(* as a transaction of its own, so other contexts may run in between.      *)
(*                                                                         *)
(* SimpleDB locks pages, until the transaction ends, and which rows share  *)
(* a page depends on the history of the file.  A statement waits here only *)
(* where it waits on every page layout:                                    *)
(*   a scan, for the rows another transaction has written;                 *)
(*   a delete, for another transaction that has scanned the row;           *)
(*   an insert, which walks the pages to a free slot, for the rows another *)
(*   transaction has written, and not for one that has scanned the table:  *)
(*   the new row may go to a page appended after the scan.                 *)
(***************************************************************************)
EXTENDS Integers, FiniteSets

CONSTANTS
    Ctxs,         \* library contexts sharing the store
    Elections,    \* election ids a request may name
    Voters,       \* certificate names
    Nonces,       \* ballot nonces
    Options,      \* option indices a payload may carry
    OptionCount,  \* election -> number of options of its configuration
    Eligible,     \* election -> its eligible list
    Hash(_, _),   \* receipt hash of (nonce, version): bb_issue_receipt
    MaxVoters,    \* BB_MAX_VOTERS: capacity of the published hash list
    MaxVersion,   \* bound on a ballot's version
    MaxAttempts,  \* BB_TXN_ATTEMPTS
    NoRow,        \* "no row found"
    Requests      \* context -> the requests it may receive, any number of times

VARIABLES
    election,     \* election table: id -> lifecycle state, "NONE" if no row
    ballot,       \* ballot table: identity-free hash rows
    owner,        \* ballot_owner table: voter -> current hash and version
    nonce,        \* nonce table: consumed nonces
    pc,           \* next db_exec of the request a context serves
    job,          \* that request
    attempt,      \* attempts of bb_record_ballot already given up
    prior,        \* the row GET_PRIOR_BALLOT returned
    tx,           \* rows the open transaction has added, deleted and scanned
    tally,        \* the tally GET_TALLY returned
    answer,       \* the last request's result
    applied,      \* history: did the last request's write take effect?
    receipts      \* history: the receipts handed out with BB_OK

tables == <<election, ballot, owner, nonce>>
locals == <<job, attempt, prior, tx, tally>>
vars == <<election, ballot, owner, nonce, pc, job, attempt, prior, tx, tally,
          answer, applied, receipts>>

States == {"DRAFT", "OPEN", "CLOSED", "PUBLISHED"}
Hashes == {Hash(n, ver) : n \in Nonces, ver \in 1..MaxVersion}

\* A ballot row.  Field n is not a column: it tells rows with equal columns
\* apart, as the record id of the stored tuple does, if they were recorded
\* with two nonces.
BallotRows == [e : Elections, hash : Hashes, opt : Options,
               ver : 1..MaxVersion, sup : BOOLEAN, n : Nonces]
OwnerRows == [e : Elections, cert : Voters, hash : Hashes,
              ver : 1..MaxVersion]
Receipts == [e : Elections, cert : Voters, hash : Hashes, opt : Options,
             ver : 1..MaxVersion]

Jobs == [op : {"record"}, e : Elections, v : Voters, n : Nonces, o : Options]
          \cup [op : {"transition"}, e : Elections, to : States]
          \cup [op : {"join", "results"}, e : Elections, v : Voters]
          \cup [op : {"results_admin"}, e : Elections]
          \cup [op : {"lookup"}, e : Elections, h : Hashes]

Codes == {"OK", "ILLEGAL_TRANSITION", "NOT_OPEN", "CLOSED", "NOT_PUBLISHED",
          "NOT_ELIGIBLE", "BAD_OPTION", "REPLAY", "NOT_FOUND", "DB", "RETRY"}

NoTally == [o \in Options |-> 0]
\* Rows added to ballot, ballot_owner and nonce; ballot rows and owner rows
\* deleted; owner rows its scan found.
EmptyTx == [ballot |-> {}, owner |-> {}, nonce |-> {}, gone |-> {}, left |-> {},
            read |-> {}]
\* What a handler returns; e, tally and hashes are set by fetch_results only.
Coded(code) == [code |-> code, e |-> NoRow, tally |-> NoTally, hashes |-> {}]
NoAnswer == Coded("DB")

(***************************************************************************)
(* Pure rules.                                                             *)
(***************************************************************************)
\* Mutant: a closed election may be opened again.
reopening_transition(from, to) ==
    <<from, to>> \in {<<"DRAFT", "OPEN">>, <<"OPEN", "CLOSED">>,
                      <<"CLOSED", "OPEN">>, <<"CLOSED", "PUBLISHED">>}

bb_is_legal_transition(from, to) ==
    <<from, to>> \in {<<"DRAFT", "OPEN">>, <<"OPEN", "CLOSED">>,
                      <<"CLOSED", "PUBLISHED">>}

bb_check_eligibility(e, v) == v \in Eligible[e]

\* The checks record_ballot_locked makes on the loaded election, in order.
record_gate(j) ==
    CASE election[j.e] = "NONE"                    -> "NOT_FOUND"
      [] election[j.e] \in {"CLOSED", "PUBLISHED"} -> "CLOSED"
      [] election[j.e] = "DRAFT"                   -> "NOT_OPEN"
      [] OTHER -> IF ~bb_check_eligibility(j.e, j.v) THEN "NOT_ELIGIBLE"
                  ELSE IF j.o >= OptionCount[j.e] THEN "BAD_OPTION"
                  ELSE "OK"

\* The checks of bb_join (the certificate check passes every non-empty name).
join_gate(j) ==
    CASE election[j.e] = "NONE"             -> "NOT_FOUND"
      [] ~bb_check_eligibility(j.e, j.v)    -> "NOT_ELIGIBLE"
      [] election[j.e] # "OPEN"             -> "NOT_OPEN"
      [] OTHER                              -> "OK"

\* The checks of bb_get_results and bb_get_results_admin.
results_gate(j) ==
    CASE election[j.e] = "NONE"       -> "NOT_FOUND"
      [] election[j.e] # "PUBLISHED"  -> "NOT_PUBLISHED"
      [] OTHER -> IF j.op = "results" /\ ~bb_check_eligibility(j.e, j.v)
                  THEN "NOT_ELIGIBLE" ELSE "OK"

Live(e) == {b \in ballot : b.e = e /\ ~b.sup}

\* GET_TALLY and GET_HASHES (the hash list holds BB_MAX_VOTERS rows at most).
run_get_tally(e) == [o \in Options |-> Cardinality({b \in Live(e) : b.opt = o})]
\* Mutant: superseded rows are published too.
run_get_hashes_all(e) == {{b \in ballot : b.e = e}}

run_get_hashes(e) ==
    IF Cardinality(Live(e)) <= MaxVoters THEN {Live(e)}
    ELSE {s \in SUBSET Live(e) : Cardinality(s) = MaxVoters}

run_get_prior_ballot(e, v) ==
    LET rows == {r \in owner : r.e = e /\ r.cert = v}
    IN  IF rows = {} THEN {NoRow} ELSE rows

\* The version and receipt hash of the ballot context c is recording.
Version(c) == IF prior[c] = NoRow THEN 1 ELSE prior[c].ver + 1
bb_issue_receipt(c) == Hash(job[c].n, Version(c))

\* The rows APPEND_BALLOT and SET_OWNER write for it.
NewRow(c) == [e |-> job[c].e, hash |-> bb_issue_receipt(c), opt |-> job[c].o,
              ver |-> Version(c), sup |-> FALSE, n |-> job[c].n]
NewOwner(c) == [e |-> job[c].e, cert |-> job[c].v,
                hash |-> bb_issue_receipt(c), ver |-> Version(c)]

(***************************************************************************)
(* Locks, and what an open transaction has changed.                        *)
(***************************************************************************)
RecordSteps == {"begin", "load", "seen", "prior", "append", "mark", "owner",
                "consume", "commit"}
TransitionSteps == {"get", "update"}
JoinSteps == {"jload", "jprior"}
ResultsSteps == {"rload", "rtally", "rhashes"}
LookupSteps == {"lload", "lfind"}
Steps == RecordSteps \cup TransitionSteps \cup JoinSteps \cup ResultsSteps
           \cup LookupSteps

\* The steps of a transaction that has read the election.
AfterLoad == {"seen", "prior", "append", "mark", "owner", "consume", "commit"}

\* No other transaction has rows in table t that are not committed.
CanRead(c, t) == \A d \in Ctxs \ {c} : tx[d][t] = {}

\* No other transaction has scanned an owner row that c deletes.
CanDelete(c, rows) == \A d \in Ctxs \ {c} : tx[d].read \cap rows = {}

\* Mutant: the election is read on a connection of its own, so its lock is gone
\* when the ballot is recorded.
ElectionNeverHeld(c) == FALSE

\* Another transaction has scanned the election's row.
ElectionHeld(c) == \E d \in Ctxs \ {c} : pc[d] \in AfterLoad

\* The tables as c's transaction leaves them.
BallotOf(c) == (ballot \ tx[c].gone) \cup tx[c].ballot
OwnerOf(c) == (owner \ tx[c].left) \cup tx[c].owner
NonceOf(c) == nonce \cup tx[c].nonce

----------------------------------------------------------------------------
Init ==
    /\ election \in [Elections -> {"NONE", "DRAFT"}]
    /\ ballot = {} /\ owner = {} /\ nonce = {}
    /\ pc = [c \in Ctxs |-> "idle"]
    /\ job = [c \in Ctxs |-> NoRow]
    /\ attempt = [c \in Ctxs |-> 0]
    /\ prior = [c \in Ctxs |-> NoRow]
    /\ tx = [c \in Ctxs |-> EmptyTx]
    /\ tally = [c \in Ctxs |-> NoTally]
    /\ answer = [c \in Ctxs |-> NoAnswer]
    /\ applied = [c \in Ctxs |-> FALSE]
    /\ receipts = {}

First(op) == CASE op = "record"     -> "begin"
               [] op = "transition" -> "get"
               [] op = "join"       -> "jload"
               [] op = "lookup"     -> "lload"
               [] OTHER             -> "rload"

\* A request reaches a context (ballotd_dispatch calls the handler).
Start(c, j) ==
    /\ pc[c] = "idle"
    /\ pc' = [pc EXCEPT ![c] = First(j.op)]
    /\ job' = [job EXCEPT ![c] = j]
    /\ answer' = [answer EXCEPT ![c] = NoAnswer]
    /\ applied' = [applied EXCEPT ![c] = FALSE]
    /\ UNCHANGED <<tables, attempt, prior, tx, tally, receipts>>

Goto(c, step) == pc' = [pc EXCEPT ![c] = step]

\* The request is over, and so is its transaction, if it had one open.
Forget(c) ==
    /\ Goto(c, "idle")
    /\ job' = [job EXCEPT ![c] = NoRow]
    /\ attempt' = [attempt EXCEPT ![c] = 0]
    /\ prior' = [prior EXCEPT ![c] = NoRow]
    /\ tx' = [tx EXCEPT ![c] = EmptyTx]
    /\ tally' = [tally EXCEPT ![c] = NoTally]

Return(c, a) ==
    /\ Forget(c)
    /\ answer' = [answer EXCEPT ![c] = a]

(***************************************************************************)
(* bb_record_ballot: one transaction per attempt, at most BB_TXN_ATTEMPTS. *)
(***************************************************************************)
bb_db_begin(c) ==
    /\ pc[c] = "begin"
    /\ Goto(c, "load")
    /\ UNCHANGED <<tables, locals, answer, applied, receipts>>

\* The store is unreachable or refuses: the loop ends with that status.
\* ("set transaction" takes no lock, so it is never a deadlock's victim.)
BeginFails(c) ==
    /\ pc[c] = "begin"
    /\ Return(c, Coded("DB"))
    /\ UNCHANGED <<tables, applied, receipts>>

record_load(c) ==
    /\ pc[c] = "load"
    /\ IF record_gate(job[c]) = "OK"
       THEN Goto(c, "seen") /\ UNCHANGED <<locals, answer>>
       ELSE Return(c, Coded(record_gate(job[c])))
    /\ UNCHANGED <<tables, applied, receipts>>

record_nonce_seen(c) ==
    /\ pc[c] = "seen"
    /\ CanRead(c, "nonce")
    /\ IF <<job[c].e, job[c].n>> \in nonce
       THEN Return(c, Coded("REPLAY"))
       ELSE Goto(c, "prior") /\ UNCHANGED <<locals, answer>>
    /\ UNCHANGED <<tables, applied, receipts>>

record_prior(c) ==
    /\ pc[c] = "prior"
    /\ CanRead(c, "owner")
    /\ \E r \in run_get_prior_ballot(job[c].e, job[c].v) :
         prior' = [prior EXCEPT ![c] = r]
    /\ tx' = [tx EXCEPT ![c].read = owner]
    /\ Goto(c, "append")
    /\ UNCHANGED <<tables, job, attempt, tally, answer, applied, receipts>>

run_append_ballot(c) ==
    /\ pc[c] = "append"
    /\ CanRead(c, "ballot")
    /\ Version(c) <= MaxVersion
    /\ tx' = [tx EXCEPT ![c].ballot = @ \cup {NewRow(c)}]
    /\ Goto(c, IF prior[c] = NoRow THEN "owner" ELSE "mark")
    /\ UNCHANGED <<tables, job, attempt, prior, tally, answer, applied, receipts>>

\* Selects the rows with the prior hash, deletes them all, and puts one of
\* them (the first the select returned) back as superseded.  With no such row
\* the call fails like any other (RecordFails).
HashRows(c) == {b \in BallotOf(c) : b.e = job[c].e /\ b.hash = prior[c].hash}

\* Mutant: the row is deleted and not put back.
run_drop_superseded(c) ==
    /\ pc[c] = "mark"
    /\ CanRead(c, "ballot")
    /\ tx' = [tx EXCEPT ![c].gone = @ \cup HashRows(c), ![c].ballot = @ \ HashRows(c)]
    /\ Goto(c, "owner")
    /\ UNCHANGED <<tables, job, attempt, prior, tally, answer, applied, receipts>>

run_mark_superseded(c) ==
    /\ pc[c] = "mark"
    /\ CanRead(c, "ballot")
    /\ \E r \in HashRows(c) :
         tx' = [tx EXCEPT ![c].gone = @ \cup HashRows(c),
                          ![c].ballot = (@ \ HashRows(c)) \cup {[r EXCEPT !.sup = TRUE]}]
    /\ Goto(c, "owner")
    /\ UNCHANGED <<tables, job, attempt, prior, tally, answer, applied, receipts>>

\* Deletes the voter's rows and inserts the new one.
OldOwners(c) == {r \in owner : r.e = job[c].e /\ r.cert = job[c].v}

\* Mutant: the voter's earlier row stays.
run_add_owner(c) ==
    /\ pc[c] = "owner"
    /\ CanRead(c, "owner")
    /\ tx' = [tx EXCEPT ![c].owner = @ \cup {NewOwner(c)}]
    /\ Goto(c, "consume")
    /\ UNCHANGED <<tables, job, attempt, prior, tally, answer, applied, receipts>>

run_set_owner(c) ==
    /\ pc[c] = "owner"
    /\ CanRead(c, "owner") /\ CanDelete(c, OldOwners(c))
    /\ tx' = [tx EXCEPT ![c].left = @ \cup OldOwners(c), ![c].owner = @ \cup {NewOwner(c)}]
    /\ Goto(c, "consume")
    /\ UNCHANGED <<tables, job, attempt, prior, tally, answer, applied, receipts>>

\* Mutant: the nonce is not recorded.
run_nonce_forgotten(c) ==
    /\ pc[c] = "consume"
    /\ Goto(c, "commit")
    /\ UNCHANGED <<tables, locals, answer, applied, receipts>>

run_nonce_mark(c) ==
    /\ pc[c] = "consume"
    /\ CanRead(c, "nonce")
    /\ tx' = [tx EXCEPT ![c].nonce = @ \cup {<<job[c].e, job[c].n>>}]
    /\ Goto(c, "commit")
    /\ UNCHANGED <<tables, job, attempt, prior, tally, answer, applied, receipts>>

\* Mutant: the rows of ballot_owner are written outside the transaction.
InstallPart(c) ==
    /\ ballot' = BallotOf(c)
    /\ nonce' = NonceOf(c)
    /\ applied' = [applied EXCEPT ![c] = TRUE]
    /\ UNCHANGED <<election, owner>>

\* The store installs the transaction's writes.
Install(c) ==
    /\ ballot' = BallotOf(c)
    /\ owner' = OwnerOf(c)
    /\ nonce' = NonceOf(c)
    /\ applied' = [applied EXCEPT ![c] = TRUE]
    /\ UNCHANGED election

bb_db_commit(c) ==
    /\ pc[c] = "commit"
    /\ Install(c)
    /\ receipts' = receipts \cup
         {[e |-> job[c].e, cert |-> job[c].v, hash |-> bb_issue_receipt(c),
           ver |-> Version(c), opt |-> job[c].o]}
    /\ Return(c, Coded("OK"))

\* The commit took effect, but its reply was lost or came too late.
CommitReplyLost(c) ==
    /\ pc[c] = "commit"
    /\ Install(c)
    /\ Return(c, Coded("DB"))
    /\ UNCHANGED receipts

\* A statement fails (error, timeout, broken connection): rolled back.
RecordFails(c) ==
    /\ pc[c] \in RecordSteps \ {"begin"}
    /\ Return(c, Coded("DB"))
    /\ UNCHANGED <<tables, applied, receipts>>

\* Mutants: attempts not counted; a commit that took effect answered with retry.
RecordRetryForever(c) ==
    /\ pc[c] \in RecordSteps \ {"begin"}
    /\ Goto(c, "begin")
    /\ prior' = [prior EXCEPT ![c] = NoRow]
    /\ tx' = [tx EXCEPT ![c] = EmptyTx]
    /\ UNCHANGED <<tables, job, attempt, tally, answer, applied, receipts>>

RecordRetryApplied(c) ==
    /\ pc[c] = "commit"
    /\ attempt[c] + 1 < MaxAttempts
    /\ Install(c)
    /\ Goto(c, "begin")
    /\ attempt' = [attempt EXCEPT ![c] = @ + 1]
    /\ prior' = [prior EXCEPT ![c] = NoRow]
    /\ tx' = [tx EXCEPT ![c] = EmptyTx]
    /\ UNCHANGED <<job, tally, answer, receipts>>

\* The store aborts the transaction to break a deadlock: <<END retry>>.
RecordRetry(c) ==
    /\ pc[c] \in RecordSteps \ {"begin"}
    /\ IF attempt[c] + 1 < MaxAttempts
       THEN /\ Goto(c, "begin")
            /\ attempt' = [attempt EXCEPT ![c] = @ + 1]
            /\ prior' = [prior EXCEPT ![c] = NoRow]
            /\ tx' = [tx EXCEPT ![c] = EmptyTx]
            /\ UNCHANGED <<job, tally, answer>>
       ELSE Return(c, Coded("RETRY"))
    /\ UNCHANGED <<tables, applied, receipts>>

(***************************************************************************)
(* bb_transition_state (bb_publish_results included): GET_ELECTION and     *)
(* UPDATE_STATE are two transactions.  UPDATE_STATE deletes the row and    *)
(* inserts it with the new state, whatever the state is by then.           *)
(***************************************************************************)
transition_get(c) ==
    LET from == election[job[c].e]
    IN  /\ pc[c] = "get"
        /\ \/ /\ from = "NONE"
              /\ Return(c, Coded("NOT_FOUND"))
           \/ /\ from # "NONE" /\ ~bb_is_legal_transition(from, job[c].to)
              /\ Return(c, Coded("ILLEGAL_TRANSITION"))
           \/ /\ from # "NONE" /\ bb_is_legal_transition(from, job[c].to)
              /\ Goto(c, "update")
              /\ UNCHANGED <<locals, answer>>
        /\ UNCHANGED <<tables, applied, receipts>>

SetState(c) ==
    /\ ~ElectionHeld(c)
    /\ election' = [election EXCEPT ![job[c].e] = job[c].to]
    /\ applied' = [applied EXCEPT ![c] = TRUE]
    /\ UNCHANGED <<ballot, owner, nonce>>

\* The reply to the commit may be lost after the state was stored.
run_update_state(c) ==
    /\ pc[c] = "update"
    /\ SetState(c)
    /\ \E code \in {"OK", "DB"} : Return(c, Coded(code))
    /\ UNCHANGED receipts

(***************************************************************************)
(* The reading handlers: bb_join, bb_get_results[_admin], bb_lookup_hash.  *)
(***************************************************************************)
join_load(c) ==
    /\ pc[c] = "jload"
    /\ IF join_gate(job[c]) = "OK"
       THEN Goto(c, "jprior") /\ UNCHANGED <<locals, answer>>
       ELSE Return(c, Coded(join_gate(job[c])))
    /\ UNCHANGED <<tables, applied, receipts>>

join_prior(c) ==
    /\ pc[c] = "jprior"
    /\ CanRead(c, "owner")
    /\ Return(c, Coded("OK"))
    /\ UNCHANGED <<tables, applied, receipts>>

results_load(c) ==
    /\ pc[c] = "rload"
    /\ IF results_gate(job[c]) = "OK"
       THEN Goto(c, "rtally") /\ UNCHANGED <<locals, answer>>
       ELSE Return(c, Coded(results_gate(job[c])))
    /\ UNCHANGED <<tables, applied, receipts>>

fetch_tally(c) ==
    /\ pc[c] = "rtally"
    /\ CanRead(c, "ballot")
    /\ tally' = [tally EXCEPT ![c] = run_get_tally(job[c].e)]
    /\ Goto(c, "rhashes")
    /\ UNCHANGED <<tables, job, attempt, prior, tx, answer, applied, receipts>>

fetch_hashes(c) ==
    /\ pc[c] = "rhashes"
    /\ CanRead(c, "ballot")
    /\ \E rows \in run_get_hashes(job[c].e) :
         Return(c, [code |-> "OK", e |-> job[c].e, tally |-> tally[c],
                    hashes |-> rows])
    /\ UNCHANGED <<tables, applied, receipts>>

lookup_load(c) ==
    /\ pc[c] = "lload"
    /\ IF election[job[c].e] = "NONE"
       THEN Return(c, Coded("NOT_FOUND"))
       ELSE Goto(c, "lfind") /\ UNCHANGED <<locals, answer>>
    /\ UNCHANGED <<tables, applied, receipts>>

run_find_hash(c) ==
    /\ pc[c] = "lfind"
    /\ CanRead(c, "ballot")
    /\ Return(c, Coded(IF \E b \in Live(job[c].e) : b.hash = job[c].h
                       THEN "OK" ELSE "NOT_FOUND"))
    /\ UNCHANGED <<tables, applied, receipts>>

\* db_exec outside a transaction: after an error, or a third <<END retry>>,
\* it reports BB_ERR_DB and the handler returns it.
OneShotFails(c) ==
    /\ pc[c] \in Steps \ RecordSteps
    /\ Return(c, Coded("DB"))
    /\ UNCHANGED <<tables, applied, receipts>>

----------------------------------------------------------------------------
\* The process dies and is restarted.  The store rolls back what its broken
\* connection left open; a commit already sent may still take effect.
Crash(c) ==
    /\ pc[c] # "idle"
    /\ Forget(c)
    /\ answer' = [answer EXCEPT ![c] = NoAnswer]
    /\ UNCHANGED receipts
    /\ \/ UNCHANGED <<tables, applied>>
       \/ pc[c] = "commit" /\ Install(c)
       \/ pc[c] = "update" /\ SetState(c)

Record(c) ==
    \/ bb_db_begin(c) \/ BeginFails(c) \/ record_load(c)
    \/ record_nonce_seen(c) \/ record_prior(c) \/ run_append_ballot(c)
    \/ run_mark_superseded(c) \/ run_set_owner(c) \/ run_nonce_mark(c)
    \/ bb_db_commit(c) \/ CommitReplyLost(c) \/ RecordFails(c) \/ RecordRetry(c)

Read(c) ==
    \/ join_load(c) \/ join_prior(c) \/ results_load(c) \/ fetch_tally(c)
    \/ fetch_hashes(c) \/ lookup_load(c) \/ run_find_hash(c)

Step(c) ==
    \/ Record(c) \/ transition_get(c) \/ run_update_state(c) \/ Read(c)
    \/ OneShotFails(c)

Next ==
    \/ \E c \in Ctxs : \E j \in Requests[c] : Start(c, j)
    \/ \E c \in Ctxs : Step(c) \/ Crash(c)

Spec == Init /\ [][Next]_vars

\* Every statement is answered, or its connection times out.
FairSpec == Spec /\ \A c \in Ctxs : WF_vars(Step(c))
============================================================================
