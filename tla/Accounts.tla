------------------------------ MODULE Accounts ------------------------------
(* The login gate of a session worker and the accounts behind it: the       *)
(* retry loop of libtetrisauth, registration under a named semaphore, and   *)
(* the statements both run on their own connection to the shared database.  *)
(*                                                                          *)
(* Every worker process (ballot_session) serves one client.  A connection   *)
(* has a server session of its own that goes on with a statement after the  *)
(* client has given up on it, and rolls back once it finds the connection   *)
(* closed.  The user table is a sequence of pages; locks are per page, so a *)
(* scan does not cover a page that is appended later.  A row carries the    *)
(* connection that inserted it until its transaction commits.               *)
EXTENDS Integers, Sequences, FiniteSets, FiniteSetsExt

CONSTANTS
  Workers,
  Asks,          \* what a client may send: [method, user, pass] records
  None,
  Earlier,       \* the row of an account registered before
  Slots,         \* rows that fit a page
  DefaultTries,  \* AUTH_DEFAULT_MAX_ATTEMPTS
  ConfTries,     \* auth_max_attempts in the rc file
  Attempts,      \* TXN_ATTEMPTS
  MaxConns,      \* bound: connections ever opened
  MaxAsks,       \* bound: requests ever sent
  MaxFaults      \* bound: kills, timeouts, refused statements

VARIABLES
  worker,        \* each worker's place, request and counters
  sem,           \* the value of /tetrish_register
  conn,          \* server sessions by connection number
  pages,         \* the user table
  opened,        \* connections opened so far
  asked,         \* requests sent so far
  tokens,        \* claims of every token handed out
  faults

vars == <<worker, sem, conn, pages, opened, asked, tokens, faults>>
db == <<conn, pages>>

Conns == 1..MaxConns
Fresh == [at |-> "gate", ask |-> None, tries |-> 0, frozen |-> FALSE,
          turn |-> FALSE, attempt |-> 0, c |-> None, next |-> None, status |-> None, name |-> None]
NoSession == [open |-> FALSE, stmt |-> None, pos |-> 1, seen |-> {}, answer |-> None,
              txn |-> FALSE, rd |-> {}, wr |-> {}]

Init ==
  /\ worker = [w \in Workers |-> Fresh] /\ sem = 1
  /\ conn = [c \in Conns |-> NoSession] /\ pages \in {<< {} >>, << {Earlier} >>}
  /\ opened = 0 /\ asked = 0 /\ tokens = {} /\ faults = 0

Fault == faults < MaxFaults /\ faults' = faults + 1
Go(w, state) == worker' = [worker EXCEPT ![w] = state]
\* The worker is through the gate, or gone; a turn it holds stays taken.
Leave(w, at, name) == Go(w, [Fresh EXCEPT !.at = at, !.name = name, !.turn = worker[w].turn])
Rows == UNION {pages[p] : p \in DOMAIN pages}
Committed == {r \in Rows : r.by = None}

-----------------------------------------------------------------------------
(* The server's side of a connection *)

Held(c) == conn[c].rd \cup conn[c].wr
\* A shared lock on page p is free for c; so is an exclusive one.
Readable(c, p) == \A d \in Conns \ {c} : p \notin conn[d].wr
Writable(c, p) == \A d \in Conns \ {c} : p \notin Held(d)

Says(st, rows) == [st |-> st, rows |-> rows]

\* The statement ends with this answer; outside a transaction it was one.
Ended(c, answer, txn) ==
  [open |-> conn[c].open, stmt |-> None, pos |-> 1, seen |-> {},
   answer |-> IF conn[c].open THEN answer ELSE None, txn |-> txn,
   rd |-> IF txn THEN conn[c].rd ELSE {}, wr |-> IF txn THEN conn[c].wr ELSE {}]

Undo(c) == pages' = [p \in DOMAIN pages |-> {r \in pages[p] : r.by # c}]
Kept(r, c) == [r EXCEPT !.by = IF @ = c THEN None ELSE @]
Keep(c) == pages' = [p \in DOMAIN pages |-> {Kept(r, c) : r \in pages[p]}]

SetTransaction(c) ==
  /\ conn[c].stmt # None /\ conn[c].stmt.op = "begin"
  /\ conn' = [conn EXCEPT ![c] = Ended(c, Says(IF conn[c].txn THEN "error" ELSE "ok", {}), TRUE)]
  /\ UNCHANGED pages

EndTransaction(c) ==
  /\ conn[c].stmt # None /\ conn[c].stmt.op \in {"commit", "rollback"}
  /\ conn' = [conn EXCEPT ![c] = Ended(c, Says(IF conn[c].txn THEN "ok" ELSE "error", {}), FALSE)]
  /\ IF conn[c].txn /\ conn[c].stmt.op = "commit" THEN Keep(c)
     ELSE IF conn[c].txn THEN Undo(c) ELSE UNCHANGED pages

\* A select locks and reads page after page, as many as the file has by then.
Scan(c) ==
  /\ conn[c].stmt # None /\ conn[c].stmt.op = "select"
  /\ LET p == conn[c].pos IN
     IF p \in DOMAIN pages
     THEN /\ Readable(c, p)
          /\ conn' = [conn EXCEPT ![c] = [conn[c] EXCEPT !.rd = @ \cup {p}, !.pos = p + 1,
                                                          !.seen = @ \cup pages[p]]]
     ELSE conn' = [conn EXCEPT ![c] = Ended(c, Says("ok", conn[c].seen), conn[c].txn)]
  /\ UNCHANGED pages

\* An insert passes the full pages, then takes the first one with a free slot
\* or appends one.  The lock on a full page is only kept if the scan had it.
insertTuple(c) ==
  /\ conn[c].stmt # None /\ conn[c].stmt.op = "insert"
  /\ LET p == conn[c].pos
         row == [conn[c].stmt.row EXCEPT !.by = IF conn[c].txn THEN c ELSE None]
     IN IF p \in DOMAIN pages /\ Cardinality(pages[p]) = Slots
        THEN /\ Readable(c, p)
             /\ conn' = [conn EXCEPT ![c].pos = p + 1] /\ UNCHANGED pages
        ELSE /\ p \in DOMAIN pages => Writable(c, p)
             /\ pages' = IF p \in DOMAIN pages THEN [pages EXCEPT ![p] = @ \cup {row}]
                                                ELSE Append(pages, {row})
             /\ conn' = [conn EXCEPT ![c] = [Ended(c, Says("ok", {}), conn[c].txn) EXCEPT !.wr = @ \cup {p}]]

\* The page the statement of c has come to, if a lock of d is in its way.
WaitsFor(c, d) ==
  /\ c # d /\ conn[c].stmt # None /\ conn[c].stmt.op \in {"select", "insert"}
  /\ LET p == conn[c].pos IN
     /\ p \in DOMAIN pages
     /\ IF conn[c].stmt.op = "select" \/ Cardinality(pages[p]) = Slots THEN p \in conn[d].wr
        ELSE p \in Held(d)

Aborted(c, st) == Undo(c) /\ conn' = [conn EXCEPT ![c] = Ended(c, Says(st, {}), FALSE)]

\* The transaction is aborted to break a deadlock.
Victim(c) == (\E d \in Conns : WaitsFor(c, d) /\ WaitsFor(d, c)) /\ Aborted(c, "retry")

\* The statement fails; whatever transaction it was part of is aborted.
Refused(c) ==
  /\ Fault /\ conn[c].stmt # None /\ conn[c].stmt.op \in {"select", "insert"}
  /\ Aborted(c, "error")
  /\ UNCHANGED <<worker, sem, opened, asked, tokens>>

\* The session reads the end of its connection and is closed.
serveEnds(c) ==
  /\ ~conn[c].open /\ conn[c].stmt = None /\ conn[c] # NoSession
  /\ Undo(c) /\ conn' = [conn EXCEPT ![c] = NoSession]

Serve(c) ==
  /\ SetTransaction(c) \/ EndTransaction(c) \/ Scan(c) \/ insertTuple(c) \/ Victim(c) \/ serveEnds(c)
  /\ UNCHANGED <<worker, sem, opened, asked, tokens, faults>>

-----------------------------------------------------------------------------
(* The worker's side *)

\* Names with a character outside the rule are refused; case is folded.
user_name_ok(user) == user \in {"Ann", "ann", "bob"}
user_name_fold(user) == IF ~user_name_ok(user) THEN None ELSE IF user = "Ann" THEN "ann" ELSE user

\* A password of 8 to 128 bytes.
PassOk(pass) == pass # "short"

\* PBKDF2 under a salt; different passwords or salts give different digests.
password_hash(pass, salt) == <<pass, salt>>

\* The random salt of a registration, one per worker.
gen_new_salt(w) == w

\* How many tries the exchange has: the default until a LOGIN or REGISTER
\* loads the configuration.
max_attempts(w) == IF worker[w].frozen THEN ConfTries ELSE DefaultTries

handle_guest_and_invalid_method(method) ==
  CASE method = "GUEST" -> 200
    [] method \in {"LOGIN", "REGISTER"} -> 0
    [] OTHER -> 401

\* The body is a name, a line feed and a password, neither of them empty.
req_body_split(ask) == ask.user # "" /\ ask.pass # ""

auth_session_parser(ask) ==
  IF ask.method = "broken" THEN 400
  ELSE LET status == handle_guest_and_invalid_method(ask.method) IN
       IF status = 0 /\ ~req_body_split(ask) THEN 400 ELSE status

\* What a request is answered before any account is looked at.
Screened(ask) ==
  IF auth_session_parser(ask) # 0 THEN auth_session_parser(ask)
  ELSE IF ~user_name_ok(ask.user) \/ (ask.method = "REGISTER" /\ ~PassOk(ask.pass)) THEN 400 ELSE 0

\* A request arrives; auth_handler runs up to the account operation.
auth_handler(w) ==
  /\ worker[w].at = "gate" /\ asked < MaxAsks /\ worker[w].tries < max_attempts(w)
  /\ \E ask \in Asks :
       LET status == Screened(ask)
           mine == [worker[w] EXCEPT !.ask = ask,
                                     !.frozen = @ \/ ask.method \in {"LOGIN", "REGISTER"}]
       IN IF status # 0
          THEN Go(w, [mine EXCEPT !.at = "answer", !.status = status,
                                  !.name = IF status = 200 THEN "" ELSE None])
          ELSE Go(w, [mine EXCEPT !.at = IF ask.method = "LOGIN" THEN "open" ELSE "turn",
                                  !.attempt = 0])
  /\ asked' = asked + 1
  /\ UNCHANGED <<sem, db, opened, tokens, faults>>

\* The client hangs up, or the stream is past saving.
Hangup(w) ==
  /\ worker[w].at = "gate" /\ Leave(w, "dropped", None)
  /\ UNCHANGED <<sem, db, opened, asked, tokens, faults>>

\* sem_trywait succeeds, or the wait is given up after REG_WAIT_MS.
reg_acquire(w) ==
  /\ worker[w].at = "turn"
  /\ \/ sem = 1 /\ sem' = 0 /\ Go(w, [worker[w] EXCEPT !.at = "open", !.turn = TRUE])
     \/ sem = 0 /\ Go(w, [worker[w] EXCEPT !.at = "answer", !.status = 500]) /\ UNCHANGED sem
  /\ UNCHANGED <<db, opened, asked, tokens, faults>>

\* Mutant: the early exits skip the release.
reg_releaseForgets(w, status) == IF worker[w].turn /\ status = 200 THEN sem' = 1 ELSE UNCHANGED sem

reg_release(w, status) == IF worker[w].turn THEN sem' = 1 ELSE UNCHANGED sem

\* The connection is closed, the turn handed on, the status answered.
Done(w, status, name, id) ==
  /\ Go(w, [worker[w] EXCEPT !.at = "answer", !.status = status, !.turn = FALSE, !.attempt = 0,
                             !.c = None, !.name = name, !.next = id])
  /\ reg_release(w, status)
Failed(w, status) == Done(w, status, None, None)

Closed(c) == [conn EXCEPT ![c] = [conn[c] EXCEPT !.open = FALSE, !.answer = None]]

\* The greeting of a session, or no connection within the deadline.
conn_open(w) ==
  /\ worker[w].at = "open"
  /\ \/ /\ opened < MaxConns /\ opened' = opened + 1
        /\ conn' = [conn EXCEPT ![opened + 1] = [NoSession EXCEPT !.open = TRUE]]
        /\ Go(w, [worker[w] EXCEPT !.at = IF worker[w].ask.method = "LOGIN" THEN "find" ELSE "begin",
                                   !.c = opened + 1])
        /\ UNCHANGED <<sem, faults>>
     \/ Fault /\ Failed(w, 500) /\ UNCHANGED <<conn, opened>>
  /\ UNCHANGED <<pages, asked, tokens>>

Statement(w) ==
  LET at == worker[w].at
      ask == worker[w].ask
  IN [op |-> IF at \in {"maxid", "find"} THEN "select" ELSE at,
      row |-> IF at = "insert"
              THEN [id |-> worker[w].next, name |-> user_name_fold(ask.user), salt |-> gen_new_salt(w),
                    digest |-> password_hash(ask.pass, gen_new_salt(w)), by |-> None] ELSE None]

\* db_socket_exec writes the statement.
Send(w) ==
  /\ worker[w].at \in {"begin", "maxid", "find", "insert", "commit", "rollback"}
  /\ LET c == worker[w].c IN
     /\ conn[c].stmt = None /\ conn[c].answer = None
     /\ conn' = [conn EXCEPT ![c] = [conn[c] EXCEPT !.stmt = Statement(w)]]
  /\ UNCHANGED <<worker, sem, pages, opened, asked, tokens, faults>>

\* The deadline of the connection passes, or the connection breaks, before
\* the answer is read.
Timeout(w) ==
  /\ Fault /\ worker[w].c # None /\ conn[worker[w].c].answer = None
  /\ conn' = Closed(worker[w].c)
  /\ Failed(w, IF worker[w].at = "rollback" THEN 409 ELSE 500)
  /\ UNCHANGED <<pages, opened, asked, tokens>>

\* Mutant: the largest id is handed out again.
db_next_idLast(rows) == IF rows = {} THEN 1 ELSE Max({r.id : r \in rows})

db_next_id(rows) == IF rows = {} THEN 1 ELSE Max({r.id : r \in rows}) + 1

Named(w, rows) == {r \in rows : r.name = user_name_fold(worker[w].ask.user)}

\* Mutant: any row of that name will do.
parse_login_db_resultAny(w, rows) == IF Named(w, rows) = {} THEN 404 ELSE 200

\* The first row decides; its digest must match.
parse_login_db_result(w, rows) ==
  IF Named(w, rows) = {} THEN 404
  ELSE LET row == CHOOSE r \in Named(w, rows) : TRUE IN
       IF password_hash(worker[w].ask.pass, row.salt) = row.digest THEN 200 ELSE 401

\* account_login reads the answer; one retry.
LoginAnswer(w, answer) ==
  IF answer.st = "retry" /\ worker[w].attempt = 0
  THEN Go(w, [worker[w] EXCEPT !.attempt = 1]) /\ UNCHANGED sem
  ELSE IF answer.st # "ok" THEN Failed(w, 500)
  ELSE LET status == parse_login_db_result(w, answer.rows) IN
       IF status # 200 THEN Failed(w, status)
       ELSE Done(w, 200, user_name_fold(worker[w].ask.user), (CHOOSE r \in Named(w, answer.rows) : TRUE).id)

taken(w, rows) == Named(w, rows) # {}

\* On to the statement after this one.
Following(w, rows) ==
  CASE worker[w].at = "begin" -> [worker[w] EXCEPT !.at = "maxid"]
    [] worker[w].at = "maxid" -> [worker[w] EXCEPT !.at = "find", !.next = db_next_id(rows)]
    [] worker[w].at = "find" -> [worker[w] EXCEPT !.at = IF taken(w, rows) THEN "rollback" ELSE "insert"]
    [] worker[w].at = "insert" -> [worker[w] EXCEPT !.at = "commit"]

\* register_txn reads the answer of its current statement; account_register
\* tries again after a deadlock.
RegisterAnswer(w, answer) ==
  IF worker[w].at = "rollback" THEN Failed(w, 409)
  ELSE IF answer.st = "retry" /\ worker[w].attempt + 1 < Attempts
  THEN Go(w, [worker[w] EXCEPT !.at = "begin", !.attempt = @ + 1, !.next = None]) /\ UNCHANGED sem
  ELSE IF answer.st # "ok" THEN Failed(w, 500)
  ELSE IF worker[w].at = "commit"
  THEN Done(w, 200, user_name_fold(worker[w].ask.user), worker[w].next)
  ELSE Go(w, Following(w, answer.rows)) /\ UNCHANGED sem

Answered(w) ==
  /\ worker[w].c # None /\ conn[worker[w].c].answer # None
  /\ LET answer == conn[worker[w].c].answer IN
     IF worker[w].ask.method = "LOGIN" THEN LoginAnswer(w, answer) ELSE RegisterAnswer(w, answer)
  /\ conn' = IF worker'[w].c = None THEN Closed(worker[w].c)
             ELSE [conn EXCEPT ![worker[w].c] = [conn[worker[w].c] EXCEPT !.answer = None]]
  /\ UNCHANGED <<pages, opened, asked, tokens, faults>>

claims(w) == [sub |-> worker[w].next, name |-> worker[w].name]

\* token_handler: the secret is read and a token minted, or neither.
token_handler(w) ==
  \/ /\ tokens' = tokens \cup {claims(w)}
     /\ Leave(w, "in", worker[w].name) /\ UNCHANGED faults
  \/ /\ Fault
     /\ Go(w, [worker[w] EXCEPT !.at = "gate", !.tries = @ + 1, !.next = None, !.name = None,
                                !.status = None, !.ask = None])
     /\ UNCHANGED tokens

spends(status) == IF status = 400 THEN 0 ELSE 1

\* The status is sent to the client and the loop goes on or ends.
auth_retry_handler(w) ==
  /\ worker[w].at = "answer"
  /\ IF worker[w].status = 200 /\ worker[w].name # "" THEN token_handler(w)
     ELSE IF worker[w].status = 200 THEN Leave(w, "in", "") /\ UNCHANGED <<tokens, faults>>
     ELSE /\ Go(w, [worker[w] EXCEPT !.at = "gate", !.tries = @ + spends(worker[w].status),
                                     !.status = None, !.ask = None])
          /\ UNCHANGED <<tokens, faults>>
  /\ UNCHANGED <<sem, db, opened, asked>>

\* The tries are used up.
Dropped(w) ==
  /\ worker[w].at = "gate" /\ worker[w].tries >= max_attempts(w)
  /\ Leave(w, "dropped", None)
  /\ UNCHANGED <<sem, db, opened, asked, tokens, faults>>

\* ballotd stops its workers without waiting for what they are doing.
Kill(w) ==
  /\ Fault /\ worker[w].at \notin {"dropped", "in", "killed"}
  /\ Leave(w, "killed", None)
  /\ conn' = IF worker[w].c = None THEN conn ELSE Closed(worker[w].c)
  /\ UNCHANGED <<sem, pages, opened, asked, tokens>>

Next ==
  \/ \E w \in Workers :
       auth_handler(w) \/ Hangup(w) \/ reg_acquire(w) \/ conn_open(w) \/ Send(w) \/ Timeout(w)
       \/ Answered(w) \/ auth_retry_handler(w) \/ Dropped(w) \/ Kill(w)
  \/ \E c \in Conns : Serve(c) \/ Refused(c)

Fairness ==
  /\ \A w \in Workers : WF_vars(reg_acquire(w) \/ conn_open(w) \/ Send(w) \/ Answered(w) \/ auth_retry_handler(w))
  /\ \A c \in Conns : WF_vars(Serve(c))
Spec == Init /\ [][Next]_vars /\ Fairness
=============================================================================
