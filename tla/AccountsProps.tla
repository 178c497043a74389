--------------------------- MODULE AccountsProps ---------------------------
(* What registration and login promise.                                     *)
EXTENDS Accounts

Names == {None, "", "ann", "bob", Earlier.name}
Salts == Workers \cup {Earlier.salt}
Digests == {password_hash(a.pass, w) : a \in Asks, w \in Workers} \cup {Earlier.digest}
RowSet == [id : Int, name : Names, salt : Salts, digest : Digests, by : Conns \cup {None}]
Answers == [st : {"ok", "retry", "error"}, rows : SUBSET RowSet]
Statements == [op : {"begin", "select", "insert", "commit", "rollback"}, row : RowSet \cup {None}]

\* None is no number and no record, and the account of before is committed.
ASSUME AccountsAssumption ==
  /\ MaxConns \in Nat /\ DefaultTries \in Nat /\ ConfTries \in Nat
  /\ None \notin Nat /\ None \notin Asks /\ None \notin Answers /\ None \notin Statements
  /\ Earlier \in RowSet /\ Earlier.by = None

\* No two accounts share an id or a name, whatever times out, is killed or
\* commits after its client gave up (account_register, register_txn), and the
\* subject of a token and its name stand for one account in every token ever
\* handed out (token_handler).
UniqueAccounts ==
  /\ \A r, s \in Committed : r.id = s.id \/ r.name = s.name => r = s
  /\ \A t, u \in tokens : t.sub = u.sub <=> t.name = u.name

\* The accounts of the name that the client of w gave.
AccountsOf(w) == {r \in Committed : r.name = user_name_fold(worker[w].ask.user)}

\* The account has the password that the client of w gave.
Matches(w, r) == r.digest = password_hash(worker[w].ask.pass, r.salt)

\* What the store has to say for the answer that w sends.
Backed(w) ==
  /\ worker[w].status = 200 /\ worker[w].name # "" =>
       \E r \in AccountsOf(w) : r.id = worker[w].next /\ Matches(w, r)
  /\ worker[w].status = 409 => AccountsOf(w) # {}
  /\ worker[w].status = 401 /\ worker[w].ask.method = "LOGIN" =>
       \E r \in AccountsOf(w) : ~Matches(w, r)

\* A 200 is only said of an account that is in the table for good, with that
\* id and password; a 409 only of a name that is taken; a 401 to a LOGIN only
\* when the account has another password (account_login, account_register).
AnswerTrue == \A w \in Workers : worker[w].at = "answer" => Backed(w)

\* A turn that was taken is given back, on every path through the transaction and
\* its retries, timeouts and refusals; only a worker killed inside keeps it, and
\* then for good, because nothing in the system raises the semaphore again
\* (account_register, reg_acquire, reg_release).
TurnComesBack ==
  sem = 0 ~> \/ sem = 1
             \/ \E w \in Workers : worker[w].at = "killed" /\ worker[w].turn

\* A worker that has taken a request sends an answer unless it is killed: no
\* wait for a turn, a lock or a session lasts for ever (account_register).
EveryRequestAnswered ==
  \A w \in Workers :
    worker[w].at \in {"turn", "open", "begin", "maxid", "find", "insert", "commit", "rollback"}
      ~> worker[w].at \in {"answer", "killed"}

-----------------------------------------------------------------------------
(* The inductive invariant: what the promises above rest on. *)

\* The semaphore is taken exactly when a worker, running or killed inside, has it.
TurnAccounted ==
  /\ sem = IF \E w \in Workers : worker[w].turn THEN 0 ELSE 1
  /\ \A v, w \in Workers : worker[v].turn /\ worker[w].turn => v = w

Talking == {"begin", "maxid", "find", "insert", "commit", "rollback"}
Statuses == {None, 200, 400, 401, 404, 409, 500}
WorkerStates ==
  [at : Talking \cup {"gate", "turn", "open", "answer", "in", "dropped", "killed"},
   ask : Asks \cup {None}, tries : Nat, frozen : BOOLEAN, turn : BOOLEAN, attempt : Nat,
   c : Conns \cup {None}, next : Int \cup {None}, status : Statuses, name : Names]
Sessions ==
  [open : BOOLEAN, stmt : Statements \cup {None}, pos : Nat \ {0}, seen : SUBSET RowSet,
   answer : Answers \cup {None}, txn : BOOLEAN, rd : SUBSET Nat, wr : SUBSET Nat]

AccountsTypeOK ==
  /\ worker \in [Workers -> WorkerStates] /\ sem \in {0, 1}
  /\ conn \in [Conns -> Sessions] /\ pages \in Seq(SUBSET RowSet)
  /\ opened \in 0..MaxConns

\* Who registers has the turn; a worker at the gate, in wait for the turn or about to answer has not.
TurnHolds ==
  /\ TurnAccounted
  /\ \A w \in Workers : worker[w].at \in {"gate", "turn", "answer"} => ~worker[w].turn
  /\ \A w \in Workers :
       worker[w].at \in Talking \cup {"open"} /\ worker[w].ask.method # "LOGIN" => worker[w].turn
  /\ \A w \in Workers : worker[w].at \in Talking \ {"find"} => worker[w].ask.method # "LOGIN"
  /\ \A w \in Workers : worker[w].at \in Talking \cup {"open", "turn"} => worker[w].ask \in Asks

\* An open session is one worker's own, and runs the statement this worker sent.
OwnersHold ==
  /\ \A w \in Workers : worker[w].c # None <=> worker[w].at \in Talking
  /\ \A w \in Workers : worker[w].c # None => worker[w].c \in 1..opened /\ conn[worker[w].c].open
  /\ \A v, w \in Workers : worker[w].c # None /\ worker[v].c = worker[w].c => v = w
  /\ \A c \in Conns : conn[c].open => \E w \in Workers : worker[w].c = c
  /\ \A c \in Conns : c > opened => conn[c] = NoSession
  /\ \A w \in Workers : worker[w].c # None /\ conn[worker[w].c].stmt # None =>
       conn[worker[w].c].stmt = Statement(w)

\* A page written by one session is locked by no other, and holds no row of another.
LocksHold ==
  /\ \A c, d \in Conns : c # d => conn[c].wr \cap Held(d) = {}
  /\ \A p \in DOMAIN pages : \A r \in pages[p] :
       r.by # None => conn[r.by].txn /\ p \in conn[r.by].wr

\* The rows are none, or one has the largest id.
Topped(rows) == rows = {} \/ \E m \in rows : \A r \in rows : m.id >= r.id
Settled(rows) == rows \subseteq Committed /\ Topped(rows)

\* A session reads committed rows only, and all rows of the pages it has passed.
SessionHolds(c) ==
  /\ Held(c) \subseteq DOMAIN pages /\ conn[c].pos <= Len(pages) + 1
  /\ conn[c].answer # None => conn[c].stmt = None /\ conn[c].open
  /\ conn[c].stmt = None => conn[c].pos = 1 /\ conn[c].seen = {}
  /\ conn[c].stmt # None /\ conn[c].stmt.op \in {"select", "insert"} => \A r \in Rows : r.by # c
  /\ conn[c].stmt # None /\ conn[c].stmt.op = "insert" => conn[c].txn /\ conn[c].stmt.row \in RowSet
  /\ conn[c].stmt # None /\ conn[c].stmt.op = "select" =>
       \A p \in 1..conn[c].pos - 1 : p \in conn[c].rd /\ pages[p] \subseteq conn[c].seen
  /\ Settled(conn[c].seen)
  /\ conn[c].answer # None => Settled(conn[c].answer.rows)

\* A transaction has one row at most, and the committed rows of a page have a largest id.
RowsHold ==
  /\ \A r, s \in Rows : r.by # None /\ s.by = r.by => r = s
  /\ \A p \in DOMAIN pages : Topped({r \in pages[p] : r.by = None})

\* The rows that are committed or may be: a session that nobody listens to commits
\* only what it was told to commit before.
Live == {r \in Rows : \/ r.by = None
                      \/ conn[r.by].open
                      \/ conn[r.by].stmt # None /\ conn[r.by].stmt.op = "commit"}
LiveUnique == \A r, s \in Live : r.id = s.id \/ r.name = s.name => r = s

Said(w) == conn[worker[w].c].answer
Fine(w) == Said(w) # None /\ Said(w).st = "ok"
Folded(w) == user_name_fold(worker[w].ask.user)
IsOf(w, r) ==
  r.id = worker[w].next /\ r.name = Folded(w) /\ Matches(w, r)
Inserted(w) == worker[w].at = "insert" /\ Fine(w)
Commits(w) == worker[w].at = "commit" /\ Said(w) = None

\* What a worker knows of the table at each statement of its transaction.
Registers(w) ==
  /\ worker[w].at \in {"maxid", "find", "insert", "commit"} /\ Said(w) = None => conn[worker[w].c].txn
  /\ worker[w].at \in {"begin", "maxid", "find", "insert"} /\ Fine(w) => conn[worker[w].c].txn
  /\ worker[w].at \in {"maxid", "find"} /\ Fine(w) => Live \subseteq Said(w).rows
  /\ worker[w].at \in {"find", "insert"} => worker[w].next \in Int
  /\ worker[w].at \in {"find", "insert"} /\ ~Inserted(w) => \A r \in Live : r.id < worker[w].next
  /\ worker[w].at = "insert" /\ ~Inserted(w) => \A r \in Live : r.name # Folded(w)
RegHolds(w) ==
  /\ worker[w].ask.method # "LOGIN" => Registers(w)
  /\ \A r \in Rows : r.by = worker[w].c => IsOf(w, r) /\ (Inserted(w) \/ Commits(w))
  /\ Inserted(w) \/ Commits(w) => \E r \in Rows : r.by = worker[w].c
  /\ worker[w].at = "commit" /\ Fine(w) => \E r \in Committed : IsOf(w, r)
  /\ worker[w].at = "rollback" => \E r \in Committed : r.name = Folded(w)

\* What an answer says is so; a token is for an account.
AnswerHolds(w) ==
  worker[w].at = "answer" =>
    Backed(w) /\ (worker[w].status = 200 => worker[w].name \in {"", Folded(w)})
TokensHold == \A t \in tokens : \E r \in Committed : r.id = t.sub /\ r.name = t.name

IInv ==
  /\ AccountsTypeOK /\ TurnHolds /\ OwnersHold /\ LocksHold /\ RowsHold /\ LiveUnique /\ TokensHold
  /\ \A c \in Conns : SessionHolds(c)
  /\ \A w \in Workers : AnswerHolds(w) /\ (worker[w].c # None => RegHolds(w))
=============================================================================
