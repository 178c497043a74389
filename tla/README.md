# BallotBox: TLA+ models and proofs

BallotBox runs elections: an administrator creates, opens, closes and publishes
an election; eligible voters cast and update ballots and receive a receipt hash;
anyone holding a receipt can look it up.  This directory models the parts of the
repository that can be model-checked, checks them with TLC on small instances and
proves the central results with TLAPS for every value of the constants.

## 1. The system

| Part | Code | State | Who runs it |
|---|---|---|---|
| `libballotbrain` | `src/libballotbrain` | the election, ballot, ballot_owner and nonce tables; one `bb_ctx` per process | `ballotd`'s `admin_thread`, one request at a time |
| `ballotd` | `src/ballotd` | worker table, notify pipes, control socket | listener thread, ctl thread, admin thread, one worker process per voter |
| clients | `src/libballotclient`, `ballotu`, `ballotctl` | connection, joined election, receipt | the voter's or administrator's terminal |
| SimpleDB | `db/src/java/simpledb` | pages, locks, log | one JVM, one thread per connection |
| `libtetrisdb`, `tetrisdb` | `src/libtetrisdb`, `src/tetrisdb` | connections, pipe queue, lock and pid file | linked into each daemon; a supervisor |
| `libtetrisauth` | `src/libtetrisauth` | accounts, tokens, a named semaphore | each session worker |
| `libtetrissh`, `libhtttp`, codec | `src/libtetrissh`, `src/libhtttp` | channel keys, frames | each end of a connection |
| `tetrislogd` | `src/tetrislogd` | log file, database mirror | its own process |
| `tetrish`, utilities | `src/tetrish`, `src/libtetrisutil`, `src/libtetrisui` | none shared | interactive |

A voter's request travels client -> worker process -> `admin_thread` ->
`ballotd_dispatch` -> one `bb_*` handler -> one or more `db_exec` calls, each a
statement or a few on a connection to SimpleDB.  `bb_record_ballot` puts all its
calls into one transaction; every other handler lets each call be its own.

## 2. Modules

| Module | What it is |
|---|---|
| `BallotBrain` | `libballotbrain` on an existing election: one action per `db_exec` call of each handler |
| `BallotLedger` | what the library promises: votes, casts, spent nonces and the lifecycle, each changed in one step |
| `BallotBrain_proofs`, `BallotBrain_refines` | its theorems: the tables and the answers at any moment; the refinement of `BallotLedger` and what receipts and results are worth later |
| `Elections` | creation of elections: `bb_create_election`, `bb_alloc_id`, the create screen of `ballotctl` |
| `Ballotd`, `Ballotd_proofs` | the daemon's four threads, its worker processes, their pipes and descriptors, and the shutdown; its theorems |
| `BallotU` | the voter's client: connection, screens, session record, receipts |
| `Terminals_proofs` | the theorems about `Elections` and `BallotU` |
| `Htttp`, `Codec`, `Text`, `Wire` | the texts: HTTTP frames, request and answer bodies, database answers, SQL literals and tokens; `Wire` writes one and reads it |
| `Session` | `libtetrissh`: handshake and frames over a stream that may be cut or damaged |
| `Accounts`, `Accounts_proofs` | `libtetrisauth`: the login gate, registration under a named semaphore, statements on a shared table; its theorems |
| `LockManager`, `LockManager_proofs` | SimpleDB's page locks and deadlock detection; its theorems |
| `Storage`, `Storage_proofs` | SimpleDB's transactions on disk: buffer pool, log, rollback, recovery, start and stop; its theorems |
| `Runner`, `Runner_proofs` | `tetrisdb start` and `stop`, the JVM they manage, and what they provision; its theorems |
| `DbQueue`, `Logd` | the statement queue with its child process; `tetrislogd`, the threads that log to it and its database mirror, which is a `DbQueue` |
| `...Props` | per component: assumptions, invariants, action and liveness properties, the inductive invariant where there is a proof |
| `MC_...` | instances for TLC |

`MC_Terminals` (Wire, BallotU, Elections), `MC_Processes` (Runner, Session, LockManager)
and `MC_Services` (Accounts, Logd) check several modules in one run.  Their modules share
no state, and those that `MC_Terminals` extends together no names (hence `CreateNext` and
`WireNext`); a variable `part` is chosen at the start, the chosen module takes the steps and
the variables of the others keep their initial values.  `MC_Storage` uses `part` in another
way: it picks one of three bounds (`Scope`) on the same specification.

### BallotBrain

State.  `election` maps an id to its lifecycle state (`"NONE"`: no row).
`ballot`, `owner` and `nonce` are the rows of the three other tables.  A ballot
row carries a field `n`, the nonce it was recorded with; the code has no such
column, it stands for the tuple's identity.  Per context, `pc` names the next
statement, `job` the request, `attempt`, `prior`, `tx` and `tally` the handler's
locals and what its transaction has written (`tx`: rows added and deleted) and scanned.  `applied` and
`receipts` are history variables that no action reads.

Actions.  `Start` is the dispatch of a request.  `bb_db_begin`, `record_load`,
`record_nonce_seen`, `record_prior`, `run_append_ballot`, `run_mark_superseded`,
`run_set_owner`, `run_nonce_mark` and `bb_db_commit` are `bb_record_ballot` in the
order of `record_ballot_locked`; `RecordRetry` is a statement answered
`<<END retry>>` (the loop redoes the whole transaction, `MaxAttempts` times at
most), `RecordFails` any other failure, `CommitReplyLost` a commit that took effect
without its reply arriving.  `transition_get` and `run_update_state` are
`bb_transition_state` and `bb_publish_results`.  `join_*`, `results_*`, `fetch_*`,
`lookup_load` and `run_find_hash` are the reading handlers.  `Crash` is the end of
the process at any point: the store rolls back, and a commit already sent may or may
not take effect.

Locks.  SimpleDB locks pages until the transaction ends, and which rows share a page depends
on the history of the file.  A statement of the model waits only where it waits on every page
layout: a scan for rows another transaction has written (`CanRead`), a delete for a transaction
that has scanned the row (`CanDelete`), UPDATE_STATE, which replaces the election's row, for a
transaction that has read the election (`ElectionHeld`), and an insert for rows another
transaction has written, because `insertTuple` walks the pages to a free slot.  An insert does
not wait for a scan: the row may go to a page appended after it (`HeapFile.java:124-131`).  So
two contexts that record for one voter can both find no ballot and both commit, as
`brain_two_writers` shows.  What keeps `ballotd` from it is that all casts go through one
context (`OneRecorder`).  Other contexts may read and change states meanwhile.  (With
three that record, an insert could also pass by another's uncommitted row, when a slot is free on
an earlier page; the model has it wait.  No property or theorem about several of them rests on it.)

Data.  A receipt hash is an operator `Hash(nonce, version)`, as in
`bb_issue_receipt`, which does not use the option; `HashAssumption` says it does not
collide.  The placeholder certificate check and decryption accept every non-empty
input, as in `crypto.c`.  Titles, option names and timestamps are left out.

### LockManager

State.  `holders`, `exclusive` and `waitingFor` are the class's three maps.  Per
transaction, `status` says where its thread is in `acquire`, `want` the lock it asks
for and `probed` a page `insertTuple` looked at and will give back.  `used` (what a
transaction has read and written) is a history variable.  `stopping` is set by the
shutdown hook.

Actions.  `getPage` and `insertProbe` are the two kinds of call.  `acquireGranted`,
`acquireWaits`, `acquireDeadlocked` and `acquireInterrupted` are the outcomes of one
round of `acquire`'s loop.  `release` is `unsafeReleasePage` of a full page that
`insertTuple` had not held before; `releaseAll` ends a transaction; `shutdownNow`
interrupts the sleeping threads.  `hasDeadlock` is defined without recursion, as
membership in every set closed under `waitEdges`, which is what the depth-first search
of the code computes.

### Storage

State.  A page is the set of transactions whose changes it contains, so a lost change
and one that should not be there are both visible; inserting and deleting are both
"a change".  `disk` and `log` survive a crash; `pool` (value, dirtier, before-image),
`session`, `owner` (page locks, exclusive, as `LockManager` grants them) and `flush`
do not.  `flush` is the commit or the hook that holds the pool's monitor while it
writes page after page.  `outcome` and `wrote` are history variables.

Actions.  `getPage` and `markDirty` are the two halves of `insertTuple` and
`deleteTuple`: between them the page is changed, not yet dirty, and may be evicted.
A commit is `flushPages`, then `logWrite` and `writePage` per page, then `releaseAll`
(before-images renewed, locks released), then `logCommit`; `writeFails` is a page write
that fails and leaves the transaction open.  An abort is `logAbort` (with `rollback`)
and then `discardPages`, two visits to the monitor as in `Transaction`.
`flushAllPages` is the shutdown hook's, which waits at most five seconds for sessions.
`Crash` ends the process at any point.  `Start` is `main`: the statistics' first log
record empties the log, then `recover` runs on what is left.

Left out: read-only page requests, pages appended to a heap file, failing log
writes, checkpoints (no runner takes one), torn writes.  Tids restart with each
process, but the log is emptied at each start, so a transaction stands for its tid.

### Elections

An id is its prefix and its trailing number, and C's `int` is a constant `IntMax` wide, so
`id_seq` and the number after the largest one can wrap.  Rows of the three tables carry the
number of the insert that made them, because the tables have no unique key.  `ui` is each
operator's screen, `job` the request the admin thread works on, `txn` the rows of its open
transaction.  The actions are those of the screen (asking for the next id, entering a
configuration, reading the answer) and of `bb_create_election`: validation, the lookup of a
typed id or the allocation, the inserts of `run_insert_election`, the commit, each of which
can fail, be aborted and retried, or lose its answer.

### Ballotd

The listener, control and admin threads and `main` are control variables; `notify`,
`ctlNotify`, `quit` and `adminQuit` are the pipes.  `hold` and `copies` say which processes
have a descriptor open: `fork` copies every one the daemon has, which is why closing one end
need not end a stream.  `AdminPoll` fixes the sources that were ready, and the scan then
takes them in the code's order (announced workers, control requests, workers).  A handler is
the one call `ballotd_dispatch` makes, with the name it was made under and whether its result
has a name on the wire: `BB_ERR_RETRY` of `bb_record_ballot` has none, and then nothing is
sent.  Failing system calls are `Fault` steps; `Terminate` is close, signal and `reap_bounded`.

### BallotU

`screen` is where the program waits; `transport`, `session`, `shown` and `request` are the
client's state, `worker`, `phase` and `version` what it can see of the daemon.  The actions
are connecting, the login forms, joining, casting or updating (routed by `bu_route_vote`),
results, checking a receipt, leaving and reconnecting; for the daemon, answering with or
without the effect of the request, ending, or answering with something that does not decode.

### Wire and the modules below it

A byte is a separator, a digit or a letter; a fixed word counts as one letter, and field
sizes are constants.  A parser or a serialiser returns the set of its results, empty when it
refuses.  One behaviour of `Wire` is one exchange: encode, parse, decode, answer and decode;
or a foreign frame; or a select's answer cut to a buffer; or a literal; or a token that may
be altered.  A literal keeps a doubled quote doubled: `db_quote` doubles quotes and SimpleDB's
reader does not undo it, as `name.h:33-34` says of `o''brien`.

### Session

Both sides run the handshake message by message (`session_connect`, `session_accept`), then
send and receive frames of a length, a token and a body.  `chan` holds what was written and
not read.  Nonces, keys and signatures are terms.  Files may be unreadable, a side may give up
or close at any time, and an item may be damaged in its body or in its length.  A changed length
is refused (`"over"`), or it is one the reader accepts: longer than the item, or shorter.  In the
handshake such a length mostly ends in an error, but it can leave a side in `read_bytes` for more
bytes than the other will write (`"stuck"`), since neither side has a deadline.  In
`session_recv` it puts the reader inside an item (`astray`), where `Misread` takes the bytes it
finds for a length: they authenticate nothing, further frames are consumed, and the reader may
find a frame's beginning again, stay inside, or meet a length it refuses.

### Accounts

Each worker has its place in `auth_retry_handler` and `account_register`.  A connection has a
server session that goes on with a statement after the client gave up on it.  The user table
is a sequence of pages with page locks, so a scan does not cover a page appended later.
Faults are kills (with the semaphore taken, if it was), timeouts and refused statements.

### Runner

A command is one invocation: `start`, `stop`, or the provisioning of `ballotd`.  `flock`
belongs to the open file description, so `holders` has the start and, after the spawn, its
JVM; the lock is free when neither has it open.  The actions follow `main.c` system call by
system call: lock, provision heap file, catalog and secret, spawn, record the pid, wait for
readiness, reap and clear on failure; for a stop, read the pid, signal, poll.  Any command may
be killed at any step, any JVM may fail.

### DbQueue and Logd

`DbQueue` is the bounded ring, the worker thread and `execute` with its respawns; a child may
die before or after it carried out a statement.  `Logd` adds the sender (`log_vsend`: connect,
send, count a drop, report drops), the daemon's loop with filter, summary windows, reopening,
drain and stop, and its restarts.  `past`, `lost`, `refused`, `waiting`, `handed` and `done`
are history variables.

## 3. Runs

| Run | Instance | Checks |
|---|---|---|
| `brain` | 2 contexts: one for the requests of 2 eligible voters and 1 other, one the administrator's; 2 nonces, 2 attempts, weak fairness | `OneLiveBallotPerVoter`, `NonceSpentOnce`, `ReceiptsTraceable`, `AnswerHonest`, `ResultsAgree`, `RecordedWhileOpen`, `LifecycleForward`, `ImplementsLedger`, `EveryRequestEnds` |
| `lock` | 3 transactions of 2 requests, 3 pages | `Isolated`, `NoWaitCycle`, `VictimBlocksAnother` |
| `store` | 2 sessions, 3 pages, a pool of 2, 1 crash, 2 failing writes, the shutdown hook; three scopes | `Durable`, `KilledAbortLeavesNothing`, `OpenChangesHidden`, `WriteAhead`, `AloneRecoverSettles` |
| `daemon` | 2 clients out of 2 voters and 1 operator, a worker table of 1 slot, 1 failing system call | `WorkersAccounted`, `ActsAsItself`, `StopsWhenAsked`, `EveryoneHearsBack` |
| `terminals` | Wire: small records with every separator in them; BallotU: 3 elections, 2 connections, 2 faults; Elections: 2 operators, a four-bit `int`, 3 rows with 1 fault or 2 with 2 | `RequestArrives`, `AnswerArrives`, `TextsExact`; `VotesAsShown`, `NoFalseAlarm`, `AnswersItsRequest`; `OneRowPerElection`, `CreationTrue` |
| `processes` | Runner: 2 starts, 1 stop, ballotd's provisioning, 1 fault, 1 kill; Session: 2 frames a side, 2 faults; LockManager: 2 transactions of 3 requests, 2 pages; weak fairness | `OneRunner`, `RunnerStoppable`, `ServedWhole`, `StoppedMeansStopped`; `ChannelSound`; `WaitsEnd` |
| `services` | Logd: 6 configurations, 2 threads; Accounts: 2 workers, 2 pages, 2 faults; weak fairness | `RecordsAccounted`; `UniqueAccounts`, `AnswerTrue`, `TurnComesBack`; `ServicesEnd` |
| `brain_two_writers` | 2 contexts, both receiving casts | `OneLiveBallotPerVoter`, violated |
| `brain_retry` | 1 context, 3 attempts | `RetryNeverEscapes`, violated |
| `brain_two_admins` | 2 contexts, both receiving transitions | `LifecycleForward`, violated |
| `store_start` | 1 session, 1 crash | `StartUndoes`, violated |
| `store_hook` | 1 session and the shutdown hook | `AbortLeavesNothing`, violated |

### What the passing runs show

* The library, with one context that records: a voter has one live ballot and a nonce is spent
  once, each receipt stays traceable, a refusal has written nothing, no ballot is
  recorded past the close, what is published agrees with the ballot box for good, and every
  handler implements one atomic step of `BallotLedger` or none.
* The store: transactions are isolated although `insertTuple` gives pages back early, no
  circle of waiting transactions forms, committed changes stay on disk and open ones can be
  undone from the log at any crash.
* The daemon: a connection acts only under the name it logged in with and only through its
  channel's calls; a stop always ends the daemon, with its announced workers reaped.
* The terminals: what is sent arrives as written or is refused; a ballot goes to the election
  on the screen; a failure is never shown as a dropped ballot; an election is stored once,
  whole, and reported truly.
* The processes: starts and stops that race and are killed anywhere leave at most one JVM, and
  one that was reported as started can be stopped; the two ends of a session agree on its key
  and on the order of the frames; commands and lock waits end, and handshakes do unless a changed
  length keeps an end reading.
* The services: every dropped or mirrored record is counted in exactly one place; names, ids
  and tokens stay unique and answers are true although commit answers get lost and workers are
  killed; a registration's turn comes back on every path but a kill; requests and stops end.

### Bounds

Library: two voters and two nonces give a cast and an update of it next to a ballot of another
voter, and a cast resent after a lost reply; the administrator's context interleaves with each
statement of a recording transaction; requests repeat without limit.  Longer chains of updates
are covered by `Traceable` and the other theorems.  Locks: three
transactions and pages give a cycle of three, an upgrade inside a cycle and a bystander; the
liveness of `acquire` is checked for two transactions, as much as the behaviour graph allows,
and longer cycles are covered by `lock` and `DeadlockFree`.  Store: three pages and a pool of
two allow a commit of several pages and an eviction; two failing writes flush a page of one
open transaction twice with an eviction in between, the case `rollback`'s "earliest
before-image" is for.  Daemon: one slot and two clients make the table full and leave a worker
that holds another's descriptors; one fault is any single failing system call.  Elections: with
four bits, ids just below, at and past the largest `int` are all typed.  Wire: field sizes of a
few bytes, so that a field one byte too long, a full array and an odd cut all occur.  Runner:
two starts and a stop are the races over lock and pid file; more commands are covered by its
theorems.  Session: payloads at the largest frame and one byte past it, buffers too small for a
frame, and two damaged items, so that a reader that went astray meets a second damage.  Logd: a buffer of two records, a queue of one and a drain limit of three are reached; the
configurations split traffic, signals and a failing mirror.  Accounts: pages of one row make the second
account append a page.

### Fairness

Weak fairness only, of steps the code takes by itself.  Library: a context's next statement,
because `libtetrisdb` sets a deadline on every statement; the store answers a transaction in a
cycle with `<<END retry>>`.  Locks: threads in `acquire` (they sleep 10 ms and look again) and
the end of a transaction (sessions commit, roll back or are closed).  Daemon: each thread and
each worker process.  Runner: a command that has begun.  Session: each side's handshake.  Logd:
the daemon's loop and the queue's worker.  Accounts: each worker past the gate and each server
session.  Nothing is assumed of clients, operators, signals, faults, kills or crashes.

### What the violations show

* `brain_two_writers`: `handlers.c:303-305` says that the read-check-write on the ballot store is
  atomic per voter, "backed by a real SimpleDB transaction".  Two contexts that record for one
  voter can both scan before either inserts, and their rows go to pages the other has not locked,
  so the transaction alone does not give it.  In `ballotd` the single context does; for accounts,
  where several processes write, a semaphore guards against the same append (`test_auth.c:1271`).
* `brain_retry`: `types.h` says `BB_ERR_RETRY` never escapes the library.  After three aborted
  attempts the loop of `bb_record_ballot` ends with that code and returns it.  The code has no
  name in the codec's table, so `ballot_session` sends nothing (`session.c:125`) and the voter's
  client waits in `session_recv`; `Ballotd` has this step, and `EveryoneHearsBack` excepts it.
* `brain_two_admins`: `db.h` says that `bb_transition_state`'s read-then-write runs inside an
  explicit transaction.  It runs as two, so two administrators on one store can publish an
  election and then set it back.  With the daemon's single `admin_thread` this does not happen
  (`brain`, and the theorem `Lifecycle`).
* `store_start`: both runners compute statistics before they call `recover()`.  The first
  statistics transaction appends to a log whose recovery is undecided, which truncates it.  A
  crash between a commit's flush and its commit record therefore leaves the change, or a part
  of it, on disk for good.
* `store_hook`: the pool's monitor is free between `logAbort` and the discarding of the pages,
  and the shutdown hook can flush the aborted change there.

### Limits of the passing properties

The properties leave these cases out on purpose, because the code does not keep them there:

* `OneLiveBallotPerVoter`, `NonceSpentOnce`, `ReceiptsTraceable`, `ResultsAgree` and
  `ImplementsLedger` are about one context that records; two on one store lose the first
  (`brain_two_writers`), and none of the others is claimed for two.  The model's tables are sets: two rows that
  agree in every column and were recorded with one nonce would be one row, which only two
  contexts that record could make.
* `AloneRecoverSettles` is about one session at a time, no failed write of a commit and no hook.
  After a failed one a page flushed, evicted, changed and flushed again has a before-image
  with its own transaction's change.  With two sessions, locks are released before the commit
  record is written (`Transaction.java:54-58`), so a second transaction can commit on top of a
  change that has no commit record, and `recover()` would install both.
* `KilledAbortLeavesNothing` is about runs without the hook (see `store_hook`).
* `VictimBlocksAnother` does not say that a victim breaks a real deadlock: `waitEdges` also
  counts readers that a sleeping reader could by now share its page with.
* `EveryoneHearsBack` excepts a worker that found the table full (its voter may wait for good,
  `main.c:363`), an admin thread whose `poll` failed, and a result without a name on the wire.
* `RequestArrives` excepts election ids with a slash, which `path_election_id` reads short
  (`codec.c:231`).  It does not call a payload of more than 159 bytes complete: its digits do not
  fit the decoder's line buffer and it is refused, although `BB_CIPHERTEXT_MAX` is 256.
* `OneRowPerElection` excepts ids that were allocated with the store unreachable
  (`ballotbrain.c:61`) or past the largest `int`.
* `ServedWhole` excepts a table whose provisioning was killed in the middle of its page.
* `RecordsAccounted`: its order of rows excepts a start whose seeding probe was rejected
  (ids begin again at one), and its drain excepts a broken file and the drain's own limit.
* `ChannelSound`: that a missing frame was damaged or did not fit the caller's buffer is claimed
  of a side that was never out of step.  After a changed length that it accepts, `session_recv`
  reads from the middle of a frame without setting `recv_dead` and loses frames that were not
  damaged; what it hands out is still authentic and in order.
* `WaitsEnd` excepts a side of a handshake that reads for a length that was changed to a longer
  one in range (nonce 1 to 64, signature to 512, certificate to 8192 bytes) while the other side
  stays: neither has a deadline.
* `TurnComesBack` excepts a worker killed with the turn: the semaphore then stays at zero.
* `TextsExact`: a text with quotes is stored with each of them doubled, so it is exact for texts
  without.
* The pool may exceed `numPages`: a page evicted between its change and its marking as dirty is
  put back without looking at the size (`BufferPool.java:189`).

Other places where comments and code were found to differ, without a run of their own:
`tests/TESTS.md:340` lists a test of a start that repairs a semaphore left at zero; neither that
test nor such code is in the repository (a killed holder keeps it, and registrations then time
out); `db.c:24-25` says that a state change carries the other columns over unchanged, but a title
is read back with its quotes doubled (`name.h:33-34`) and quoted again, so every change of state doubles them once
more; `session.c:149` says there is no guest path, and
`GUEST` is one; a JVM whose start was killed before recording its pid keeps the lock with no pid
for a stop to read; `transport.c:147` replaces a dead transport without closing its descriptor.

## 4. Proofs

Every theorem holds for any values of the constants that satisfy the assumptions named with it:
any number of contexts, voters, operators, sessions, pages, commands, requests, faults, kills
and crashes.  None of the properties is inductive as it stands.  Each component has an inductive
invariant (`IInv`, for `Elections` `CreateInv`, in its `...Props` module), which TLC checked on the instance of its run before
it was proved.  A proof has the same shape everywhere: lemmas about the helpers, one lemma per
action or kind of step with one step per conjunct that it can disturb, a lemma that joins them,
and the theorems.

### The library

`BallotBrain_proofs`:

| Theorem | Statement |
|---|---|
| `TypeCorrect` | `Spec => []TypeOK` |
| `HonestAnswers` | `Spec => []AnswerHonest` |
| `RecordedOpen` | `Spec => RecordedWhileOpen` |
| `Lifecycle` | `Spec => LifecycleForward`, with `OneAdministrator` |
| `OneLiveBallot` | `Spec => []OneLiveBallotPerVoter`, with `OneRecorder` |
| `NonceOnce` | `Spec => []NonceSpentOnce`, with `OneRecorder` |

`BallotBrain_refines`:

| Theorem | Statement |
|---|---|
| `Refinement` | `Spec => ImplementsLedger`, with `OneRecorder` and `OneAdministrator` |
| `Traceable` | `Spec => []ReceiptsTraceable`, with `OneRecorder` |
| `PublishedAgree` | `Spec => []ResultsAgree`, with `OneRecorder` and `OneAdministrator` |

Assumptions: `ConfigAssumption` (types of the constants), `HashAssumption` (receipt hashes of
different nonces or versions differ) and `CapacityAssumption` (an eligible list fits
`BB_MAX_VOTERS`, which creation checks).  TLC evaluates them on each run.  Two hypotheses describe
the daemon: `OneRecorder`, that one context receives the casts, and `OneAdministrator`, that one
context only receives transitions.  `brain_two_writers` and `brain_two_admins` show that they are
needed.  Any number of further contexts may read.

Argument.  There are two inductive invariants.  `GInv` holds for any number of contexts that
record: the election an open transaction has read is still open, because UPDATE_STATE waits for
its page (`LoadHolds`), and a transaction that has not reached its commit has
taken no effect (`OtherJobs`, `WritesStart`).  `OneLiveBallotPerVoter` says nothing of a
transaction under way, so `IInv`, with `OneRecorder`, adds
* `ReadsHold`: what the recording transaction has read (the nonce is unspent, this is the
  voter's current ballot) is still so, because no other context writes these tables;
* `WritesAre`: the tables as the transaction leaves them are a known function of the tables;
* `RowsHashed`: a row's hash is the hash of its nonce and version, so an unspent nonce
  gives a hash no row has.

A commit then replaces the tables by known functions of themselves (`CommitTables`).

For the refinement, a commit that takes effect, with its reply or without, is one `Cast` of the
ledger: the voter's live row and owner row are unique, so `VoteOf` and `VersionOf` name the row
just written for this voter and are unchanged for every other.  A stored transition is one
`Advance`, and every other step leaves the ledger alone.  For receipts, the row a receipt was
given for is never deleted, keeps its hash and is superseded only by a row of the same voter
with a higher version.  For results, an election whose results can be read is past the state in
which a ballot is recorded, so what a context has counted is still what the tables say; the
count of the live ballots is at most `MaxVoters` because each has an eligible voter of its own.

### The page locks

`LockManager_proofs`, from `LockAssumption` (types of the constants):

| Theorem | Statement |
|---|---|
| `Isolation` | `Spec => []Isolated` |
| `DeadlockFree` | `Spec => []NoWaitCycle` |
| `UsefulVictim` | `Spec => VictimBlocksAnother` |

`NoWaitCycle` says that every nonempty set of transactions has a member that waits for nobody in
the set, which is acyclicity without paths.  It is kept because a transaction only goes to sleep
when `hasDeadlock` finds that following `waitEdges` from it does not lead back to it, and a
grant adds no waiting of the transaction that receives it.

### The store

`Storage_proofs`, from `StorageAssumption` (types and names of the constants):

| Theorem | Statement |
|---|---|
| `CommittedDurable` | `Spec => []Durable` |
| `LoggedAhead` | `Spec => []WriteAhead` |
| `ChangesHidden` | `Spec => []OpenChangesHidden` |
| `AbortsErase` | `Spec => []AbortLeavesNothing`, with `Hooks = {}` |

A page image is the set of transactions whose changes it has, so a change can come back from
anywhere an image is kept: the pool, the before-image beside it, a session's hands between
`getPage` and marking the page dirty, and the log.  `IInv` says of each of these places what it
may hold:
* `LocksHold`, `PoolHolds`, `FlushHolds`: a dirty page is locked by the transaction that dirtied
  it, a clean one is what the disk has, a flush has exactly the pages it still has to write;
* `MarksHold`: an open transaction's change is only where that transaction has the page locked
  or has released it on its way to the commit record;
* `LogHolds`: a change that has reached the disk or a before-image has a record, and the first
  record of its transaction for the page has the page without it;
* `ChangesHold`: a change that is flushed or committed is on disk and in every image that could
  still be written over it, the before-images of the open transactions' records included.

The last conjunct is the point: rollback and recovery write old images, and `Durable` holds
because no old image lacks a committed change.  `AbortsErase` adds its mirror (`AbortsHold`): once
an abort has restored the disk, no image that may reach the disk has the change.  With the
shutdown hook this is false (`store_hook`), so the hook's absence is its hypothesis, as it is of
`KilledAbortLeavesNothing`, the form the run checks.

### `tetrisdb start` and `stop`

`Runner_proofs`, from `CmdsAssumption` (no command is named like the missing file):

| Theorem | Statement |
|---|---|
| `RunnerAlone` | `Spec => []OneRunner` |
| `Stoppable` | `Spec => []RunnerStoppable` |
| `StoppedIsStopped` | `Spec => StoppedMeansStopped` |
| `ServesWholeTables` | `Spec => []ServedWhole`, with `OneBallotd` |

`IInv` adds `OneHolder` (only one invocation, itself or through its JVM, has the lock),
`HoldersTrue` (who should have the lock has it, a JVM exactly as long as it lives, and a missing
lock file means nobody) and `PidStays` (the pid is in the file before the start waits, and stays
there while the JVM runs).  A start can only take the lock when it is free, so a new start finds
no JVM alive (`FreeMeansNone`), and while one invocation has it no other passes the lock
(`LockedAlone`).  A stop reports success only after it has taken the lock itself or found no
lock file.

`ServedWhole` has an invariant of its own on top of this one, `FInv`: the heap file of a table is
whole before the table is in the catalog, and half only while one command is at its page
(`TablesHold`); what a start has seen to stays so under its JVM (`SpawnHolds`).  `ballotd`
provisions its tables without the lock; `OneBallotd` says that one invocation of it does so at a
time.

### The daemon

`Ballotd_proofs`, from `BallotdAssumption` (`MAX_WORKERS` is a natural number, no voter has the
name of a missing one or of one of the daemon's own descriptors):

| Theorem | Statement |
|---|---|
| `DaemonInvariant` | `Spec => []IInv` |
| `WorkersAreAccounted` | `Spec => []WorkersAccounted` |
| `VotersActAsThemselves` | `Spec => []ActsAsItself` |

`IInv` says that no worker is known twice, over the announced, the queued and the registered
ones together, and that the daemon holds its end of exactly those pairs (`TableHolds`); that a
worker not yet reaped is known or was turned away (`WorkersHold`); how far each thread can have
come in each phase of the shutdown, so that what has ended announces and passes on nothing more
(`StopHolds`); and that a pair only carries its own voter's name and the voter's operations
(`ChannelsHold`).  When the admin thread has left its teardown nothing is known any more, hence
every worker that was not turned away is reaped.

### Creation of elections

`Terminals_proofs`, from `CreateAssumption` (the first id is an `int`; ids and configurations
have the fields the operations look at):

| Theorem | Statement |
|---|---|
| `CreationInvariant` | `CreateSpec => []CreateInv` |
| `ElectionsKeepApart` | `CreateSpec => []OneRowPerElection` |
| `CreationIsTrue` | `CreateSpec => []CreationTrue` |

`CreateInv` says that the open transaction of `run_insert_election` has exactly the rows of the
statements before the one it is at (`JobHolds`), so a commit adds a whole election and anything
else adds none; that every stored election has all its options and voters and no row belongs to
none (`StoreHolds`); that a sequence number is its id's number and there is a largest one, and
that the id of a creation under way is in use by nobody (`IdsHold`).  The next id is one above
the largest number, which no stored id has as long as it does not pass the largest `int`
(`AllocFresh`).

### The voter's client

`Terminals_proofs`, from `ClientAssumption` (the voter is on the lists of elections that exist, and
no transport is the missing one):

| Theorem | Statement |
|---|---|
| `ClientInvariant` | `Spec => []IInv` |
| `VoterVotesAsShown` | `Spec => []VotesAsShown` |
| `NoBallotMissed` | `Spec => []NoFalseAlarm` |
| `EachItsOwnAnswer` | `Spec => AnswersItsRequest` |

`IInv` says that a voter who has joined did so in this session and that the session names the
election on the screen (`SessionHolds`); that a ballot under way goes to that election
(`RequestHolds`); and that at most one answer is on its way, that it answers the request that is
open, and that what it says was so when it was given and can only have been overtaken by later
ballots (`RepliesHold`).  The last is what carries a fact from the store to the screen: a
`NOT_FOUND` is sent for a receipt only after a later version, and versions never go down.

### Registration and login

`Accounts_proofs`, from `AccountsAssumption` (the bound on connections and the limits on tries are
natural numbers, nothing is the missing value, the account of before is a committed row).  Any
number of workers, connections, requests, rows to a page, attempts and faults; the names are those
`user_name_fold` makes of the modelled ones, two and the one of the account of before.

| Theorem | Statement |
|---|---|
| `AccountsInvariant` | `Spec => []IInv` |
| `AccountsUnique` | `Spec => []UniqueAccounts` |
| `AnswersTrue` | `Spec => []AnswerTrue` |

The argument does not rest on the turn alone, because a worker may be killed or give up while
its session goes on.  `IInv` says whose each open session is and that it runs the statement its
worker sent (`OwnersHold`); that a page one session wrote is locked by no other and holds rows
of no other transaction (`LocksHold`); and that a scan has the rows of all pages it has passed
locked and read, all committed (`SessionHolds`).  Uniqueness is proved of `Live`, the rows that
are committed or still may be: those of an open session and those whose commit was sent before
the client gave up.  A worker that has the answer to its largest-id or name query knows all of
`Live` (`RegHolds`), and the turn keeps other registrations from adding to it; hence the row it
inserts is apart from every row that can ever commit.  A transaction has one row at most, so
a commit that is answered has committed the very account the client is then told of
(`AnswerHolds`).

### Model-checked only

* Liveness (`EveryRequestEnds`, `WaitsEnd`, `StopsWhenAsked`, `EveryoneHearsBack`, `TurnComesBack`,
  `ServicesEnd`):
  outside what the provers handle.
* `RequestArrives`, `AnswerArrives`, `TextsExact`: what the recursive encoders and decoders of
  `Htttp`, `Codec` and `Text` compute needs induction over their texts, which the installed
  provers cannot do.
* `AloneRecoverSettles`: it is about one session at a time and as long as no write has failed (see
  the limits above); it is not proved.
* `ChannelSound`, `RecordsAccounted`: not proved.  They count frames and records, so their
  invariants are about cardinalities of sets of positions.

The type invariant of each component with theorems is proved as part of its inductive invariant
and is in no run.

## 5. Not modelled

* Terminal drawing and key reading, the shell, the readers of configuration files: sequential
  code without shared state.
* SimpleDB's parser, planner, operators and B+ trees: only which pages a scan and an insert
  touch is used.  Nor the limit on sessions and the accept loop of `SocketRunner`.
* Cryptography: signatures, certificates, ciphers and MACs are terms that are valid or not; the
  32-bit receipt hash is assumed not to collide (`HashAssumption`), which it can.
* In `Storage`: failing log writes, pages appended to a heap file, checkpoints, torn writes.
* Deadlines inside one database statement: a statement is answered, fails or loses its answer.
* The log daemon's socket file, and two daemons on one path.
* The scripted demonstration modes (`mock.c`) and the placeholder cipher of `voter_crypto.c`.

`PROJECT.json` gives the status and the reason per component, and the hazards of the code with
the properties that would catch each of them.
