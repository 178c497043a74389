------------------------------ MODULE Storage ------------------------------
(***************************************************************************)
(* Transactions on SimpleDB's disk: Transaction, BufferPool (NO STEAL,     *)
(* FORCE), LogFile with rollback and recover, and how SocketRunner and      *)
(* PipeRunner start and stop.  A page is the set of the transactions whose *)
(* changes it contains.  Page locks are exclusive and kept until           *)
(* BufferPool.transactionComplete; LockManager models how they are granted. *)
(* Every start empties the log (see Start), so the log never holds two      *)
(* transactions with one tid and a transaction stands for its tid.         *)
(***************************************************************************)
EXTENDS Integers, Sequences, FiniteSets

CONSTANTS Sessions,    \* connections served at once
          Pages,
          Hooks,       \* the shutdown hook's thread, or no thread
          Nobody,
          NumPages,    \* capacity of the buffer pool
          MaxTxns,     \* bound: transactions of all incarnations together
          MaxCrashes,  \* bound: times the process ends
          MaxIoErrors  \* bound: page writes that fail

ASSUME StorageAssumption ==
    /\ MaxTxns \in Nat
    /\ Nobody \notin Sessions \cup Hooks \cup Pages
    /\ Sessions \cap Hooks = {}

VARIABLES disk,        \* the heap files
          pool,        \* BufferPool.pages
          log,         \* the log file's UPDATE, COMMIT and ABORT records
          session,     \* where a session is, and its transaction
          owner,       \* who holds the lock of a page
          flush,       \* the flush that holds BufferPool's monitor
          up,          \* the process: "down", "up" or "stopping"
          outcome,     \* of every transaction begun, in order of beginning
          wrote,       \* the pages a transaction changed
          crashes, ioErrors

vars == <<disk, pool, log, session, owner, flush, up, outcome, wrote, crashes, ioErrors>>

Txns == 1..MaxTxns
None == 0                    \* no transaction
Page(val, dirty, before) == [in |-> TRUE, val |-> val, dirty |-> dirty, before |-> before]
Absent == [in |-> FALSE, val |-> {}, dirty |-> None, before |-> {}]
At(pc, t, p, copy) == [pc |-> pc, txn |-> t, page |-> p, copy |-> copy]
Idle == At("idle", None, Nobody, Absent)
Flush(by, todo, logged) == [by |-> by, todo |-> todo, logged |-> logged]
NoFlush == Flush(Nobody, {}, Nobody)

\* Session s goes on with its transaction, and has no page in its hands.
Goto(s, pc) == session' = [session EXCEPT ![s] = At(pc, session[s].txn, Nobody, Absent)]

Record(type, t, p, b, a) == [type |-> type, tid |-> t, page |-> p, before |-> b, after |-> a]
Mark(type, t) == Record(type, t, Nobody, {}, {})

----------------------------------------------------------------------------
(* LogFile *)

\* The first record of a process that has not recovered empties the log.
preAppend(l, recoveryUndecided) == IF recoveryUndecided THEN <<>> ELSE l

Updates(l, p) == {i \in 1..Len(l) : l[i].type = "UPDATE" /\ l[i].page = p}
UpdatesBy(l, t, p) == {i \in Updates(l, p) : l[i].tid = t}
Earliest(is) == CHOOSE i \in is : \A j \in is : i <= j
Latest(is) == CHOOSE i \in is : \A j \in is : j <= i

\* Mutant: the last before-image of a page wins.
rollbackLatest(t) ==
    [p \in Pages |-> IF UpdatesBy(log, t, p) = {} THEN disk[p]
                     ELSE log[Latest(UpdatesBy(log, t, p))].before]

\* What rollback leaves on disk: a page the transaction wrote more than once
\* gets the earliest before-image.
rollback(t) ==
    [p \in Pages |-> IF UpdatesBy(log, t, p) = {} THEN disk[p]
                     ELSE log[Earliest(UpdatesBy(log, t, p))].before]

\* The tids with a COMMIT record.
CommittedIn(l) == {l[i].tid : i \in {j \in 1..Len(l) : l[j].type = "COMMIT"}}

\* Mutant: every update is redone.
recoverRedo(l, d) ==
    [p \in Pages |-> IF Updates(l, p) = {} THEN d[p] ELSE l[Latest(Updates(l, p))].after]

\* What recover leaves on disk: it applies the update records in order, the
\* after-image of a tid with a COMMIT record, the before-image of another,
\* so the last record of a page settles it.
recover(l, d) ==
    [p \in Pages |->
       IF Updates(l, p) = {} THEN d[p]
       ELSE LET r == l[Latest(Updates(l, p))]
            IN  IF r.tid \in CommittedIn(l) THEN r.after ELSE r.before]

----------------------------------------------------------------------------
Init ==
    /\ disk = [p \in Pages |-> {}]
    /\ pool = [p \in Pages |-> Absent]
    /\ log = <<>>
    /\ session = [s \in Sessions |-> Idle]
    /\ owner = [p \in Pages |-> Nobody]
    /\ flush = NoFlush
    /\ up = "down"
    /\ outcome = <<>>
    /\ wrote = [t \in Txns |-> {}]
    /\ crashes = 0
    /\ ioErrors = 0

\* main: computeStatistics scans every table in a transaction of its own,
\* and the first of these writes the process's first log record.  Only then
\* is recover called.
Start ==
    /\ up = "down"
    /\ log' = preAppend(log, TRUE)
    /\ disk' = recover(log', disk)
    /\ up' = "up"
    /\ UNCHANGED <<pool, session, owner, flush, outcome, wrote, crashes, ioErrors>>

\* The process ends, killed or at the end of its shutdown.
Crash ==
    /\ up # "down" /\ crashes < MaxCrashes
    /\ up' = "down"
    /\ pool' = [p \in Pages |-> Absent]
    /\ session' = [s \in Sessions |-> Idle]
    /\ owner' = [p \in Pages |-> Nobody]
    /\ flush' = NoFlush
    /\ outcome' = [t \in DOMAIN outcome |->
                     IF outcome[t] = "active" THEN "lost" ELSE outcome[t]]
    /\ crashes' = crashes + 1
    /\ UNCHANGED <<disk, log, wrote, ioErrors>>

\* Transaction.start; its BEGIN record carries nothing that is read back.
Begin(s) ==
    /\ up # "down" /\ session[s] = Idle /\ Len(outcome) < MaxTxns
    /\ session' = [session EXCEPT ![s] = At("active", Len(outcome) + 1, Nobody, Absent)]
    /\ outcome' = Append(outcome, "active")
    /\ UNCHANGED <<disk, pool, log, owner, flush, up, wrote, crashes, ioErrors>>

----------------------------------------------------------------------------
(* BufferPool *)

InPool == {p \in Pages : pool[p].in}
Held(s) == {p \in Pages : owner[p] = s}
DirtiedBy(t) == {p \in InPool : pool[p].dirty = t}
Loaded(p) == IF pool[p].in THEN pool[p] ELSE Page(disk[p], None, disk[p])

\* What evictPage may drop before p is read: one clean page when the pool is
\* full, and there may be none.
Evictions(p) == IF p \in InPool \/ Cardinality(InPool) < NumPages THEN {{}}
                ELSE {{q} : q \in DirtiedBy(None)}

CanLock(s, p) == session[s].pc = "active" /\ flush = NoFlush /\ owner[p] \in {Nobody, s}

\* insertTuple and deleteTuple, first half: the page is locked and brought
\* in, and the session changes its reference to it.  It is not dirty yet.
getPage(s, p) ==
    /\ CanLock(s, p)
    /\ \E out \in Evictions(p) :
         pool' = [q \in Pages |-> IF q = p THEN Loaded(p)
                                  ELSE IF q \in out THEN Absent ELSE pool[q]]
    /\ owner' = [owner EXCEPT ![p] = s]
    /\ session' = [session EXCEPT ![s] = At("changing", session[s].txn, p, Loaded(p))]
    /\ UNCHANGED <<disk, log, flush, up, outcome, wrote, crashes, ioErrors>>

\* Second half: the page is marked dirty and put, whether or not it was
\* evicted in between.
markDirty(s) ==
    /\ session[s].pc = "changing" /\ flush = NoFlush
    /\ LET p == session[s].page
           t == session[s].txn
           copy == session[s].copy
       IN  /\ pool' = [pool EXCEPT ![p] = Page(copy.val \cup {t}, t, copy.before)]
           /\ wrote' = [wrote EXCEPT ![t] = @ \cup {p}]
    /\ Goto(s, "active")
    /\ UNCHANGED <<disk, log, owner, flush, up, outcome, crashes, ioErrors>>

\* Every page is dirty: the statement fails, and its transaction is aborted.
getPageFails(s, p) ==
    /\ CanLock(s, p)
    /\ Evictions(p) = {}
    /\ owner' = [owner EXCEPT ![p] = s]
    /\ Goto(s, "aborting")
    /\ UNCHANGED <<disk, pool, log, flush, up, outcome, wrote, crashes, ioErrors>>

\* Mutant: a commit leaves its pages to be written later.
flushPagesLater(s) ==
    /\ session[s].pc = "active" /\ flush = NoFlush
    /\ flush' = Flush(s, {}, Nobody)
    /\ Goto(s, "flushing")
    /\ UNCHANGED <<disk, pool, log, owner, up, outcome, wrote, crashes, ioErrors>>

\* transactionComplete(tid, true) enters the monitor and flushes the pages
\* the transaction dirtied.
flushPages(s) ==
    /\ session[s].pc = "active" /\ flush = NoFlush
    /\ flush' = Flush(s, DirtiedBy(session[s].txn), Nobody)
    /\ Goto(s, "flushing")
    /\ UNCHANGED <<disk, pool, log, owner, up, outcome, wrote, crashes, ioErrors>>

\* The shutdown hook's flushAllPages, which does not wait for sessions that
\* are still at work five seconds after shutdownNow.
flushAllPages(h) ==
    /\ up = "up" /\ flush = NoFlush
    /\ up' = "stopping"
    /\ flush' = Flush(h, InPool \ DirtiedBy(None), Nobody)
    /\ UNCHANGED <<disk, pool, log, session, owner, outcome, wrote, crashes, ioErrors>>

hookDone(h) ==
    /\ flush.by = h /\ flush.todo = {}
    /\ flush' = NoFlush
    /\ UNCHANGED <<disk, pool, log, session, owner, up, outcome, wrote, crashes, ioErrors>>

\* Mutant: the page is written before its record.
logWriteAfter(p) ==
    /\ p \in flush.todo /\ flush.logged = Nobody
    /\ disk' = [disk EXCEPT ![p] = pool[p].val]
    /\ flush' = Flush(flush.by, flush.todo, p)
    /\ UNCHANGED <<pool, log, session, owner, up, outcome, wrote, crashes, ioErrors>>

\* flushPage: the update record is forced to the log, then the page written.
logWrite(p) ==
    /\ p \in flush.todo /\ flush.logged = Nobody
    /\ log' = Append(log, Record("UPDATE", pool[p].dirty, p, pool[p].before, pool[p].val))
    /\ flush' = Flush(flush.by, flush.todo, p)
    /\ UNCHANGED <<disk, pool, session, owner, up, outcome, wrote, crashes, ioErrors>>

writePage(p) ==
    /\ flush.logged = p
    /\ disk' = [disk EXCEPT ![p] = pool[p].val]
    /\ pool' = [pool EXCEPT ![p] = Page(pool[p].val, None, pool[p].before)]
    /\ flush' = Flush(flush.by, flush.todo \ {p}, Nobody)
    /\ UNCHANGED <<log, session, owner, up, outcome, wrote, crashes, ioErrors>>

\* Mutant: a failed commit releases the locks.
writeFailsUnlocks(s) ==
    /\ flush.by = s /\ flush.logged # Nobody /\ ioErrors < MaxIoErrors
    /\ flush' = NoFlush
    /\ owner' = [p \in Pages |-> IF owner[p] = s THEN Nobody ELSE owner[p]]
    /\ Goto(s, "active")
    /\ ioErrors' = ioErrors + 1
    /\ UNCHANGED <<disk, pool, log, up, outcome, wrote, crashes>>

\* A write fails: flushPages throws, the commit fails with it, and the
\* transaction stays open, to be committed again or aborted.
writeFails(s) ==
    /\ flush.by = s /\ flush.logged # Nobody /\ ioErrors < MaxIoErrors
    /\ flush' = NoFlush
    /\ Goto(s, "active")
    /\ ioErrors' = ioErrors + 1
    /\ UNCHANGED <<disk, pool, log, owner, up, outcome, wrote, crashes>>

\* The pages are on disk: what they hold is the before-image of the next
\* transaction, and the locks are released.
releaseAll(s) ==
    /\ flush.by = s /\ flush.todo = {}
    /\ pool' = [p \in Pages |-> IF p \in InPool \cap Held(s)
                                THEN Page(pool[p].val, pool[p].dirty, pool[p].val)
                                ELSE pool[p]]
    /\ owner' = [p \in Pages |-> IF owner[p] = s THEN Nobody ELSE owner[p]]
    /\ flush' = NoFlush
    /\ Goto(s, "logging")
    /\ UNCHANGED <<disk, log, up, outcome, wrote, crashes, ioErrors>>

\* Last, and with no lock held, the commit record; the client is answered.
logCommit(s) ==
    /\ session[s].pc = "logging"
    /\ log' = Append(log, Mark("COMMIT", session[s].txn))
    /\ outcome' = [outcome EXCEPT ![session[s].txn] = "committed"]
    /\ session' = [session EXCEPT ![s] = Idle]
    /\ UNCHANGED <<disk, pool, owner, flush, up, wrote, crashes, ioErrors>>

\* Abort, a failed statement's or a closed connection's: the pages the
\* transaction has on disk are restored and leave the pool.
logAbort(s) ==
    /\ session[s].pc \in {"active", "aborting"} /\ flush = NoFlush
    /\ LET t == session[s].txn
       IN  /\ disk' = rollback(t)
           /\ pool' = [p \in Pages |-> IF UpdatesBy(log, t, p) = {} THEN pool[p] ELSE Absent]
           /\ log' = Append(log, Mark("ABORT", t))
    /\ Goto(s, "discarding")
    /\ UNCHANGED <<owner, flush, up, outcome, wrote, crashes, ioErrors>>

\* transactionComplete(tid, false): every page it held leaves the pool.
discardPages(s) ==
    /\ session[s].pc = "discarding" /\ flush = NoFlush
    /\ pool' = [p \in Pages |-> IF owner[p] = s THEN Absent ELSE pool[p]]
    /\ owner' = [p \in Pages |-> IF owner[p] = s THEN Nobody ELSE owner[p]]
    /\ outcome' = [outcome EXCEPT ![session[s].txn] = "aborted"]
    /\ session' = [session EXCEPT ![s] = Idle]
    /\ UNCHANGED <<disk, log, flush, up, wrote, crashes, ioErrors>>

\* Every transaction the bound allows has ended.
Finished ==
    /\ Len(outcome) = MaxTxns /\ \A s \in Sessions : session[s] = Idle
    /\ UNCHANGED vars

Next ==
    \/ Start \/ Crash \/ Finished
    \/ \E h \in Hooks : flushAllPages(h) \/ hookDone(h)
    \/ \E p \in Pages : logWrite(p) \/ writePage(p)
    \/ \E s \in Sessions :
         \/ Begin(s) \/ markDirty(s) \/ flushPages(s) \/ writeFails(s)
         \/ releaseAll(s) \/ logCommit(s) \/ logAbort(s) \/ discardPages(s)
         \/ \E p \in Pages : getPage(s, p) \/ getPageFails(s, p)

Spec == Init /\ [][Next]_vars
=============================================================================
