---------------------------- MODULE StorageProps ----------------------------
(***************************************************************************)
(* What SimpleDB's transactions promise of the disk.                       *)
(***************************************************************************)
EXTENDS Storage

Begun == DOMAIN outcome
Ended(o) == {t \in Begun : outcome[t] = o}

\* What a reader who gets the lock of p finds in it.
Content(p) == Loaded(p).val

\* FORCE: what a client was told is committed is on disk, in every page the
\* transaction changed, whatever other transactions abort, whichever writes
\* fail and however often the process ends.
Durable == \A t \in Ended("committed") : \A p \in wrote[t] : t \in disk[p]

\* An aborted transaction leaves nothing behind, on disk or in the pool, even
\* when some of its pages had been flushed and evicted before, and nothing
\* brings it back later.
AbortLeavesNothing ==
    \A t \in Ended("aborted") : \A p \in Pages : t \notin disk[p] /\ t \notin Content(p)

\* Write-ahead: a page on disk with the change of an open transaction can be
\* undone, because the log has an update record with a before-image from
\* before that change.
WriteAhead ==
    \A t \in Ended("active") : \A p \in Pages :
      t \in disk[p] => \E i \in UpdatesBy(log, t, p) : t \notin log[i].before

\* NO STEAL and the locks: a page shows the change of an open transaction to
\* nobody but the session that runs it, unless that session has released its
\* locks on the way to the commit record.
OpenChangesHidden ==
    \A p \in Pages : \A t \in Content(p) \cap Ended("active") :
      \E s \in Sessions : session[s].txn = t /\ (owner[p] = s \/ session[s].pc = "logging")

\* LogFile.recover's promise, of the log and the disk a crash would leave at
\* this moment: committed changes are installed, the others are not.
RecoverSettles ==
    \A p \in Pages :
      LET r == recover(log, disk)[p]
      IN  /\ \A t \in Ended("committed") : p \in wrote[t] => t \in r
          /\ r \cap (Ended("active") \cup Ended("aborted")) = {}

\* SocketRunner's and PipeRunner's promise: once a process has started, no
\* page has a change of a transaction an earlier process did not commit.
StartUndoes == up # "down" => \A p \in Pages : Content(p) \cap Ended("lost") = {}

----------------------------------------------------------------------------
(* The inductive invariant behind these.                                   *)

PageStates == [in : BOOLEAN, val : SUBSET Txns, dirty : Txns \cup {None},
               before : SUBSET Txns]
Records == [type : {"UPDATE", "COMMIT", "ABORT"}, tid : Txns, page : Pages \cup {Nobody},
            before : SUBSET Txns, after : SUBSET Txns]
OpenPcs == {"active", "changing", "aborting", "flushing"}
SessionStates == [pc : OpenPcs \cup {"idle", "logging", "discarding"},
                  txn : Txns \cup {None}, page : Pages \cup {Nobody}, copy : PageStates]

TypeOK ==
    /\ disk \in [Pages -> SUBSET Txns]
    /\ pool \in [Pages -> PageStates]
    /\ log \in Seq(Records)
    /\ session \in [Sessions -> SessionStates]
    /\ owner \in [Pages -> Sessions \cup {Nobody}]
    /\ flush \in [by : Sessions \cup Hooks \cup {Nobody}, todo : SUBSET Pages,
                  logged : Pages \cup {Nobody}]
    /\ up \in {"down", "up", "stopping"}
    /\ outcome \in Seq({"active", "committed", "aborted", "lost"}) /\ Len(outcome) <= MaxTxns
    /\ wrote \in [Txns -> SUBSET Pages]

Runs(s, t) == session[s].pc # "idle" /\ session[s].txn = t
Changing(s, p) == session[s].pc = "changing" /\ session[s].page = p
Open(s, t) == session[s].pc \in OpenPcs /\ session[s].txn = t

\* A transaction is open exactly as long as one session runs it.
SessionsRun ==
    /\ \A s \in Sessions : session[s].pc # "idle" =>
          session[s].txn \in Begun /\ outcome[session[s].txn] = "active"
    /\ \A s \in Sessions : session[s].pc = "idle" => session[s] = Idle
    /\ \A r, s \in Sessions : \A t \in Txns : Runs(r, t) /\ Runs(s, t) => r = s
    /\ \A t \in Ended("active") : \E s \in Sessions : Runs(s, t)

\* Locks are kept until they are released before the commit record or at the
\* end of the abort; the page a session has in its hands is one it has locked,
\* and nobody changes it meanwhile.
LocksHold ==
    /\ \A p \in Pages : \A s \in Sessions :
          owner[p] = s => session[s].pc \notin {"idle", "logging"}
    /\ \A s \in Sessions : session[s].pc = "changing" =>
          /\ session[s].page \in Pages /\ owner[session[s].page] = s
          /\ session[s].copy.val = Content(session[s].page)

\* Without a process nothing is under way.
DownHolds ==
    up = "down" => (\A s \in Sessions : session[s].pc = "idle") /\ flush = NoFlush

\* A clean page is what the disk has, a dirty one is locked by the transaction
\* that dirtied it and has its change.
PoolHolds ==
    \A p \in Pages :
      /\ ~pool[p].in => pool[p] = Absent
      /\ pool[p].in /\ pool[p].dirty = None => pool[p].val = disk[p]
      /\ pool[p].dirty # None => /\ owner[p] \in Sessions
                                 /\ Runs(owner[p], pool[p].dirty)
                                 /\ pool[p].dirty \in pool[p].val

FlushHolds ==
    /\ flush.by = Nobody => flush = NoFlush
    /\ \A s \in Sessions : flush.by = s =>
          /\ session[s].pc = "flushing"
          /\ DirtiedBy(session[s].txn) = flush.todo
    /\ \A s \in Sessions : session[s].pc = "flushing" => flush.by = s
    /\ \A p \in flush.todo : pool[p].in /\ pool[p].dirty # None
    /\ flush.logged # Nobody =>
          /\ flush.logged \in flush.todo
          /\ UpdatesBy(log, pool[flush.logged].dirty, flush.logged) # {}

\* Transaction t has left something about page p: on disk, in the pool, in a
\* session's hands, or in the log.
Marks(t, p) ==
    \/ t \in disk[p] \/ t \in pool[p].val \/ t \in pool[p].before
    \/ \E s \in Sessions : Changing(s, p) /\ t \in session[s].copy.val \cup session[s].copy.before
    \/ \E i \in Updates(log, p) : t \in log[i].before
    \/ UpdatesBy(log, t, p) # {}

\* Only a transaction that began leaves marks, and while it is open it has the
\* page locked, or has released it on the way to the commit record.
MarksHold ==
    \A t \in Txns : \A p \in Pages : Marks(t, p) =>
      /\ t \in Begun
      /\ outcome[t] = "active" =>
           \E s \in Sessions : Runs(s, t) /\ (owner[p] = s \/ session[s].pc = "logging")

\* The change of t to p is where only the log can undo it.
Stale(t, p) ==
    \/ t \in disk[p] \/ t \in pool[p].before
    \/ t \in pool[p].val /\ pool[p].dirty # t
    \/ \E s \in Sessions : Changing(s, p) /\ t \in session[s].copy.before
    \/ \E i \in Updates(log, p) : t \in log[i].before

\* The first update record of t for p has p as it was before t.
Undoes(t, p) ==
    \E i \in UpdatesBy(log, t, p) :
      /\ \A j \in UpdatesBy(log, t, p) : i <= j
      /\ t \notin log[i].before

LogHolds ==
    \A t \in Ended("active") : \A p \in Pages :
      /\ Stale(t, p) => UpdatesBy(log, t, p) # {}
      /\ UpdatesBy(log, t, p) # {} => Undoes(t, p)

\* The flushed and the committed, which nothing may undo.
Settled(t) ==
    \/ t \in Ended("committed")
    \/ \E s \in Sessions : session[s].pc = "logging" /\ session[s].txn = t

\* t's change to p is on disk and in every image that may replace it there.
Kept(t, p) ==
    /\ t \in disk[p]
    /\ pool[p].in => t \in pool[p].val /\ t \in pool[p].before
    /\ \A s \in Sessions : Changing(s, p) => t \in session[s].copy.before
    /\ \A s \in Sessions : \A u \in Txns : Open(s, u) =>
          \A i \in UpdatesBy(log, u, p) : t \in log[i].before

ChangesHold ==
    /\ \A t \in Txns : \A p \in wrote[t] :
          /\ t \in Begun
          /\ Settled(t) => Kept(t, p)
          /\ \A s \in Sessions : Open(s, t) => owner[p] = s /\ t \in Content(p)

IInv == /\ TypeOK /\ SessionsRun /\ LocksHold /\ DownHolds /\ PoolHolds /\ FlushHolds
        /\ MarksHold /\ LogHolds /\ ChangesHold

\* The aborted, and those whose abort has restored the disk.
Undone(t) ==
    \/ t \in Ended("aborted")
    \/ \E s \in Sessions : session[s].pc = "discarding" /\ session[s].txn = t

\* t's change to p is in no image that may reach the disk, and in the pool only
\* as long as the aborting session keeps the page locked.
Erased(t, p) ==
    /\ t \notin disk[p] /\ t \notin pool[p].before
    /\ t \in pool[p].val => \E s \in Sessions :
          owner[p] = s /\ session[s].pc = "discarding" /\ session[s].txn = t
    /\ \A s \in Sessions : Changing(s, p) =>
          t \notin session[s].copy.val /\ t \notin session[s].copy.before
    /\ \A s \in Sessions : \A u \in Txns : Open(s, u) =>
          \A i \in UpdatesBy(log, u, p) : t \notin log[i].before

AbortsHold == \A t \in Txns : Undone(t) => \A p \in Pages : Erased(t, p)
=============================================================================
