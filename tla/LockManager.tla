---------------------------- MODULE LockManager ----------------------------
(***************************************************************************)
(* SimpleDB's page locks (LockManager.java) as the threads of SocketRunner *)
(* use them: BufferPool.getPage acquires, HeapFile.insertTuple gives back  *)
(* a full page it only probed, transactionComplete gives back the rest.    *)
(* One action is one synchronized block; between two, a thread sleeps.     *)
(***************************************************************************)
EXTENDS Integers, FiniteSets

CONSTANTS Txns,         \* transaction ids; each runs once
          Pages,
          NoPage,
          MaxRequests   \* bound on the getPage calls of each transaction

VARIABLES holders,      \* LockState.holders, {} for a page without a LockState
          exclusive,    \* LockState.exclusive
          waitingFor,   \* the page a blocked transaction sleeps for
          status,       \* where the transaction's thread is
          want,         \* the arguments of its acquire
          probed,       \* the page insertTuple took to look for an empty slot
          used,         \* what the transaction has read or written, by page
          requests,     \* getPage calls so far
          stopping      \* the shutdown hook has interrupted the threads

locks == <<holders, exclusive>>
thread == <<status, want, probed, used, requests>>
vars == <<locks, waitingFor, thread, stopping>>

NoWant == [pid |-> NoPage, x |-> FALSE]
Wants == [pid : Pages, x : BOOLEAN]

----------------------------------------------------------------------------
\* Mutant: a transaction waits for itself too.
waitEdgesSelf(w, t) == IF w[t] = NoPage THEN {} ELSE holders[w[t]]

\* The transactions t waits for under the wait map w: the other holders of its
\* page.
waitEdges(w, t) == IF w[t] = NoPage THEN {} ELSE holders[w[t]] \ {t}

\* Mutant: only the direct successors are looked at.
hasDeadlockShallow(w, start) ==
    \E u \in waitEdges(w, start) : start \in waitEdges(w, u)

\* Following the edges from start leads back to start: every set that holds
\* start's successors and is closed under the edges contains start.
hasDeadlock(w, start) ==
    \A R \in SUBSET Txns :
       /\ waitEdges(w, start) \subseteq R
       /\ \A u \in R : waitEdges(w, u) \subseteq R
       => start \in R

\* The only holder may upgrade its shared lock.
MayUpgrade(t, pid) == holders[pid] = {t}

\* The conditions under which tryAcquire grants, and what it then records.
MayGrant(t, pid, x) ==
    \/ holders[pid] = {}
    \/ t \in holders[pid] /\ (exclusive[pid] \/ ~x)
    \/ MayUpgrade(t, pid)
    \/ ~x /\ ~exclusive[pid]

tryAcquire(t, pid, x) ==
    /\ MayGrant(t, pid, x)
    /\ holders' = [holders EXCEPT ![pid] = @ \cup {t}]
    /\ exclusive' = [exclusive EXCEPT ![pid] =
                       IF holders[pid] = {} THEN x ELSE @ \/ x]

----------------------------------------------------------------------------
Init ==
    /\ holders = [p \in Pages |-> {}]
    /\ exclusive = [p \in Pages |-> FALSE]
    /\ waitingFor = [t \in Txns |-> NoPage]
    /\ status = [t \in Txns |-> "running"]
    /\ want = [t \in Txns |-> NoWant]
    /\ probed = [t \in Txns |-> NoPage]
    /\ used = [t \in Txns |-> {}]
    /\ requests = [t \in Txns |-> 0]
    /\ stopping = FALSE

\* BufferPool.getPage calls acquire.
Call(t, w) ==
    /\ status[t] = "running" /\ requests[t] < MaxRequests[t]
    /\ status' = [status EXCEPT ![t] = "acquiring"]
    /\ want' = [want EXCEPT ![t] = w]
    /\ requests' = [requests EXCEPT ![t] = @ + 1]
    /\ UNCHANGED <<locks, waitingFor, used, stopping>>

\* A scan or an update asks for a page; after a probe that found an empty slot
\* it is that page that insertTuple asks for.
getPage(t, w) ==
    /\ probed[t] # NoPage => w = [pid |-> probed[t], x |-> TRUE]
    /\ Call(t, w)
    /\ probed' = [probed EXCEPT ![t] = NoPage]

\* Mutant: every page is taken for one not held before.
heldNever(t, p) == FALSE

\* insertTuple looks for an empty slot.  A page it held before it neither gives
\* back nor needs to remember.
heldBefore(t, p) == t \in holders[p]

insertProbe(t, p) ==
    /\ probed[t] = NoPage /\ ~heldBefore(t, p)
    /\ Call(t, [pid |-> p, x |-> FALSE])
    /\ probed' = [probed EXCEPT ![t] = p]

\* The loop of acquire, granted.
acquireGranted(t) ==
    /\ status[t] = "acquiring"
    /\ tryAcquire(t, want[t].pid, want[t].x)
    /\ waitingFor' = [waitingFor EXCEPT ![t] = NoPage]
    /\ status' = [status EXCEPT ![t] = "running"]
    /\ want' = [want EXCEPT ![t] = NoWant]
    /\ used' = [used EXCEPT ![t] = IF probed[t] = NoPage THEN @ \cup {want[t]} ELSE @]
    /\ UNCHANGED <<probed, requests, stopping>>

\* Not granted: the wait is recorded and, if it closes no cycle, slept on.
Waiting(t) == [waitingFor EXCEPT ![t] = want[t].pid]

acquireWaits(t) ==
    /\ status[t] = "acquiring"
    /\ ~MayGrant(t, want[t].pid, want[t].x)
    /\ ~hasDeadlock(Waiting(t), t)
    /\ waitingFor' = Waiting(t)
    /\ UNCHANGED <<locks, thread, stopping>>

\* TransactionAbortedException leaves acquire, the wait withdrawn.
Aborted(t) ==
    /\ waitingFor' = [waitingFor EXCEPT ![t] = NoPage]
    /\ status' = [status EXCEPT ![t] = "aborting"]
    /\ want' = [want EXCEPT ![t] = NoWant]
    /\ UNCHANGED <<locks, probed, used, requests, stopping>>

\* The wait would close a cycle: t is the victim.
acquireDeadlocked(t) ==
    /\ status[t] = "acquiring"
    /\ ~MayGrant(t, want[t].pid, want[t].x)
    /\ hasDeadlock(Waiting(t), t)
    /\ Aborted(t)

\* The thread is interrupted in its sleep.
acquireInterrupted(t) ==
    /\ status[t] = "acquiring" /\ waitingFor[t] # NoPage /\ stopping
    /\ Aborted(t)

\* insertTuple gives back a page that it only probed and found full.
release(t) ==
    /\ status[t] = "running" /\ probed[t] # NoPage
    /\ LET left == holders[probed[t]] \ {t}
       IN  /\ holders' = [holders EXCEPT ![probed[t]] = left]
           /\ exclusive' = [exclusive EXCEPT ![probed[t]] = @ /\ left # {}]
    /\ probed' = [probed EXCEPT ![t] = NoPage]
    /\ UNCHANGED <<waitingFor, status, want, used, requests, stopping>>

\* Mutant: an aborted transaction keeps its locks.
releaseCommitted(t) ==
    /\ status[t] \in {"running", "aborting"}
    /\ holders' = IF status[t] = "aborting" THEN holders
                  ELSE [p \in Pages |-> holders[p] \ {t}]
    /\ exclusive' = [p \in Pages |-> exclusive[p] /\ holders'[p] # {}]
    /\ status' = [status EXCEPT ![t] = "done"]
    /\ probed' = [probed EXCEPT ![t] = NoPage]
    /\ used' = [used EXCEPT ![t] = {}]
    /\ UNCHANGED <<waitingFor, want, requests, stopping>>

\* transactionComplete, at a commit, a rollback, a disconnection or after an
\* abort, ends with releaseAll.
releaseAll(t) ==
    /\ status[t] \in {"running", "aborting"}
    /\ holders' = [p \in Pages |-> holders[p] \ {t}]
    /\ exclusive' = [p \in Pages |-> exclusive[p] /\ holders[p] # {t}]
    /\ status' = [status EXCEPT ![t] = "done"]
    /\ probed' = [probed EXCEPT ![t] = NoPage]
    /\ used' = [used EXCEPT ![t] = {}]
    /\ UNCHANGED <<waitingFor, want, requests, stopping>>

\* The shutdown hook's pool.shutdownNow() interrupts every thread.
shutdownNow == ~stopping /\ stopping' = TRUE /\ UNCHANGED <<locks, waitingFor, thread>>

\* Every transaction has ended.
Finished == (\A t \in Txns : status[t] = "done") /\ UNCHANGED vars

Acquire(t) == \/ acquireGranted(t) \/ acquireWaits(t)
              \/ acquireDeadlocked(t) \/ acquireInterrupted(t)

Next ==
    \/ \E t \in Txns : \/ \E w \in Wants : getPage(t, w)
                       \/ \E p \in Pages : insertProbe(t, p)
                       \/ Acquire(t) \/ release(t) \/ releaseAll(t)
    \/ shutdownNow
    \/ Finished

Spec == Init /\ [][Next]_vars

\* A thread retries every RETRY_INTERVAL_MS; a session ends each transaction
\* that it has opened, its connection's end included.
Fairness == \A t \in Txns : WF_vars(Acquire(t)) /\ WF_vars(releaseAll(t))
FairSpec == Spec /\ Fairness
=============================================================================
