------------------------ MODULE LockManager_proofs ------------------------
(***************************************************************************)
(* Proofs about LockManager, for any transactions, pages and number of     *)
(* requests.                                                               *)
(***************************************************************************)
EXTENDS LockManagerProps, TLAPS

\* Fewer edges make no new cycle.
LEMMA FewerEdges ==
    ASSUME NoWaitCycle,
           \A u \in Txns : waitEdges(waitingFor, u)' \subseteq waitEdges(waitingFor, u)
    PROVE  NoWaitCycle'
<1> SUFFICES ASSUME NEW S \in SUBSET Txns, S # {}
             PROVE  \E t \in S : waitEdges(waitingFor, t)' \cap S = {}
  BY DEF NoWaitCycle, waitEdges
<1>1. PICK t \in S : waitEdges(waitingFor, t) \cap S = {}
  BY DEF NoWaitCycle
<1> QED
  BY <1>1

\* Recording a wait that hasDeadlock has not objected to makes no cycle: were S
\* one, the members of S that can be reached from t would be one without t.
LEMMA WaitMakesNoCycle ==
    ASSUME TypeOK, NoWaitCycle, NEW t \in Txns, ~hasDeadlock(Waiting(t), t),
           waitingFor' = Waiting(t), UNCHANGED holders
    PROVE  NoWaitCycle'
<1>1. PICK R \in SUBSET Txns :
         /\ waitEdges(Waiting(t), t) \subseteq R
         /\ \A u \in R : waitEdges(Waiting(t), u) \subseteq R
         /\ t \notin R
  BY DEF hasDeadlock
<1>2. \A u \in Txns : waitEdges(waitingFor, u)' = waitEdges(Waiting(t), u)
  BY DEF waitEdges
<1>3. \A u \in Txns \ {t} : waitEdges(Waiting(t), u) = waitEdges(waitingFor, u)
  BY DEF waitEdges, Waiting, TypeOK
<1> SUFFICES ASSUME NEW S \in SUBSET Txns, S # {},
                    \A u \in S : waitEdges(Waiting(t), u) \cap S # {}
             PROVE  FALSE
  BY <1>2 DEF NoWaitCycle
<1>4. CASE t \notin S
  BY <1>3, <1>4 DEF NoWaitCycle
<1>5. CASE t \in S
  <2>1. S \cap R # {}
    BY <1>1, <1>5
  <2>2. \A u \in S \cap R : waitEdges(waitingFor, u) \cap (S \cap R) # {}
    BY <1>1, <1>3
  <2> QED
    BY <2>1, <2>2, Zenon DEF NoWaitCycle
<1> QED
  BY <1>4, <1>5

\* A new holder is not waiting, so nobody waits in a circle through it.
LEMMA GrantMakesNoCycle ==
    ASSUME TypeOK, NoWaitCycle, NEW t \in Txns, acquireGranted(t)
    PROVE  NoWaitCycle'
<1>1. /\ waitingFor' = [waitingFor EXCEPT ![t] = NoPage]
      /\ \E p : holders' = [holders EXCEPT ![p] = @ \cup {t}]
  BY Zenon DEF acquireGranted, tryAcquire
<1>2. \A u \in Txns \ {t} :
         waitEdges(waitingFor, u)' \subseteq waitEdges(waitingFor, u) \cup {t}
  BY <1>1 DEF waitEdges, TypeOK
<1>3. waitEdges(waitingFor, t)' = {}
  BY <1>1 DEF waitEdges, TypeOK
<1> SUFFICES ASSUME NEW S \in SUBSET Txns, S # {}
             PROVE  \E u \in S : waitEdges(waitingFor, u)' \cap S = {}
  BY DEF NoWaitCycle, waitEdges
<1>4. CASE t \in S
  BY <1>3, <1>4
<1>5. CASE t \notin S
  <2>1. PICK u \in S : waitEdges(waitingFor, u) \cap S = {}
    BY DEF NoWaitCycle
  <2> QED
    BY <1>2, <1>5, <2>1
<1> QED
  BY <1>4, <1>5

----------------------------------------------------------------------------
\* A call only changes the thread that makes it.
LEMMA CallKeeps ==
    ASSUME IInv, NEW t \in Txns, NEW w \in Wants, Call(t, w),
           NEW p \in Pages \cup {NoPage}, probed' = [probed EXCEPT ![t] = p],
           \A a \in used[t] : a.pid # p
    PROVE  IInv'
<1> USE LockAssumption
<1>1. TypeOK'
  <2>1. /\ status' \in [Txns -> Statuses] /\ want' \in [Txns -> Wants \cup {NoWant}]
        /\ probed' \in [Txns -> Pages \cup {NoPage}]
    BY DEF IInv, TypeOK, Call, Statuses
  <2>2. requests' \in [Txns -> Nat] /\ \A u \in Txns : requests'[u] <= MaxRequests[u]
    <3>1. /\ requests \in [Txns -> Nat] /\ \A u \in Txns : requests[u] <= MaxRequests[u]
          /\ requests' = [requests EXCEPT ![t] = @ + 1] /\ requests[t] < MaxRequests[t]
      BY DEF IInv, TypeOK, Call
    <3> QED
      BY <3>1
  <2>3. \A u \in Txns : want'[u] \in Wants <=> status'[u] = "acquiring"
    <3>1. want'[t] = w /\ status'[t] = "acquiring"
      BY DEF IInv, TypeOK, Call
    <3>2. \A u \in Txns \ {t} : want'[u] = want[u] /\ status'[u] = status[u]
      BY DEF IInv, TypeOK, Call
    <3> QED
      BY <3>1, <3>2 DEF IInv, TypeOK
  <2> QED
    BY <2>1, <2>2, <2>3 DEF IInv, TypeOK, Call, locks
<1>2. ExclusiveAlone' /\ UsedHeld'
  BY DEF IInv, ExclusiveAlone, UsedHeld, Call, locks
<1>3. ProbedUnused'
  BY DEF IInv, ProbedUnused, Call, TypeOK
<1>4. WaitersAcquire'
  BY DEF IInv, WaitersAcquire, Call, TypeOK
<1>5. NoWaitCycle'
  BY FewerEdges DEF IInv, waitEdges, Call, locks
<1> QED
  BY <1>1, <1>2, <1>3, <1>4, <1>5 DEF IInv

\* What a grant does to the lock of the page and to the other locks.
LEMMA GrantKeepsLocks ==
    ASSUME IInv, NEW t \in Txns, acquireGranted(t)
    PROVE  ExclusiveAlone' /\ UsedHeld'
<1> DEFINE p == want[t].pid
           x == want[t].x
<1>0. /\ want[t] \in Wants /\ p \in Pages /\ x \in BOOLEAN
      /\ MayGrant(t, p, x)
      /\ holders' = [holders EXCEPT ![p] = @ \cup {t}]
      /\ exclusive' = [exclusive EXCEPT ![p] = IF holders[p] = {} THEN x ELSE @ \/ x]
      /\ used' = [used EXCEPT ![t] = IF probed[t] = NoPage THEN @ \cup {want[t]} ELSE @]
  BY DEF IInv, TypeOK, acquireGranted, tryAcquire, Wants
<1> HIDE DEF p, x
<1>1. \A q \in Pages \ {p} : holders'[q] = holders[q] /\ exclusive'[q] = exclusive[q]
  BY <1>0 DEF IInv, TypeOK
<1>2. /\ holders'[p] = holders[p] \cup {t}
      /\ exclusive'[p] = IF holders[p] = {} THEN x ELSE exclusive[p] \/ x
  BY <1>0 DEF IInv, TypeOK
<1>3. exclusive'[p] => holders'[p] = {t}
  BY <1>0, <1>2 DEF MayGrant, MayUpgrade, IInv, ExclusiveAlone
<1>4. ExclusiveAlone'
  BY <1>1, <1>3 DEF IInv, ExclusiveAlone
<1>5. holders[p] # {} /\ exclusive[p] => exclusive'[p]
  BY <1>2, Zenon
<1>6. x => exclusive'[p]
  BY <1>2, Zenon
<1>7. UsedHeld'
  <2> SUFFICES ASSUME NEW u \in Txns, NEW w \in used'[u]
               PROVE  u \in holders'[w.pid] /\ (w.x => exclusive'[w.pid])
    BY DEF UsedHeld
  <2>1. w \in used[u] \/ (u = t /\ w = want[t])
    BY <1>0 DEF IInv, TypeOK
  <2>2. CASE w \in used[u]
    <3>1. w.pid \in Pages /\ u \in holders[w.pid] /\ (w.x => exclusive[w.pid])
      BY <2>2 DEF IInv, TypeOK, UsedHeld, Wants
    <3> QED
      BY <1>1, <1>2, <1>5, <3>1
  <2>3. CASE u = t /\ w = want[t]
    BY <1>2, <1>6, <2>3 DEF p, x
  <2> QED
    BY <2>1, <2>2, <2>3
<1> QED
  BY <1>4, <1>7

LEMMA GrantKeeps ==
    ASSUME IInv, NEW t \in Txns, acquireGranted(t)
    PROVE  IInv'
<1> USE LockAssumption
<1>1. TypeOK'
  <2>1. /\ holders' \in [Pages -> SUBSET Txns] /\ exclusive' \in [Pages -> BOOLEAN]
    BY DEF IInv, TypeOK, acquireGranted, tryAcquire, Wants
  <2>2. /\ waitingFor' \in [Txns -> Pages \cup {NoPage}]
        /\ status' \in [Txns -> Statuses] /\ want' \in [Txns -> Wants \cup {NoWant}]
    BY DEF IInv, TypeOK, acquireGranted, Statuses
  <2>3. used' \in [Txns -> SUBSET Wants]
    BY DEF IInv, TypeOK, acquireGranted
  <2>4. \A u \in Txns : want'[u] \in Wants <=> status'[u] = "acquiring"
    BY DEF IInv, TypeOK, acquireGranted, Wants, NoWant
  <2> QED
    BY <2>1, <2>2, <2>3, <2>4 DEF IInv, TypeOK, acquireGranted
<1>2. ProbedUnused'
  <2>1. want[t].pid \in Pages
    BY DEF IInv, TypeOK, acquireGranted, Wants
  <2> QED
    BY <2>1 DEF IInv, ProbedUnused, acquireGranted, TypeOK
<1>3. WaitersAcquire'
  BY DEF IInv, WaitersAcquire, acquireGranted, TypeOK
<1> QED
  BY <1>1, <1>2, <1>3, GrantKeepsLocks, GrantMakesNoCycle DEF IInv

\* A wait that is slept on, and an exception that leaves acquire.
LEMMA WaitKeeps ==
    ASSUME IInv, NEW t \in Txns, acquireWaits(t)
    PROVE  IInv'
<1>1. TypeOK'
  BY DEF IInv, TypeOK, acquireWaits, Waiting, locks, thread, Wants
<1>2. ExclusiveAlone' /\ UsedHeld' /\ ProbedUnused'
  BY DEF IInv, ExclusiveAlone, UsedHeld, ProbedUnused, acquireWaits, locks, thread
<1>3. WaitersAcquire'
  BY DEF IInv, WaitersAcquire, acquireWaits, Waiting, TypeOK, thread
<1>4. NoWaitCycle'
  BY WaitMakesNoCycle DEF IInv, acquireWaits, locks
<1> QED
  BY <1>1, <1>2, <1>3, <1>4 DEF IInv

LEMMA AbortedKeeps ==
    ASSUME IInv, NEW t \in Txns, Aborted(t)
    PROVE  IInv'
<1> USE LockAssumption
<1>1. TypeOK'
  <2>1. /\ waitingFor' \in [Txns -> Pages \cup {NoPage}]
        /\ status' \in [Txns -> Statuses] /\ want' \in [Txns -> Wants \cup {NoWant}]
    BY DEF IInv, TypeOK, Aborted, Statuses
  <2>2. \A u \in Txns : want'[u] \in Wants <=> status'[u] = "acquiring"
    BY DEF IInv, TypeOK, Aborted, Wants, NoWant
  <2> QED
    BY <2>1, <2>2 DEF IInv, TypeOK, Aborted, locks
<1>2. ExclusiveAlone' /\ UsedHeld' /\ ProbedUnused'
  BY DEF IInv, ExclusiveAlone, UsedHeld, ProbedUnused, Aborted, locks
<1>3. WaitersAcquire'
  BY DEF IInv, WaitersAcquire, Aborted, TypeOK
<1>4. NoWaitCycle'
  BY FewerEdges DEF IInv, TypeOK, waitEdges, Aborted, locks
<1> QED
  BY <1>1, <1>2, <1>3, <1>4 DEF IInv

\* Giving locks back leaves no page exclusively locked by nobody.
LEMMA ReleaseKeeps ==
    ASSUME IInv, NEW t \in Txns, release(t)
    PROVE  IInv'
<1> DEFINE p == probed[t]
<1>0. /\ p \in Pages
      /\ holders' = [holders EXCEPT ![p] = holders[p] \ {t}]
      /\ exclusive' = [exclusive EXCEPT ![p] = @ /\ holders[p] \ {t} # {}]
      /\ probed' = [probed EXCEPT ![t] = NoPage]
      /\ UNCHANGED <<waitingFor, status, want, used, requests, stopping>>
  BY DEF IInv, TypeOK, release
<1> HIDE DEF p
<1>1. /\ \A q \in Pages \ {p} : holders'[q] = holders[q] /\ exclusive'[q] = exclusive[q]
      /\ holders'[p] = holders[p] \ {t}
      /\ exclusive'[p] = (exclusive[p] /\ holders[p] \ {t} # {})
  BY <1>0 DEF IInv, TypeOK
<1>2. TypeOK'
  BY <1>0 DEF IInv, TypeOK
<1>3. ExclusiveAlone'
  BY <1>1, Zenon DEF IInv, ExclusiveAlone
<1>4. UsedHeld'
  <2> SUFFICES ASSUME NEW u \in Txns, NEW w \in used[u]
               PROVE  u \in holders'[w.pid] /\ (w.x => exclusive'[w.pid])
    BY <1>0 DEF UsedHeld
  <2>1. w.pid \in Pages /\ u \in holders[w.pid] /\ (w.x => exclusive[w.pid])
    BY DEF IInv, TypeOK, UsedHeld, Wants
  <2>2. CASE w.pid # p
    BY <1>1, <2>1, <2>2
  <2>3. CASE w.pid = p
    <3>1. u # t
      BY <2>3 DEF IInv, ProbedUnused, p
    <3> QED
      BY <1>1, <2>1, <2>3, <3>1, Zenon
  <2> QED
    BY <2>2, <2>3
<1>5. ProbedUnused'
  <2>1. \A u \in Txns : \A w \in used[u] : w.pid \in Pages
    BY DEF IInv, TypeOK, Wants
  <2> QED
    BY <1>0, <2>1, LockAssumption DEF IInv, ProbedUnused, TypeOK
<1>6. WaitersAcquire'
  BY <1>0 DEF IInv, WaitersAcquire
<1>7. NoWaitCycle'
  <2>1. \A q \in Pages : holders'[q] \subseteq holders[q]
    BY <1>1
  <2> QED
    BY <1>0, <2>1, FewerEdges DEF IInv, TypeOK, waitEdges
<1> QED
  BY <1>2, <1>3, <1>4, <1>5, <1>6, <1>7 DEF IInv

LEMMA ReleaseAllKeeps ==
    ASSUME IInv, NEW t \in Txns, releaseAll(t)
    PROVE  IInv'
<1> USE LockAssumption
<1>1. TypeOK'
  <2>1. \A u \in Txns : want'[u] \in Wants <=> status'[u] = "acquiring"
    BY DEF IInv, TypeOK, releaseAll
  <2> QED
    BY <2>1 DEF IInv, TypeOK, releaseAll, Statuses
<1>2. ExclusiveAlone'
  <2> SUFFICES ASSUME NEW p \in Pages, exclusive'[p]
               PROVE  \E u \in Txns : holders'[p] = {u}
    BY DEF ExclusiveAlone
  <2>1. exclusive[p] /\ holders[p] # {t} /\ holders'[p] = holders[p] \ {t}
    BY Zenon DEF releaseAll
  <2>2. PICK u \in Txns : holders[p] = {u}
    BY <2>1 DEF IInv, ExclusiveAlone
  <2> QED
    BY <2>1, <2>2
<1>3. UsedHeld'
  <2> SUFFICES ASSUME NEW u \in Txns, NEW w \in used'[u]
               PROVE  u \in holders'[w.pid] /\ (w.x => exclusive'[w.pid])
    BY DEF UsedHeld
  <2>1. u # t /\ w \in used[u]
    BY DEF IInv, TypeOK, releaseAll
  <2>2. w.pid \in Pages /\ u \in holders[w.pid] /\ (w.x => exclusive[w.pid])
    BY <2>1 DEF IInv, TypeOK, UsedHeld, Wants
  <2> QED
    BY <2>1, <2>2, Zenon DEF releaseAll
<1>4. ProbedUnused'
  <2>1. \A u \in Txns : \A w \in used[u] : w.pid \in Pages
    BY DEF IInv, TypeOK, Wants
  <2> QED
    BY <2>1 DEF IInv, ProbedUnused, TypeOK, releaseAll
<1>5. WaitersAcquire'
  BY DEF IInv, WaitersAcquire, TypeOK, releaseAll
<1>6. NoWaitCycle'
  BY FewerEdges DEF IInv, TypeOK, waitEdges, releaseAll
<1> QED
  BY <1>1, <1>2, <1>3, <1>4, <1>5, <1>6 DEF IInv

----------------------------------------------------------------------------
LEMMA InitIInv == Init => IInv
<1> SUFFICES ASSUME Init PROVE IInv
  OBVIOUS
<1> USE LockAssumption
<1>1. TypeOK
  <2>1. NoWant \notin Wants
    BY DEF NoWant, Wants
  <2>2. requests \in [Txns -> Nat] /\ \A t \in Txns : requests[t] <= MaxRequests[t]
    BY DEF Init
  <2> QED
    BY <2>1, <2>2, Zenon DEF Init, TypeOK, Statuses
<1>2. ExclusiveAlone /\ UsedHeld /\ ProbedUnused /\ WaitersAcquire
  BY DEF Init, ExclusiveAlone, UsedHeld, ProbedUnused, WaitersAcquire
<1>3. NoWaitCycle
  BY DEF Init, NoWaitCycle, waitEdges
<1> QED
  BY <1>1, <1>2, <1>3 DEF IInv

LEMMA NextIInv == IInv /\ [Next]_vars => IInv'
<1> SUFFICES ASSUME IInv, [Next]_vars PROVE IInv'
  OBVIOUS
<1>1. ASSUME NEW t \in Txns, NEW w \in Wants, getPage(t, w) PROVE IInv'
  <2>1. \A a \in used[t] : a.pid # NoPage
    BY LockAssumption DEF IInv, TypeOK, Wants
  <2> QED
    BY <1>1, <2>1, CallKeeps, Zenon DEF getPage
<1>2. ASSUME NEW t \in Txns, NEW p \in Pages, insertProbe(t, p) PROVE IInv'
  <2>1. [pid |-> p, x |-> FALSE] \in Wants
    BY DEF Wants
  <2>2. \A a \in used[t] : a.pid # p
    BY <1>2 DEF IInv, UsedHeld, insertProbe, heldBefore
  <2> QED
    BY <1>2, <2>1, <2>2, CallKeeps, Zenon DEF insertProbe
<1>3. ASSUME NEW t \in Txns, Acquire(t) PROVE IInv'
  BY <1>3, GrantKeeps, WaitKeeps, AbortedKeeps
     DEF Acquire, acquireDeadlocked, acquireInterrupted
<1>4. ASSUME NEW t \in Txns, release(t) \/ releaseAll(t) PROVE IInv'
  BY <1>4, ReleaseKeeps, ReleaseAllKeeps
<1>5. CASE shutdownNow \/ UNCHANGED vars
  <2>1. /\ UNCHANGED <<holders, exclusive, waitingFor, status, want, probed, used, requests>>
        /\ stopping' \in BOOLEAN
    BY <1>5, Zenon DEF IInv, TypeOK, shutdownNow, vars, locks, thread
  <2>2. TypeOK'
    BY <2>1 DEF IInv, TypeOK
  <2>3. ExclusiveAlone' /\ UsedHeld' /\ ProbedUnused' /\ WaitersAcquire'
    BY <2>1 DEF IInv, ExclusiveAlone, UsedHeld, ProbedUnused, WaitersAcquire
  <2>4. NoWaitCycle'
    BY <2>1, FewerEdges DEF IInv, waitEdges
  <2> QED
    BY <2>2, <2>3, <2>4 DEF IInv
<1> QED
  BY <1>1, <1>2, <1>3, <1>4, <1>5 DEF Next, Finished

THEOREM Inductive == Spec => []IInv
BY InitIInv, NextIInv, PTL DEF Spec

\* No two transactions under way have used the same page if one wrote to it.
THEOREM Isolation == Spec => []Isolated
<1>1. IInv => Isolated
  BY DEF IInv, TypeOK, UsedHeld, ExclusiveAlone, Isolated, Wants
<1> QED
  BY <1>1, Inductive, PTL

\* acquire never leaves transactions waiting for each other in a circle.
THEOREM DeadlockFree == Spec => []NoWaitCycle
<1>1. IInv => NoWaitCycle
  BY DEF IInv
<1> QED
  BY <1>1, Inductive, PTL

\* Every victim of deadlock detection holds a lock somebody else waits for.
THEOREM UsefulVictim == Spec => VictimBlocksAnother
<1> DEFINE Useful == \A t \in Txns : acquireDeadlocked(t) =>
                        \E u \in Txns \ {t} : t \in waitEdges(waitingFor, u)
<1>1. IInv /\ [Next]_vars => [Useful]_vars
  <2> SUFFICES ASSUME IInv, NEW t \in Txns, acquireDeadlocked(t),
                      \A u \in Txns \ {t} : t \notin waitEdges(waitingFor, u)
               PROVE  FALSE
    OBVIOUS
  <2>1. \A u \in Txns : waitEdges(Waiting(t), u) \subseteq Txns \ {t}
    <3>1. waitEdges(Waiting(t), t) \subseteq Txns \ {t}
      <4>1. Waiting(t)[t] = NoPage \/ Waiting(t)[t] \in Pages
        BY DEF IInv, TypeOK, Waiting, Wants, NoWant
      <4> QED
        BY <4>1 DEF IInv, TypeOK, waitEdges
    <3>2. \A u \in Txns \ {t} : waitEdges(Waiting(t), u) = waitEdges(waitingFor, u)
      BY DEF IInv, TypeOK, waitEdges, Waiting
    <3>3. \A u \in Txns : waitEdges(waitingFor, u) \subseteq Txns
      BY DEF IInv, TypeOK, waitEdges
    <3> QED
      BY <3>1, <3>2, <3>3
  <2> QED
    BY <2>1, Zenon DEF acquireDeadlocked, hasDeadlock
<1> QED
  BY <1>1, Inductive, PTL DEF Spec, VictimBlocksAnother
=============================================================================
