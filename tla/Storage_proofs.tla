--------------------------- MODULE Storage_proofs ---------------------------
(***************************************************************************)
(* Theorems about Storage, for any number of sessions, pages, transactions *)
(* and failures.                                                           *)
(***************************************************************************)
EXTENDS StorageProps, TLAPS

\* A leaf is for Zenon, unless it names another prover.
USE ZenonT(40)

-----------------------------------------------------------------------------
(* What the steps of Storage do to sessions, locks, pool, flush and log,   *)
(* and that they keep the parts of the inductive invariant about these.    *)

\* What appending a record does to the update records of a page.
LEMMA AppendUpdates ==
    ASSUME NEW l \in Seq(Records), NEW r \in Records, NEW p \in Pages
    PROVE  /\ \A i \in 1..Len(l) : Append(l, r)[i] = l[i]
           /\ Append(l, r)[Len(l) + 1] = r
           /\ Updates(l, p) \subseteq 1..Len(l)
           /\ Updates(Append(l, r), p) = IF r.type = "UPDATE" /\ r.page = p
                                         THEN Updates(l, p) \cup {Len(l) + 1}
                                         ELSE Updates(l, p)
<1> DEFINE m == Append(l, r)
<1>1. /\ m \in Seq(Records) /\ Len(m) = Len(l) + 1 /\ Len(l) \in Nat
      /\ \A i \in 1..Len(l) : m[i] = l[i]
      /\ m[Len(l) + 1] = r
  BY SMT
<1>2. Updates(l, p) \subseteq 1..Len(l)
  BY DEF Updates
<1>3. 1..Len(m) = 1..Len(l) \cup {Len(l) + 1} /\ Len(l) + 1 \notin 1..Len(l)
  BY <1>1, SMT
<1> HIDE DEF m
<1>4. ~(r.type = "UPDATE" /\ r.page = p) => Updates(m, p) = Updates(l, p)
  BY <1>1, <1>3 DEF Updates
<1>5. r.type = "UPDATE" /\ r.page = p => Updates(m, p) = Updates(l, p) \cup {Len(l) + 1}
  BY <1>1, <1>3 DEF Updates
<1> QED
  BY <1>1, <1>2, <1>4, <1>5 DEF m

\* And to those of one transaction.
LEMMA AppendUpdatesBy ==
    ASSUME NEW l \in Seq(Records), NEW r \in Records, NEW t, NEW p \in Pages
    PROVE  UpdatesBy(Append(l, r), t, p) =
             IF r.type = "UPDATE" /\ r.page = p /\ r.tid = t
             THEN UpdatesBy(l, t, p) \cup {Len(l) + 1}
             ELSE UpdatesBy(l, t, p)
<1> DEFINE m == Append(l, r)
<1>1. /\ \A i \in 1..Len(l) : m[i] = l[i]
      /\ m[Len(l) + 1] = r
      /\ Updates(l, p) \subseteq 1..Len(l)
  BY AppendUpdates
<1>2. Updates(m, p) = IF r.type = "UPDATE" /\ r.page = p
                      THEN Updates(l, p) \cup {Len(l) + 1} ELSE Updates(l, p)
  BY AppendUpdates, SMT
<1> HIDE DEF m
<1>3. UpdatesBy(m, t, p) = IF r.type = "UPDATE" /\ r.page = p /\ r.tid = t
                           THEN UpdatesBy(l, t, p) \cup {Len(l) + 1} ELSE UpdatesBy(l, t, p)
  BY <1>1, <1>2 DEF UpdatesBy
<1> QED BY <1>3 DEF m

\* A step is one of these.
LEMMA StepCases ==
    ASSUME [Next]_vars
    PROVE  \/ UNCHANGED vars \/ Start \/ Crash
           \/ \E h \in Hooks : flushAllPages(h) \/ hookDone(h)
           \/ \E p \in Pages : logWrite(p) \/ writePage(p)
           \/ \E s \in Sessions :
                \/ Begin(s) \/ markDirty(s) \/ flushPages(s) \/ writeFails(s)
                \/ releaseAll(s) \/ logCommit(s) \/ logAbort(s) \/ discardPages(s)
                \/ \E p \in Pages : getPage(s, p) \/ getPageFails(s, p)
  BY DEF Next, Finished

\* What the constructors build.
LEMMA Shapes ==
    /\ \A pc \in OpenPcs \cup {"idle", "logging", "discarding"} :
       \A t \in Txns \cup {None} : \A p \in Pages \cup {Nobody} : \A c \in PageStates :
         At(pc, t, p, c) \in SessionStates
    /\ \A v \in SUBSET Txns : \A d \in Txns \cup {None} : \A b \in SUBSET Txns :
         Page(v, d, b) \in PageStates
    /\ Absent \in PageStates
    /\ Idle \in SessionStates
<1>1. Absent \in PageStates
  BY DEF Absent, PageStates
<1>2. \A v \in SUBSET Txns : \A d \in Txns \cup {None} : \A b \in SUBSET Txns :
         Page(v, d, b) \in PageStates
  BY DEF Page, PageStates
<1>3. \A pc \in OpenPcs \cup {"idle", "logging", "discarding"} :
      \A t \in Txns \cup {None} : \A p \in Pages \cup {Nobody} : \A c \in PageStates :
         At(pc, t, p, c) \in SessionStates
  BY DEF At, SessionStates
<1>4. Idle \in SessionStates
  BY <1>1, <1>3 DEF Idle
<1> QED BY <1>1, <1>2, <1>3, <1>4

\* The values of the variables are of their types.
LEMMA TypeNext ==
    ASSUME IInv, [Next]_vars
    PROVE  TypeOK'
<1> USE StorageAssumption DEF TypeOK
<1>t. TypeOK
  BY DEF IInv
<1>s. \A s \in Sessions : session[s].pc # "idle" =>
        session[s].txn \in Txns /\ session[s].txn \in DOMAIN outcome
  BY <1>t, SMT DEF IInv, SessionsRun, Begun, Txns
<1>g. ASSUME NEW s \in Sessions, NEW pc \in OpenPcs \cup {"idle", "logging", "discarding"},
             Goto(s, pc)
      PROVE  session' \in [Sessions -> SessionStates]
  <2>1. session[s].txn \in Txns \cup {None}
    BY <1>t DEF SessionStates
  <2>2. At(pc, session[s].txn, Nobody, Absent) \in SessionStates
    BY <2>1, Shapes
  <2> QED BY <1>t, <1>g, <2>2 DEF Goto
<1>f. \A b \in Sessions \cup Hooks \cup {Nobody} : \A P \in SUBSET Pages :
      \A p \in Pages \cup {Nobody} :
        Flush(b, P, p) \in [by : Sessions \cup Hooks \cup {Nobody}, todo : SUBSET Pages,
                            logged : Pages \cup {Nobody}]
  BY DEF Flush
<1>n. NoFlush \in [by : Sessions \cup Hooks \cup {Nobody}, todo : SUBSET Pages,
                   logged : Pages \cup {Nobody}]
  BY <1>f DEF NoFlush
<1>p. \A p \in Pages : /\ pool[p].val \in SUBSET Txns /\ pool[p].before \in SUBSET Txns
                       /\ pool[p].dirty \in Txns \cup {None}
  BY <1>t DEF PageStates
<1>1. CASE UNCHANGED vars
  BY <1>t, <1>1 DEF vars
<1>2. CASE Start
  <2>1. log' = <<>>
    BY <1>2 DEF Start, preAppend
  <2>2. \A p \in Pages : Updates(<<>>, p) = {}
    BY SMT DEF Updates
  <2>3. recover(<<>>, disk) = [p \in Pages |-> disk[p]]
    BY <2>2 DEF recover
  <2>4. disk' \in [Pages -> SUBSET Txns]
    BY <1>t, <1>2, <2>1, <2>3 DEF Start
  <2>5. <<>> \in Seq(Records)
    BY SMT
  <2> QED BY <1>t, <1>2, <2>1, <2>4, <2>5 DEF Start
<1>3. CASE Crash
  <2>1. outcome' \in Seq({"active", "committed", "aborted", "lost"}) /\ Len(outcome') <= MaxTxns
    <3>1. outcome' \in [1..Len(outcome) -> {"active", "committed", "aborted", "lost"}]
      BY <1>t, <1>3, SMT DEF Crash
    <3>2. Len(outcome) \in Nat /\ Len(outcome) <= MaxTxns
      BY <1>t, SMT
    <3> QED BY <3>1, <3>2, SMT
  <2> QED BY <1>t, <1>3, <1>n, <2>1, Shapes DEF Crash
<1>4. ASSUME NEW h \in Hooks, flushAllPages(h) \/ hookDone(h)
      PROVE  TypeOK'
  <2>1. InPool \ DirtiedBy(None) \in SUBSET Pages
    BY DEF InPool
  <2>2. flush' \in [by : Sessions \cup Hooks \cup {Nobody}, todo : SUBSET Pages,
                    logged : Pages \cup {Nobody}]
    BY <1>4, <1>f, <1>n, <2>1, SMT DEF flushAllPages, hookDone
  <2> QED BY <1>t, <1>4, <2>2 DEF flushAllPages, hookDone
<1>5. ASSUME NEW p \in Pages, logWrite(p)
      PROVE  TypeOK'
  <2>1. pool[p].dirty \in Txns
    BY <1>p, <1>5 DEF logWrite, IInv, FlushHolds
  <2>2. Record("UPDATE", pool[p].dirty, p, pool[p].before, pool[p].val) \in Records
    BY <1>p, <2>1 DEF Record, Records
  <2>3. log' \in Seq(Records)
    BY <1>t, <1>5, <2>2, SMT DEF logWrite
  <2>4. flush.by \in Sessions \cup Hooks \cup {Nobody} /\ flush.todo \in SUBSET Pages
    BY <1>t
  <2> QED BY <1>t, <1>5, <1>f, <2>3, <2>4 DEF logWrite
<1>6. ASSUME NEW p \in Pages, writePage(p)
      PROVE  TypeOK'
  <2>1. pool' \in [Pages -> PageStates] /\ disk' \in [Pages -> SUBSET Txns]
    BY <1>t, <1>p, <1>6, Shapes DEF writePage
  <2>2. flush.by \in Sessions \cup Hooks \cup {Nobody} /\ flush.todo \in SUBSET Pages
    BY <1>t
  <2> QED BY <1>t, <1>6, <1>f, <2>1, <2>2 DEF writePage
<1>7. ASSUME NEW s \in Sessions, Begin(s)
      PROVE  TypeOK'
  <2>1. Len(outcome) + 1 \in Txns
    BY <1>t, <1>7, SMT DEF Begin, Txns
  <2>2. session' \in [Sessions -> SessionStates]
    BY <1>t, <1>7, <2>1, Shapes DEF Begin, OpenPcs
  <2> QED BY <1>t, <1>7, <2>2, SMT DEF Begin
<1>8. ASSUME NEW s \in Sessions, markDirty(s)
      PROVE  TypeOK'
  <2>1. session[s].pc = "changing" /\ session[s].page \in Pages /\ session[s].txn \in Txns
    BY <1>s, <1>8 DEF markDirty, IInv, LocksHold
  <2>2. /\ session[s].copy.val \in SUBSET Txns /\ session[s].copy.before \in SUBSET Txns
    BY <1>t DEF SessionStates, PageStates
  <2>3. Page(session[s].copy.val \cup {session[s].txn}, session[s].txn,
             session[s].copy.before) \in PageStates
    BY <2>1, <2>2, Shapes
  <2>4. pool' \in [Pages -> PageStates] /\ wrote' \in [Txns -> SUBSET Pages]
    BY <1>t, <1>8, <2>1, <2>3 DEF markDirty
  <2>5. session' \in [Sessions -> SessionStates]
    BY <1>8, <1>g DEF markDirty, OpenPcs
  <2> QED BY <1>t, <1>8, <2>4, <2>5 DEF markDirty
<1>9. ASSUME NEW s \in Sessions, flushPages(s) \/ writeFails(s)
      PROVE  TypeOK'
  <2>1. session' \in [Sessions -> SessionStates]
    BY <1>9, <1>g DEF flushPages, writeFails, OpenPcs
  <2>2. DirtiedBy(session[s].txn) \in SUBSET Pages
    BY DEF DirtiedBy, InPool
  <2>3. flush' \in [by : Sessions \cup Hooks \cup {Nobody}, todo : SUBSET Pages,
                    logged : Pages \cup {Nobody}]
    BY <1>9, <1>f, <1>n, <2>2, SMT DEF flushPages, writeFails
  <2> QED BY <1>t, <1>9, <2>1, <2>3 DEF flushPages, writeFails
<1>a. ASSUME NEW s \in Sessions, releaseAll(s)
      PROVE  TypeOK'
  <2>1. session' \in [Sessions -> SessionStates]
    BY <1>a, <1>g DEF releaseAll
  <2>2. pool' \in [Pages -> PageStates]
    BY <1>t, <1>a, <1>p, Shapes DEF releaseAll
  <2> QED BY <1>t, <1>a, <1>n, <2>1, <2>2 DEF releaseAll
<1>b. ASSUME NEW s \in Sessions, logCommit(s)
      PROVE  TypeOK'
  <2>1. session[s].txn \in Txns /\ session[s].txn \in DOMAIN outcome
    BY <1>b, <1>s DEF logCommit
  <2>2. Mark("COMMIT", session[s].txn) \in Records
    BY <2>1 DEF Mark, Record, Records
  <2>3. session' \in [Sessions -> SessionStates] /\ log' \in Seq(Records)
    BY <1>t, <1>b, <2>2, Shapes, SMT DEF logCommit
  <2>4. outcome' \in Seq({"active", "committed", "aborted", "lost"}) /\ Len(outcome') <= MaxTxns
    BY <1>t, <1>b, <2>1, SMT DEF logCommit
  <2> QED BY <1>t, <1>b, <2>3, <2>4 DEF logCommit
<1>c. ASSUME NEW s \in Sessions, logAbort(s)
      PROVE  TypeOK'
  <2>1. session[s].txn \in Txns
    BY <1>c, <1>s DEF logAbort
  <2>2. Mark("ABORT", session[s].txn) \in Records
    BY <2>1 DEF Mark, Record, Records
  <2>3. session' \in [Sessions -> SessionStates]
    BY <1>c, <1>g DEF logAbort
  <2>4. log' \in Seq(Records) /\ pool' \in [Pages -> PageStates]
    BY <1>t, <1>c, <2>2, Shapes, SMT DEF logAbort
  <2>5. rollback(session[s].txn) \in [Pages -> SUBSET Txns]
    <3> SUFFICES ASSUME NEW p \in Pages, UpdatesBy(log, session[s].txn, p) # {}
                 PROVE  log[Earliest(UpdatesBy(log, session[s].txn, p))].before \in SUBSET Txns
      BY <1>t DEF rollback
    <3> DEFINE is == UpdatesBy(log, session[s].txn, p)
    <3>1. LogHolds /\ session[s].txn \in Ended("active")
      BY <1>c DEF logAbort, IInv, SessionsRun, Ended
    <3>2. PICK i \in is : \A j \in is : i <= j
      BY <3>1 DEF LogHolds, Undoes
    <3>3. Earliest(is) \in is
      BY <3>2 DEF Earliest
    <3>4. Earliest(is) \in 1..Len(log)
      BY <3>3 DEF UpdatesBy, Updates
    <3>5. log[Earliest(is)] \in Records
      BY <1>t, <3>4, SMT
    <3> QED BY <3>5 DEF Records
  <2> QED BY <1>t, <1>c, <2>3, <2>4, <2>5 DEF logAbort
<1>d. ASSUME NEW s \in Sessions, discardPages(s)
      PROVE  TypeOK'
  <2>1. session[s].txn \in DOMAIN outcome
    BY <1>d, <1>s DEF discardPages
  <2>2. session' \in [Sessions -> SessionStates]
    BY <1>t, <1>d, Shapes DEF discardPages
  <2>3. pool' \in [Pages -> PageStates] /\ owner' \in [Pages -> Sessions \cup {Nobody}]
    BY <1>t, <1>d, Shapes DEF discardPages
  <2> QED BY <1>t, <1>d, <2>1, <2>2, <2>3, SMT DEF discardPages
<1>e. ASSUME NEW s \in Sessions, NEW p \in Pages, getPage(s, p)
      PROVE  TypeOK'
  <2>1. Loaded(p) \in PageStates
    BY <1>t, Shapes DEF Loaded
  <2>2. session[s].txn \in Txns
    BY <1>e, <1>s DEF getPage, CanLock
  <2>3. session' \in [Sessions -> SessionStates]
    BY <1>t, <1>e, <2>1, <2>2, Shapes DEF getPage, OpenPcs
  <2>4. PICK out \in Evictions(p) :
          pool' = [q \in Pages |-> IF q = p THEN Loaded(p)
                                   ELSE IF q \in out THEN Absent ELSE pool[q]]
    BY <1>e DEF getPage
  <2>5. pool' \in [Pages -> PageStates]
    BY <1>t, <2>1, <2>4, Shapes
  <2> QED BY <1>t, <1>e, <2>3, <2>5 DEF getPage
<1>h. ASSUME NEW s \in Sessions, NEW p \in Pages, getPageFails(s, p)
      PROVE  TypeOK'
  <2>1. session' \in [Sessions -> SessionStates]
    BY <1>h, <1>g DEF getPageFails, OpenPcs
  <2> QED BY <1>t, <1>h, <2>1 DEF getPageFails
<1> HIDE DEF TypeOK
<1> QED
  BY <1>1, <1>2, <1>3, <1>4, <1>5, <1>6, <1>7, <1>8, <1>9, <1>a, <1>b, <1>c, <1>d, <1>e,
     <1>h, StepCases

----------------------------------------------------------------------------
(* Which transactions are open, and who runs them.                         *)

\* The step begins and ends no transaction.
SameRuns ==
    /\ UNCHANGED outcome
    /\ \A r \in Sessions :
         /\ session'[r].txn = session[r].txn
         /\ session[r].pc = "idle" => session'[r] = session[r]
         /\ session[r].pc # "idle" => session'[r].pc # "idle"

\* The step ends the transaction of session s.
EndsRun(s, o) ==
    /\ session[s].pc # "idle"
    /\ session' = [session EXCEPT ![s] = Idle]
    /\ outcome' = [outcome EXCEPT ![session[s].txn] = o]

\* Only Begin, the end of a commit or of an abort and a crash change which
\* transactions run.
LEMMA RunCases ==
    ASSUME IInv, [Next]_vars
    PROVE  \/ SameRuns \/ Crash
           \/ \E s \in Sessions : Begin(s)
           \/ \E s \in Sessions : logCommit(s) /\ EndsRun(s, "committed")
           \/ \E s \in Sessions : discardPages(s) /\ EndsRun(s, "aborted")
<1>t. session \in [Sessions -> SessionStates]
  BY DEF IInv, TypeOK
<1>u. UNCHANGED <<session, outcome>> => SameRuns
  BY DEF SameRuns
<1>g. ASSUME NEW s \in Sessions, NEW pc, pc # "idle", session[s].pc # "idle",
             Goto(s, pc), UNCHANGED outcome
      PROVE  SameRuns
  BY <1>t, <1>g DEF SameRuns, Goto, At
<1>1. ASSUME NEW s \in Sessions,
             markDirty(s) \/ flushPages(s) \/ writeFails(s) \/ releaseAll(s) \/ logAbort(s)
      PROVE  SameRuns
  <2>1. session[s].pc # "idle"
    <3>1. writeFails(s) \/ releaseAll(s) => flush.by = s
      BY DEF writeFails, releaseAll
    <3>2. flush.by = s => session[s].pc = "flushing"
      BY DEF IInv, FlushHolds
    <3> QED BY <1>1, <3>1, <3>2 DEF markDirty, flushPages, logAbort
  <2> QED BY <1>1, <1>g, <2>1 DEF markDirty, flushPages, writeFails, releaseAll, logAbort
<1>2. ASSUME NEW s \in Sessions, NEW p \in Pages, getPage(s, p) \/ getPageFails(s, p)
      PROVE  SameRuns
  <2>1. CASE getPage(s, p)
    BY <1>t, <2>1 DEF SameRuns, getPage, CanLock, At
  <2>2. CASE getPageFails(s, p)
    BY <1>g, <2>2 DEF getPageFails, CanLock
  <2> QED BY <1>2, <2>1, <2>2
<1>3. ASSUME NEW s \in Sessions, logCommit(s)
      PROVE  EndsRun(s, "committed")
  BY <1>3 DEF logCommit, EndsRun
<1>4. ASSUME NEW s \in Sessions, discardPages(s)
      PROVE  EndsRun(s, "aborted")
  BY <1>4 DEF discardPages, EndsRun
<1>5. UNCHANGED vars \/ Start => SameRuns
  BY <1>u DEF vars, Start
<1>6. ASSUME NEW h \in Hooks, flushAllPages(h) \/ hookDone(h)
      PROVE  SameRuns
  BY <1>u, <1>6 DEF flushAllPages, hookDone
<1>7. ASSUME NEW p \in Pages, logWrite(p) \/ writePage(p)
      PROVE  SameRuns
  BY <1>u, <1>7 DEF logWrite, writePage
<1> QED
  BY <1>1, <1>2, <1>3, <1>4, <1>5, <1>6, <1>7, StepCases

\* A step keeps SessionsRun.
LEMMA SessionsNext ==
    ASSUME IInv, [Next]_vars
    PROVE  SessionsRun'
<1>t. TypeOK /\ TypeOK' /\ SessionsRun
  BY TypeNext DEF IInv
<1>1. CASE SameRuns
  BY <1>t, <1>1, SMT DEF SameRuns, SessionsRun, Begun, Ended, Runs
<1>2. CASE Crash
  <2>1. \A s \in Sessions : session'[s] = Idle /\ session'[s].pc = "idle"
    BY <1>2 DEF Crash, Idle, At
  <2>2. \A t \in DOMAIN outcome' : outcome'[t] # "active"
    BY <1>2 DEF Crash
  <2> QED BY <2>1, <2>2 DEF SessionsRun, Begun, Ended, Runs
<1>3. ASSUME NEW s \in Sessions, Begin(s)
      PROVE  SessionsRun'
  <2>1. /\ Len(outcome') = Len(outcome) + 1 /\ Len(outcome) \in Nat
        /\ DOMAIN outcome = 1..Len(outcome) /\ DOMAIN outcome' = 1..Len(outcome')
        /\ \A t \in 1..Len(outcome) : outcome'[t] = outcome[t]
        /\ outcome'[Len(outcome) + 1] = "active"
    BY <1>t, <1>3, SMT DEF Begin, TypeOK
  <2>2. /\ session[s].pc = "idle"
        /\ session'[s].pc = "active" /\ session'[s].txn = Len(outcome) + 1
        /\ \A r \in Sessions \ {s} : session'[r] = session[r]
    BY <1>t, <1>3, SMT DEF Begin, TypeOK, Idle, At
  <2>3. \A r \in Sessions : session'[r].pc # "idle" =>
           session'[r].txn \in Begun' /\ outcome'[session'[r].txn] = "active"
    BY <1>t, <2>1, <2>2, SMT DEF SessionsRun, Begun
  <2>4. \A r \in Sessions : session'[r].pc = "idle" => session'[r] = Idle
    BY <1>t, <2>2 DEF SessionsRun
  <2>5. \A q, r \in Sessions : \A t \in Txns : Runs(q, t)' /\ Runs(r, t)' => q = r
    BY <1>t, <2>1, <2>2, SMT DEF SessionsRun, Runs, Begun
  <2>6. \A t \in Ended("active")' : \E r \in Sessions : Runs(r, t)'
    <3> TAKE t \in Ended("active")'
    <3>1. CASE t = Len(outcome) + 1
      BY <2>2, <3>1 DEF Runs
    <3>2. CASE t # Len(outcome) + 1
      <4>1. t \in Ended("active")
        BY <2>1, <3>2, SMT DEF Ended, Begun
      <4>2. PICK r \in Sessions : Runs(r, t)
        BY <1>t, <4>1 DEF SessionsRun
      <4> QED BY <2>2, <4>2 DEF Runs
    <3> QED BY <3>1, <3>2
  <2> QED BY <2>3, <2>4, <2>5, <2>6 DEF SessionsRun
<1>4. ASSUME NEW s \in Sessions, NEW o \in {"committed", "aborted"}, EndsRun(s, o)
      PROVE  SessionsRun'
  <2>1. /\ session[s].txn \in DOMAIN outcome
        /\ DOMAIN outcome' = DOMAIN outcome /\ DOMAIN outcome \subseteq Txns
        /\ outcome'[session[s].txn] = o
        /\ \A t \in DOMAIN outcome \ {session[s].txn} : outcome'[t] = outcome[t]
    <3>1. session[s].txn \in DOMAIN outcome
      BY <1>t, <1>4 DEF EndsRun, SessionsRun, Begun
    <3>2. DOMAIN outcome \subseteq Txns
      BY <1>t, StorageAssumption, SMT DEF TypeOK, Txns
    <3> QED BY <1>4, <3>1, <3>2 DEF EndsRun
  <2>2. /\ session'[s].pc = "idle" /\ session'[s] = Idle
        /\ \A r \in Sessions \ {s} : session'[r] = session[r]
    BY <1>t, <1>4 DEF EndsRun, TypeOK, Idle, At
  <2>3. \A r \in Sessions \ {s} : session[r].pc # "idle" => session[r].txn # session[s].txn
    BY <1>t, <1>4, <2>1 DEF SessionsRun, Runs, EndsRun
  <2>4. \A r \in Sessions : session'[r].pc # "idle" =>
           session'[r].txn \in Begun' /\ outcome'[session'[r].txn] = "active"
    BY <1>t, <2>1, <2>2, <2>3, SMT DEF SessionsRun, Begun
  <2>5. \A r \in Sessions : session'[r].pc = "idle" => session'[r] = Idle
    BY <1>t, <2>2 DEF SessionsRun
  <2>6. \A q, r \in Sessions : \A t \in Txns : Runs(q, t)' /\ Runs(r, t)' => q = r
    BY <1>t, <2>2, SMT DEF SessionsRun, Runs
  <2>7. \A t \in Ended("active")' : \E r \in Sessions : Runs(r, t)'
    <3> TAKE t \in Ended("active")'
    <3>1. t # session[s].txn /\ t \in Ended("active")
      BY <2>1 DEF Ended, Begun
    <3>2. PICK r \in Sessions : Runs(r, t)
      BY <1>t, <3>1 DEF SessionsRun
    <3> QED BY <2>2, <3>1, <3>2 DEF Runs
  <2> QED BY <2>4, <2>5, <2>6, <2>7 DEF SessionsRun
<1> QED
  BY <1>1, <1>2, <1>3, <1>4, RunCases

\* A step keeps DownHolds.
LEMMA DownNext ==
    ASSUME IInv, [Next]_vars
    PROVE  DownHolds'
<1> USE DEF DownHolds
<1>t. DownHolds /\ FlushHolds
  BY DEF IInv
<1>d. up = "down" => /\ \A s \in Sessions : session[s].pc = "idle"
                     /\ flush.by = Nobody /\ flush.todo = {} /\ flush.logged = Nobody
  BY <1>t, SMT DEF NoFlush, Flush
<1>1. CASE UNCHANGED vars
  BY <1>t, <1>1 DEF vars
<1>2. CASE Start
  BY <1>2 DEF Start
<1>3. CASE Crash
  BY <1>3 DEF Crash, Idle, At
<1>4. ASSUME NEW h \in Hooks, flushAllPages(h) \/ hookDone(h)
      PROVE  DownHolds'
  BY <1>d, <1>4, StorageAssumption DEF flushAllPages, hookDone
<1>5. ASSUME NEW p \in Pages, logWrite(p) \/ writePage(p)
      PROVE  DownHolds'
  BY <1>d, <1>5, StorageAssumption DEF logWrite, writePage
<1>6. ASSUME NEW s \in Sessions,
             \/ Begin(s) \/ markDirty(s) \/ flushPages(s) \/ writeFails(s)
             \/ releaseAll(s) \/ logCommit(s) \/ logAbort(s) \/ discardPages(s)
             \/ \E p \in Pages : getPage(s, p) \/ getPageFails(s, p)
      PROVE  DownHolds'
  <2>1. UNCHANGED up
    BY <1>6 DEF Begin, markDirty, flushPages, writeFails, releaseAll, logCommit, logAbort,
       discardPages, getPage, getPageFails
  <2>2. up # "down"
    BY <1>d, <1>6, StorageAssumption DEF Begin, markDirty, flushPages, writeFails, releaseAll,
       logCommit, logAbort, discardPages, getPage, getPageFails, CanLock
  <2> QED BY <2>1, <2>2
<1> HIDE DEF DownHolds
<1> QED
  BY <1>1, <1>2, <1>3, <1>4, <1>5, <1>6, StepCases

----------------------------------------------------------------------------
(* Locks, the pool and the flush.                                          *)

\* What a transaction that is not yet released left about a page, it has locked.
LEMMA MarkedLocked ==
    ASSUME IInv, NEW s \in Sessions, NEW p \in Pages,
           session[s].pc \notin {"idle", "logging"}, Marks(session[s].txn, p)
    PROVE  owner[p] = s
<1> DEFINE t == session[s].txn
<1>1. t \in Txns /\ t \in Begun /\ outcome[t] = "active" /\ Runs(s, t)
  BY StorageAssumption, SMT DEF IInv, SessionsRun, TypeOK, Begun, Txns, Runs
<1>2. PICK r \in Sessions : Runs(r, t) /\ (owner[p] = r \/ session[r].pc = "logging")
  BY <1>1 DEF IInv, MarksHold
<1>3. r = s
  BY <1>1, <1>2 DEF IInv, SessionsRun
<1> QED BY <1>2, <1>3

\* What is evicted before p is read: never p, and only clean pages.
LEMMA Evicted ==
    ASSUME NEW p \in Pages, NEW out \in Evictions(p)
    PROVE  \A q \in out : q # p /\ pool[q].in /\ pool[q].dirty = None
  BY DEF Evictions, DirtiedBy, InPool

\* What a step does to a page of the pool.
PoolMoves(p) ==
    \/ pool'[p] = pool[p] /\ disk'[p] = disk[p]
    \/ Crash /\ pool'[p] = Absent /\ disk'[p] = disk[p]
    \/ /\ writePage(p) /\ disk'[p] = pool[p].val
       /\ pool'[p] = Page(pool[p].val, None, pool[p].before)
    \/ \E s \in Sessions :
         \/ /\ markDirty(s) /\ session[s].page = p /\ disk'[p] = disk[p]
            /\ pool'[p] = Page(session[s].copy.val \cup {session[s].txn}, session[s].txn,
                               session[s].copy.before)
         \/ /\ releaseAll(s) /\ owner[p] = s /\ pool[p].in /\ disk'[p] = disk[p]
            /\ pool'[p] = Page(pool[p].val, pool[p].dirty, pool[p].val)
         \/ /\ logAbort(s) /\ UpdatesBy(log, session[s].txn, p) # {}
            /\ disk'[p] = log[Earliest(UpdatesBy(log, session[s].txn, p))].before
            /\ pool'[p] = Absent
         \/ discardPages(s) /\ owner[p] = s /\ pool'[p] = Absent /\ disk'[p] = disk[p]
         \/ getPage(s, p) /\ ~pool[p].in /\ pool'[p] = Page(disk[p], None, disk[p])
            /\ disk'[p] = disk[p]
    \/ /\ pool[p].in /\ pool[p].dirty = None /\ pool'[p] = Absent /\ disk'[p] = disk[p]
       /\ \E s \in Sessions, q \in Pages : q # p /\ getPage(s, q)

\* A step does one of these to every page.
LEMMA PageMoves ==
    ASSUME IInv, [Next]_vars, NEW p \in Pages
    PROVE  PoolMoves(p)
<1>t. TypeOK
  BY DEF IInv
<1>u. UNCHANGED <<pool, disk>> => PoolMoves(p)
  BY DEF PoolMoves
<1>1. CASE UNCHANGED vars
  BY <1>1, <1>u DEF vars
<1>2. CASE Start
  <2>1. log' = <<>>
    BY <1>2 DEF Start, preAppend
  <2>2. Updates(<<>>, p) = {}
    BY SMT DEF Updates
  <2>3. disk'[p] = disk[p]
    BY <1>2, <2>1, <2>2 DEF Start, recover
  <2> QED BY <1>2, <2>3 DEF Start, PoolMoves
<1>3. CASE Crash
  BY <1>3 DEF Crash, PoolMoves
<1>4. ASSUME NEW h \in Hooks, flushAllPages(h) \/ hookDone(h)
      PROVE  PoolMoves(p)
  BY <1>u, <1>4 DEF flushAllPages, hookDone
<1>5. ASSUME NEW q \in Pages, logWrite(q)
      PROVE  PoolMoves(p)
  BY <1>u, <1>5 DEF logWrite
<1>6. ASSUME NEW q \in Pages, writePage(q)
      PROVE  PoolMoves(p)
  <2>1. p # q => pool'[p] = pool[p] /\ disk'[p] = disk[p]
    BY <1>t, <1>6 DEF writePage, TypeOK
  <2>2. p = q => /\ disk'[p] = pool[p].val
                 /\ pool'[p] = Page(pool[p].val, None, pool[p].before)
    BY <1>t, <1>6 DEF writePage, TypeOK
  <2> QED BY <1>6, <2>1, <2>2 DEF PoolMoves
<1>7. ASSUME NEW s \in Sessions, Begin(s) \/ flushPages(s) \/ writeFails(s) \/ logCommit(s)
      PROVE  PoolMoves(p)
  BY <1>u, <1>7 DEF Begin, flushPages, writeFails, logCommit
<1>8. ASSUME NEW s \in Sessions, markDirty(s)
      PROVE  PoolMoves(p)
  <2>1. session[s].page # p => pool'[p] = pool[p] /\ disk'[p] = disk[p]
    BY <1>t, <1>8 DEF markDirty, TypeOK
  <2>2. session[s].page = p =>
          /\ disk'[p] = disk[p]
          /\ pool'[p] = Page(session[s].copy.val \cup {session[s].txn}, session[s].txn,
                             session[s].copy.before)
    BY <1>t, <1>8 DEF markDirty, TypeOK
  <2> QED BY <1>8, <2>1, <2>2 DEF PoolMoves
<1>9. ASSUME NEW s \in Sessions, releaseAll(s)
      PROVE  PoolMoves(p)
  <2>1. disk'[p] = disk[p]
    BY <1>9 DEF releaseAll
  <2>2. CASE p \in InPool \cap Held(s)
    <3>1. pool'[p] = Page(pool[p].val, pool[p].dirty, pool[p].val)
      BY <1>9, <2>2 DEF releaseAll
    <3> QED BY <1>9, <2>1, <2>2, <3>1 DEF PoolMoves, InPool, Held
  <2>3. CASE p \notin InPool \cap Held(s)
    BY <1>9, <2>1, <2>3 DEF releaseAll, PoolMoves
  <2> QED BY <2>2, <2>3
<1>a. ASSUME NEW s \in Sessions, logAbort(s)
      PROVE  PoolMoves(p)
  <2>1. CASE UpdatesBy(log, session[s].txn, p) = {}
    <3>1. disk'[p] = disk[p] /\ pool'[p] = pool[p]
      BY <1>a, <2>1 DEF logAbort, rollback
    <3> QED BY <3>1 DEF PoolMoves
  <2>2. CASE UpdatesBy(log, session[s].txn, p) # {}
    <3>1. /\ disk'[p] = log[Earliest(UpdatesBy(log, session[s].txn, p))].before
          /\ pool'[p] = Absent
      BY <1>a, <2>2 DEF logAbort, rollback
    <3> QED BY <1>a, <2>2, <3>1 DEF PoolMoves
  <2> QED BY <2>1, <2>2
<1>b. ASSUME NEW s \in Sessions, discardPages(s)
      PROVE  PoolMoves(p)
  BY <1>b DEF discardPages, PoolMoves
<1>c. ASSUME NEW s \in Sessions, NEW q \in Pages, getPage(s, q)
      PROVE  PoolMoves(p)
  <2>1. PICK out \in Evictions(q) :
          pool' = [x \in Pages |-> IF x = q THEN Loaded(q)
                                   ELSE IF x \in out THEN Absent ELSE pool[x]]
    BY <1>c DEF getPage
  <2>2. disk'[p] = disk[p]
    BY <1>c DEF getPage
  <2>3. CASE p = q
    <3>1. pool'[p] = IF pool[p].in THEN pool[p] ELSE Page(disk[p], None, disk[p])
      BY <2>1, <2>3 DEF Loaded
    <3>2. getPage(s, p)
      BY <1>c, <2>3
    <3> QED BY <2>2, <3>1, <3>2 DEF PoolMoves
  <2>4. CASE p # q /\ p \in out
    <3>1. pool[p].in /\ pool[p].dirty = None /\ pool'[p] = Absent
      BY <2>1, <2>4, Evicted
    <3> QED BY <1>c, <2>2, <2>4, <3>1 DEF PoolMoves
  <2>5. CASE p # q /\ p \notin out
    BY <2>1, <2>2, <2>5 DEF PoolMoves
  <2> QED BY <2>3, <2>4, <2>5
<1>d. ASSUME NEW s \in Sessions, NEW q \in Pages, getPageFails(s, q)
      PROVE  PoolMoves(p)
  BY <1>u, <1>d DEF getPageFails
<1> QED
  BY <1>1, <1>2, <1>3, <1>4, <1>5, <1>6, <1>7, <1>8, <1>9, <1>a, <1>b, <1>c, <1>d, StepCases

\* What a page shows changes only by its owner's second half of a change, or by
\* its owner's abort.
LEMMA ContentKept ==
    ASSUME IInv, [Next]_vars, NEW p \in Pages
    PROVE  \/ Content(p)' = Content(p)
           \/ Crash
           \/ \E s \in Sessions : /\ owner[p] = s
                                  /\ \/ markDirty(s) /\ session[s].page = p
                                     \/ logAbort(s) /\ UpdatesBy(log, session[s].txn, p) # {}
                                     \/ discardPages(s)
<1> DEFINE Shown(pg, d) == IF pg.in THEN pg.val ELSE d
<1>t. PoolHolds /\ LocksHold
  BY DEF IInv
<1>c. Content(p) = Shown(pool[p], disk[p]) /\ Content(p)' = Shown(pool'[p], disk'[p])
  BY DEF Content, Loaded, Page
<1>p. \A v, d, b : Page(v, d, b).in /\ Page(v, d, b).val = v
  BY DEF Page
<1>1. CASE pool'[p] = pool[p] /\ disk'[p] = disk[p]
  BY <1>c, <1>1, SMT
<1>2. CASE writePage(p) /\ pool'[p] = Page(pool[p].val, None, pool[p].before)
  <2>1. pool[p].in
    BY <1>2, StorageAssumption DEF writePage, IInv, FlushHolds
  <2> QED BY <1>c, <1>p, <1>2, <2>1, SMT
<1>3. ASSUME NEW s \in Sessions, markDirty(s), session[s].page = p
      PROVE  owner[p] = s
  BY <1>t, <1>3 DEF markDirty, LocksHold
<1>4. CASE pool[p].in /\ pool'[p] = Page(pool[p].val, pool[p].dirty, pool[p].val)
  BY <1>c, <1>p, <1>4, SMT
<1>5. ASSUME NEW s \in Sessions, logAbort(s), UpdatesBy(log, session[s].txn, p) # {}
      PROVE  owner[p] = s
  BY <1>5, MarkedLocked DEF logAbort, Marks
<1>6. CASE ~pool[p].in /\ pool'[p] = Page(disk[p], None, disk[p])
  BY <1>c, <1>p, <1>6, SMT
<1>7. CASE pool[p].in /\ pool[p].dirty = None /\ pool'[p] = Absent /\ disk'[p] = disk[p]
  <2>1. ~pool'[p].in /\ pool[p].val = disk[p]
    BY <1>t, <1>7, SMT DEF PoolHolds, Absent
  <2> QED BY <1>c, <1>7, <2>1
<1> HIDE DEF Shown
<1> QED
  BY <1>1, <1>2, <1>3, <1>4, <1>5, <1>6, <1>7, PageMoves DEF PoolMoves

\* Where a session is before and after each of its steps.
Moves(s) ==
    LET from == session[s].pc
        to == session'[s].pc
    IN  \/ Begin(s) /\ from = "idle" /\ to = "active"
        \/ markDirty(s) /\ from = "changing" /\ to = "active"
        \/ flushPages(s) /\ from = "active" /\ to = "flushing"
        \/ writeFails(s) /\ from = "flushing" /\ to = "active"
        \/ releaseAll(s) /\ from = "flushing" /\ to = "logging"
        \/ logCommit(s) /\ from = "logging" /\ to = "idle"
        \/ logAbort(s) /\ from \in {"active", "aborting"} /\ to = "discarding"
        \/ discardPages(s) /\ from = "discarding" /\ to = "idle"
        \/ /\ from = "active" /\ to = "changing"
           /\ \E p \in Pages : getPage(s, p) /\ session'[s].page = p
                               /\ session'[s].copy = Loaded(p)
        \/ \E p \in Pages : getPageFails(s, p) /\ from = "active" /\ to = "aborting"

\* A session that does not step itself stays where it is, unless the process ends.
LEMMA SessionMoves ==
    ASSUME IInv, [Next]_vars, NEW r \in Sessions
    PROVE  session'[r] = session[r] \/ Crash \/ Moves(r)
<1>t. session \in [Sessions -> SessionStates]
  BY DEF IInv, TypeOK
<1>g. ASSUME NEW s \in Sessions, NEW pc, Goto(s, pc)
      PROVE  IF r = s THEN session'[r].pc = pc ELSE session'[r] = session[r]
  BY <1>t, <1>g DEF Goto, At
<1>f. \A s \in Sessions : flush.by = s => session[s].pc = "flushing"
  BY DEF IInv, FlushHolds
<1>1. UNCHANGED vars \/ Start => session'[r] = session[r]
  BY DEF vars, Start
<1>2. ASSUME NEW h \in Hooks, flushAllPages(h) \/ hookDone(h)
      PROVE  session'[r] = session[r]
  BY <1>2 DEF flushAllPages, hookDone
<1>3. ASSUME NEW p \in Pages, logWrite(p) \/ writePage(p)
      PROVE  session'[r] = session[r]
  BY <1>3 DEF logWrite, writePage
<1>4. ASSUME NEW s \in Sessions, Begin(s)
      PROVE  session'[r] = session[r] \/ Moves(r)
  <2>1. r # s => session'[r] = session[r]
    BY <1>t, <1>4 DEF Begin
  <2>2. r = s => session[r].pc = "idle" /\ session'[r].pc = "active"
    BY <1>t, <1>4, SMTT(20) DEF Begin, At, Idle
  <2> QED BY <1>4, <2>1, <2>2 DEF Moves
<1>5. ASSUME NEW s \in Sessions, markDirty(s)
      PROVE  session'[r] = session[r] \/ Moves(r)
  <2>1. Goto(s, "active") /\ session[s].pc = "changing"
    BY <1>5 DEF markDirty
  <2> QED BY <1>5, <1>g, <2>1, SMT DEF Moves
<1>6. ASSUME NEW s \in Sessions, flushPages(s)
      PROVE  session'[r] = session[r] \/ Moves(r)
  BY <1>6, <1>g, SMT DEF flushPages, Moves
<1>7. ASSUME NEW s \in Sessions, writeFails(s)
      PROVE  session'[r] = session[r] \/ Moves(r)
  BY <1>7, <1>f, <1>g DEF writeFails, Moves
<1>8. ASSUME NEW s \in Sessions, releaseAll(s)
      PROVE  session'[r] = session[r] \/ Moves(r)
  BY <1>8, <1>f, <1>g DEF releaseAll, Moves
<1>9. ASSUME NEW s \in Sessions, logCommit(s)
      PROVE  session'[r] = session[r] \/ Moves(r)
  <2>1. r # s => session'[r] = session[r]
    BY <1>t, <1>9 DEF logCommit
  <2>2. r = s => session[r].pc = "logging" /\ session'[r].pc = "idle"
    BY <1>t, <1>9 DEF logCommit, At, Idle
  <2> QED BY <1>9, <2>1, <2>2 DEF Moves
<1>a. ASSUME NEW s \in Sessions, logAbort(s)
      PROVE  session'[r] = session[r] \/ Moves(r)
  BY <1>a, <1>g DEF logAbort, Moves
<1>b. ASSUME NEW s \in Sessions, discardPages(s)
      PROVE  session'[r] = session[r] \/ Moves(r)
  <2>1. r # s => session'[r] = session[r]
    BY <1>t, <1>b DEF discardPages
  <2>2. r = s => session[r].pc = "discarding" /\ session'[r].pc = "idle"
    BY <1>t, <1>b DEF discardPages, At, Idle
  <2> QED BY <1>b, <2>1, <2>2 DEF Moves
<1>c. ASSUME NEW s \in Sessions, NEW p \in Pages, getPage(s, p)
      PROVE  session'[r] = session[r] \/ Moves(r)
  <2>1. r # s => session'[r] = session[r]
    BY <1>t, <1>c DEF getPage
  <2>2. r = s => /\ session[r].pc = "active" /\ session'[r].pc = "changing"
                 /\ session'[r].page = p /\ session'[r].copy = Loaded(p)
    BY <1>t, <1>c DEF getPage, CanLock, At
  <2> QED BY <1>c, <2>1, <2>2 DEF Moves
<1>d. ASSUME NEW s \in Sessions, NEW p \in Pages, getPageFails(s, p)
      PROVE  session'[r] = session[r] \/ Moves(r)
  BY <1>d, <1>g DEF getPageFails, CanLock, Moves
<1> QED
  BY <1>1, <1>2, <1>3, <1>4, <1>5, <1>6, <1>7, <1>8, <1>9, <1>a, <1>b, <1>c, <1>d, StepCases

\* A lock is taken by getPage and given back before the commit record or at the
\* end of an abort.
LEMMA LockMoves ==
    ASSUME IInv, [Next]_vars, NEW p \in Pages
    PROVE  \/ owner'[p] = owner[p]
           \/ Crash
           \/ \E s \in Sessions : /\ owner[p] = Nobody /\ owner'[p] = s
                                  /\ getPage(s, p) \/ getPageFails(s, p)
           \/ \E s \in Sessions : /\ owner[p] = s /\ owner'[p] = Nobody
                                  /\ releaseAll(s) \/ discardPages(s)
<1>t. owner \in [Pages -> Sessions \cup {Nobody}]
  BY DEF IInv, TypeOK
<1>1. UNCHANGED vars \/ Start => owner'[p] = owner[p]
  BY DEF vars, Start
<1>2. ASSUME NEW h \in Hooks, flushAllPages(h) \/ hookDone(h)
      PROVE  owner'[p] = owner[p]
  BY <1>2 DEF flushAllPages, hookDone
<1>3. ASSUME NEW q \in Pages, logWrite(q) \/ writePage(q)
      PROVE  owner'[p] = owner[p]
  BY <1>3 DEF logWrite, writePage
<1>4. ASSUME NEW s \in Sessions, \/ Begin(s) \/ markDirty(s) \/ flushPages(s)
                                 \/ writeFails(s) \/ logCommit(s) \/ logAbort(s)
      PROVE  owner'[p] = owner[p]
  BY <1>4 DEF Begin, markDirty, flushPages, writeFails, logCommit, logAbort
<1>5. ASSUME NEW s \in Sessions, releaseAll(s) \/ discardPages(s)
      PROVE  owner'[p] = owner[p] \/ (owner[p] = s /\ owner'[p] = Nobody)
  BY <1>5 DEF releaseAll, discardPages
<1>6. ASSUME NEW s \in Sessions, NEW q \in Pages, getPage(s, q) \/ getPageFails(s, q)
      PROVE  owner'[p] = owner[p] \/ (p = q /\ owner[p] = Nobody /\ owner'[p] = s)
  BY <1>t, <1>6 DEF getPage, getPageFails, CanLock
<1> QED
  BY <1>1, <1>2, <1>3, <1>4, <1>5, <1>6, StepCases

\* A step keeps LocksHold.
LEMMA LocksNext ==
    ASSUME IInv, [Next]_vars
    PROVE  LocksHold'
<1>t. TypeOK /\ TypeOK' /\ LocksHold
  BY TypeNext DEF IInv
<1>c. CASE Crash
  <2>1. \A s \in Sessions : session'[s].pc = "idle"
    BY <1>c DEF Crash, Idle, At
  <2>2. \A p \in Pages : owner'[p] \notin Sessions
    BY <1>c, StorageAssumption DEF Crash
  <2> QED BY <2>1, <2>2 DEF LocksHold
<1>1. ASSUME ~Crash, NEW p \in Pages, NEW s \in Sessions, owner'[p] = s
      PROVE  session'[s].pc \notin {"idle", "logging"}
  <2>1. \/ owner[p] = s
        \/ getPage(s, p) \/ getPageFails(s, p)
    BY <1>1, LockMoves, StorageAssumption
  <2>2. CASE getPage(s, p) \/ getPageFails(s, p)
    BY <1>t, <2>2, SMT DEF getPage, getPageFails, Goto, At, TypeOK
  <2>3. CASE owner[p] = s
    <3>1. session[s].pc \notin {"idle", "logging"}
      BY <1>t, <2>3 DEF LocksHold
    <3>2. ~releaseAll(s) /\ ~discardPages(s)
      BY <1>1, StorageAssumption DEF releaseAll, discardPages
    <3> QED BY <1>1, <3>1, <3>2, SessionMoves DEF Moves
  <2> QED BY <2>1, <2>2, <2>3
<1>2. ASSUME ~Crash, NEW s \in Sessions, session'[s].pc = "changing"
      PROVE  /\ session'[s].page \in Pages /\ owner'[session'[s].page] = s
             /\ session'[s].copy.val = Content(session[s].page)'
  <2>1. session'[s] = session[s] \/ Moves(s)
    BY <1>2, SessionMoves
  <2>2. CASE Moves(s)
    <3>1. PICK p \in Pages : getPage(s, p) /\ session'[s].page = p
                             /\ session'[s].copy = Loaded(p)
      BY <1>2, <2>2 DEF Moves
    <3>2. owner'[p] = s
      BY <1>t, <3>1 DEF getPage, TypeOK
    <3>3. pool'[p] = Loaded(p) /\ pool'[p].in
      BY <3>1, SMT DEF getPage, Loaded, Page
    <3>4. Content(p)' = Loaded(p).val
      BY <3>3 DEF Content, Loaded
    <3>5. Content(session[s].page)' = Content(p)'
      BY <3>1 DEF Content, Loaded
    <3> QED BY <3>1, <3>2, <3>4, <3>5
  <2>3. CASE session'[s] = session[s]
    <3>1. PICK p \in Pages : p = session[s].page /\ p = session'[s].page
      BY <1>t, <1>2, <2>3 DEF LocksHold
    <3>2. owner[p] = s /\ session[s].copy.val = Content(p) /\ session[s].pc = "changing"
      BY <1>t, <1>2, <2>3, <3>1 DEF LocksHold
    <3>3. ~markDirty(s)
      BY <1>t, <1>2, SMT DEF markDirty, Goto, At, TypeOK
    <3>4. ~logAbort(s) /\ ~discardPages(s)
      BY <3>2 DEF logAbort, discardPages
    <3>5. ~releaseAll(s)
      BY <3>2 DEF releaseAll, IInv, FlushHolds
    <3>6. Content(p)' = Content(p)
      BY <1>2, <3>2, <3>3, <3>4, ContentKept
    <3>7. owner'[p] = s
      BY <1>2, <3>2, <3>4, <3>5, LockMoves, StorageAssumption
    <3>8. Content(session[s].page)' = Content(p)'
      BY <3>1 DEF Content, Loaded
    <3> QED BY <2>3, <3>1, <3>2, <3>6, <3>7, <3>8
  <2> QED BY <2>1, <2>2, <2>3
<1> QED
  BY <1>c, <1>1, <1>2 DEF LocksHold

\* What a step does to the log, as transaction t and page p see it.
LogMoves(t, p) ==
    \/ Start /\ Updates(log', p) = {} /\ UpdatesBy(log', t, p) = {}
    \/ /\ ~Start
       /\ \A i \in Updates(log, p) : log'[i] = log[i]
       /\ \/ /\ Updates(log', p) = Updates(log, p)
             /\ UpdatesBy(log', t, p) = UpdatesBy(log, t, p)
          \/ /\ logWrite(p) /\ Len(log) \in Nat
             /\ Updates(log, p) \subseteq 1..Len(log)
             /\ Updates(log', p) = Updates(log, p) \cup {Len(log) + 1}
             /\ log'[Len(log) + 1].before = pool[p].before
             /\ IF pool[p].dirty = t
                THEN UpdatesBy(log', t, p) = UpdatesBy(log, t, p) \cup {Len(log) + 1}
                ELSE UpdatesBy(log', t, p) = UpdatesBy(log, t, p)

\* A step does this to the log: a start empties it, a flush appends a record of
\* its page, and what other steps append is no update record.
LEMMA LogSteps ==
    ASSUME IInv, [Next]_vars, NEW t \in Txns, NEW p \in Pages
    PROVE  LogMoves(t, p)
<1>t. TypeOK
  BY DEF IInv
<1>0. \A i \in Updates(log, p) : i \in 1..Len(log)
  BY DEF Updates
<1>u. ~Start /\ UNCHANGED log => LogMoves(t, p)
  BY DEF LogMoves
<1>m. ASSUME NEW type \in {"COMMIT", "ABORT"}, NEW u \in Txns, ~Start,
             log' = Append(log, Mark(type, u))
      PROVE  LogMoves(t, p)
  <2>1. Mark(type, u) \in Records /\ Mark(type, u).type # "UPDATE"
    BY <1>m DEF Mark, Record, Records
  <2>2. log \in Seq(Records)
    BY <1>t DEF TypeOK
  <2>3. /\ Updates(log', p) = Updates(log, p) /\ UpdatesBy(log', t, p) = UpdatesBy(log, t, p)
        /\ \A i \in 1..Len(log) : log'[i] = log[i]
    BY <1>m, <2>1, <2>2, AppendUpdates, AppendUpdatesBy, SMT
  <2> QED BY <1>0, <1>m, <2>3 DEF LogMoves
<1>x. \A s \in Sessions : session[s].pc # "idle" => session[s].txn \in Txns
  BY <1>t, StorageAssumption, SMT DEF IInv, TypeOK, SessionsRun, Begun, Txns
<1>1. CASE Start
  <2>1. log' = <<>>
    BY <1>1 DEF Start, preAppend
  <2> QED BY <1>1, <2>1, SMT DEF LogMoves, Updates, UpdatesBy
<1>2. CASE ~Start
  <2>1. UNCHANGED vars \/ Crash => LogMoves(t, p)
    BY <1>2, <1>u DEF vars, Crash
  <2>2. ASSUME NEW h \in Hooks, flushAllPages(h) \/ hookDone(h)
        PROVE  LogMoves(t, p)
    BY <1>2, <1>u, <2>2 DEF flushAllPages, hookDone
  <2>3. ASSUME NEW q \in Pages, logWrite(q)
        PROVE  LogMoves(t, p)
    <3>1. pool[q].dirty \in Txns
      <4>1. pool[q].dirty # None
        BY <2>3 DEF logWrite, IInv, FlushHolds
      <4> QED BY <1>t, <4>1 DEF TypeOK, PageStates
    <3>2. PICK r : r = Record("UPDATE", pool[q].dirty, q, pool[q].before, pool[q].val)
      OBVIOUS
    <3>a. /\ r.type = "UPDATE" /\ r.page = q
          /\ r.tid = pool[q].dirty /\ r.before = pool[q].before
      BY <3>2 DEF Record
    <3>b. r \in Records
      <4>1. pool[q].before \in SUBSET Txns /\ pool[q].val \in SUBSET Txns
        BY <1>t DEF TypeOK, PageStates
      <4> QED BY <3>1, <3>2, <4>1 DEF Record, Records
    <3>3. log \in Seq(Records) /\ log' = Append(log, r)
      BY <1>t, <2>3, <3>2 DEF TypeOK, logWrite
    <3>4. /\ \A i \in 1..Len(log) : log'[i] = log[i]
          /\ log'[Len(log) + 1] = r
          /\ Updates(log, p) \subseteq 1..Len(log)
          /\ Updates(log', p) = IF q = p THEN Updates(log, p) \cup {Len(log) + 1}
                                ELSE Updates(log, p)
          /\ UpdatesBy(log', t, p) = IF q = p /\ pool[q].dirty = t
                                     THEN UpdatesBy(log, t, p) \cup {Len(log) + 1}
                                     ELSE UpdatesBy(log, t, p)
      BY <3>a, <3>b, <3>3, AppendUpdates, AppendUpdatesBy, SMT
    <3>5. Len(log) \in Nat
      BY <3>3, SMT
    <3>6. CASE q # p
      BY <1>0, <1>2, <3>4, <3>6 DEF LogMoves
    <3>7. CASE q = p
      <4>1. logWrite(p) /\ log'[Len(log) + 1].before = pool[p].before
        BY <2>3, <3>a, <3>4, <3>7
      <4> QED BY <1>0, <1>2, <3>4, <3>5, <3>7, <4>1 DEF LogMoves
    <3> QED BY <3>6, <3>7
  <2>4. ASSUME NEW q \in Pages, writePage(q)
        PROVE  LogMoves(t, p)
    BY <1>2, <1>u, <2>4 DEF writePage
  <2>5. ASSUME NEW s \in Sessions,
               \/ Begin(s) \/ markDirty(s) \/ flushPages(s) \/ writeFails(s) \/ releaseAll(s)
               \/ discardPages(s) \/ \E q \in Pages : getPage(s, q) \/ getPageFails(s, q)
        PROVE  LogMoves(t, p)
    BY <1>2, <1>u, <2>5 DEF Begin, markDirty, flushPages, writeFails, releaseAll,
       discardPages, getPage, getPageFails
  <2>6. ASSUME NEW s \in Sessions, logCommit(s)
        PROVE  LogMoves(t, p)
    BY <1>2, <1>m, <1>x, <2>6 DEF logCommit
  <2>7. ASSUME NEW s \in Sessions, logAbort(s)
        PROVE  LogMoves(t, p)
    BY <1>2, <1>m, <1>x, <2>7 DEF logAbort
  <2> QED BY <1>2, <2>1, <2>2, <2>3, <2>4, <2>5, <2>6, <2>7, StepCases
<1> QED BY <1>1, <1>2

\* A transaction runs on until it ends.
LEMMA RunsOn ==
    ASSUME IInv, [Next]_vars, NEW s \in Sessions, NEW t \in Txns, Runs(s, t),
           ~Crash, ~logCommit(s), ~discardPages(s)
    PROVE  Runs(s, t)'
<1>t. session \in [Sessions -> SessionStates]
  BY DEF IInv, TypeOK
<1>1. CASE SameRuns
  BY <1>1 DEF SameRuns, Runs
<1>2. ASSUME NEW r \in Sessions, Begin(r)
      PROVE  Runs(s, t)'
  BY <1>t, <1>2, SMT DEF Begin, Idle, At, Runs
<1>3. ASSUME NEW r \in Sessions, r # s, EndsRun(r, "committed") \/ EndsRun(r, "aborted")
      PROVE  Runs(s, t)'
  BY <1>t, <1>3 DEF EndsRun, Runs
<1> QED BY <1>1, <1>2, <1>3, RunCases

\* A dirty page stays locked by the transaction that dirtied it, until the end
\* of its abort drops the page.
LEMMA DirtyLocked ==
    ASSUME IInv, [Next]_vars, NEW p \in Pages, pool[p].dirty # None,
           ~Crash, ~discardPages(owner[p])
    PROVE  \E s \in Sessions, t \in Txns : /\ owner[p] = s /\ owner'[p] = s
                                           /\ pool[p].dirty = t /\ Runs(s, t) /\ Runs(s, t)'
<1>1. PICK s \in Sessions : s = owner[p] /\ Runs(s, pool[p].dirty) /\ pool[p].in
  BY SMT DEF IInv, PoolHolds, Absent
<1>2. PICK t \in Txns : t = pool[p].dirty
  BY DEF IInv, TypeOK, PageStates
<1>3. ~releaseAll(s)
  BY <1>1, <1>2 DEF releaseAll, IInv, FlushHolds, DirtiedBy, InPool, Runs
<1>4. owner'[p] = s
  BY <1>1, <1>3, LockMoves, StorageAssumption
<1>5. ~logCommit(s)
  BY <1>1 DEF IInv, LocksHold, logCommit
<1>6. Runs(s, t)'
  BY <1>1, <1>2, <1>5, RunsOn
<1> QED BY <1>1, <1>2, <1>4, <1>6

\* A step keeps PoolHolds.
LEMMA PoolNext ==
    ASSUME IInv, [Next]_vars
    PROVE  PoolHolds'
<1> SUFFICES ASSUME NEW p \in Pages
             PROVE  /\ ~pool'[p].in => pool'[p] = Absent
                    /\ pool'[p].in /\ pool'[p].dirty = None => pool'[p].val = disk'[p]
                    /\ pool'[p].dirty # None =>
                         \E s \in Sessions, t \in Txns :
                           /\ owner'[p] = s /\ pool'[p].dirty = t
                           /\ Runs(s, t)' /\ t \in pool'[p].val
  <2>1. \A p \in Pages, s \in Sessions, t \in Txns :
          owner'[p] = s /\ pool'[p].dirty = t /\ Runs(s, t)' => Runs(owner[p], pool[p].dirty)'
    BY DEF Runs
  <2> QED BY <2>1 DEF PoolHolds
<1>t. TypeOK /\ PoolHolds /\ LocksHold
  BY DEF IInv
<1>a. ~Absent.in /\ Absent.dirty = None
  BY DEF Absent
<1>p. \A v, d, b : LET pg == Page(v, d, b)
                   IN  pg.in /\ pg.val = v /\ pg.dirty = d /\ pg.before = b
  BY DEF Page
<1>1. CASE pool'[p] = Absent
  BY <1>1, <1>a
<1>2. CASE pool'[p] = pool[p] /\ disk'[p] = disk[p]
  <2>1. CASE pool[p].dirty = None
    BY <1>t, <1>2, <2>1 DEF PoolHolds
  <2>2. CASE pool[p].dirty # None
    <3>1. pool[p].in
      BY <1>t, <1>a, <2>2 DEF PoolHolds
    <3>2. ~Crash
      BY <1>2, <1>a, <2>2 DEF Crash
    <3>3. ~discardPages(owner[p])
      BY <1>2, <1>a, <2>2 DEF discardPages
    <3>4. PICK s \in Sessions, t \in Txns :
            owner'[p] = s /\ pool[p].dirty = t /\ Runs(s, t)'
      BY <2>2, <3>2, <3>3, DirtyLocked
    <3> QED BY <1>t, <1>2, <2>2, <3>1, <3>4 DEF PoolHolds
  <2> QED BY <2>1, <2>2
<1>3. CASE writePage(p) /\ disk'[p] = pool[p].val
           /\ pool'[p] = Page(pool[p].val, None, pool[p].before)
  BY <1>3, <1>p, SMTT(20)
<1>4. ASSUME NEW s \in Sessions, markDirty(s), session[s].page = p,
             pool'[p] = Page(session[s].copy.val \cup {session[s].txn}, session[s].txn,
                             session[s].copy.before)
      PROVE  /\ pool'[p].in /\ pool'[p].dirty # None
             /\ \E t \in Txns : /\ owner'[p] = s /\ pool'[p].dirty = t
                                /\ Runs(s, t)' /\ t \in pool'[p].val
  <2>1. PICK t \in Txns : t = session[s].txn /\ Runs(s, t)
    BY <1>4, StorageAssumption, SMT DEF markDirty, IInv, TypeOK, SessionsRun, Begun, Txns, Runs
  <2>2. owner'[p] = s
    BY <1>t, <1>4 DEF markDirty, LocksHold
  <2>3. Runs(s, t)'
    <3>1. session[s].pc = "changing" /\ ~Crash
      <4>1. markDirty(s) => up' = up
        BY DEF markDirty
      <4>2. Crash => up' # up
        BY DEF Crash
      <4> QED BY <1>4, <4>1, <4>2 DEF markDirty
    <3>2. ~logCommit(s) /\ ~discardPages(s)
      BY <3>1 DEF logCommit, discardPages
    <3> QED BY <2>1, <3>1, <3>2, RunsOn
  <2>4. t # None
    BY SMTT(20) DEF Txns, None
  <2> QED BY <1>4, <1>p, <2>1, <2>2, <2>3, <2>4, SMTT(20)
<1>5. ASSUME NEW s \in Sessions, releaseAll(s), owner[p] = s, pool[p].in, disk'[p] = disk[p],
             pool'[p] = Page(pool[p].val, pool[p].dirty, pool[p].val)
      PROVE  pool'[p].in /\ pool'[p].dirty = None /\ pool'[p].val = disk'[p]
  <2>1. pool[p].dirty = None
    <3>1. pool[p].dirty # None => session[s].txn = pool[p].dirty
      BY <1>t, <1>5 DEF PoolHolds, Runs
    <3>2. DirtiedBy(session[s].txn) = {}
      BY <1>5 DEF releaseAll, IInv, FlushHolds
    <3> QED BY <1>5, <3>1, <3>2 DEF DirtiedBy, InPool
  <2> QED BY <1>t, <1>5, <1>p, <2>1, SMT DEF PoolHolds
<1>6. ASSUME NEW s \in Sessions, getPage(s, p), disk'[p] = disk[p],
             pool'[p] = Page(disk[p], None, disk[p])
      PROVE  pool'[p].in /\ pool'[p].dirty = None /\ pool'[p].val = disk'[p]
  BY <1>6, <1>p, SMT
<1>7. PoolMoves(p)
  BY PageMoves
<1> QED
  BY <1>1, <1>2, <1>3, <1>4, <1>5, <1>6, <1>7, <1>p DEF PoolMoves

\* A step keeps FlushHolds.
LEMMA FlushNext ==
    ASSUME IInv, [Next]_vars
    PROVE  FlushHolds'
<1>t. TypeOK /\ TypeOK' /\ FlushHolds /\ PoolHolds /\ PoolHolds'
  BY TypeNext, PoolNext DEF IInv
<1>n. NoFlush.by = Nobody /\ NoFlush.todo = {} /\ NoFlush.logged = Nobody
  BY DEF NoFlush, Flush
<1>f. \A b, P, q : LET fl == Flush(b, P, q)
                   IN  fl.by = b /\ fl.todo = P /\ fl.logged = q
  BY DEF Flush
<1>s. \A s \in Sessions : session'[s].pc = "flushing" =>
         (session'[s] = session[s] /\ flush.by = s) \/ flushPages(s)
  <2> TAKE s \in Sessions
  <2>1. Crash => session'[s].pc # "flushing"
    BY SMT DEF Crash, Idle, At
  <2>2. Moves(s) /\ session'[s].pc = "flushing" => flushPages(s)
    BY DEF Moves
  <2> QED BY <1>t, <2>1, <2>2, SessionMoves DEF FlushHolds
<1>0. ASSUME flush' = NoFlush, \A s \in Sessions : session'[s].pc # "flushing"
      PROVE  FlushHolds'
  BY <1>0, <1>n, StorageAssumption DEF FlushHolds
<1>1. CASE Crash
  BY <1>0, <1>1 DEF Crash, Idle, At
<1>2. ASSUME NEW h \in Hooks, flushAllPages(h)
      PROVE  FlushHolds'
  <2>1. /\ flush'.by = h /\ flush'.logged = Nobody
        /\ flush'.todo = InPool \ DirtiedBy(None) /\ flush.by = Nobody
        /\ pool' = pool /\ session' = session
    BY <1>2, <1>f, <1>n, SMT DEF flushAllPages
  <2>2. \A p \in flush'.todo : pool'[p].in /\ pool'[p].dirty # None
    BY <2>1 DEF DirtiedBy, InPool
  <2>3. h # Nobody /\ h \notin Sessions
    BY StorageAssumption
  <2>4. \A s \in Sessions : session'[s].pc # "flushing"
    BY <1>t, <2>1, StorageAssumption DEF FlushHolds
  <2> QED BY <2>1, <2>2, <2>3, <2>4 DEF FlushHolds
<1>3. ASSUME NEW h \in Hooks, hookDone(h)
      PROVE  FlushHolds'
  <2>1. \A s \in Sessions : session'[s].pc # "flushing"
    BY <1>t, <1>3, StorageAssumption DEF hookDone, FlushHolds
  <2> QED BY <1>0, <1>3, <2>1 DEF hookDone
<1>4. ASSUME NEW p \in Pages, logWrite(p)
      PROVE  FlushHolds'
  <2>1. /\ flush'.by = flush.by /\ flush'.todo = flush.todo /\ flush'.logged = p
        /\ p \in flush.todo /\ pool' = pool /\ session' = session
    BY <1>4, <1>f, SMT DEF logWrite
  <2>2. flush.by # Nobody
    BY <1>t, <1>n, <2>1 DEF FlushHolds
  <2>3. pool[p].dirty \in Txns
    BY <1>t, <2>1 DEF FlushHolds, TypeOK, PageStates
  <2>4. UpdatesBy(log', pool[p].dirty, p) # {}
    <3>1. ~Start
      BY <1>4 DEF Start, logWrite, preAppend, IInv, DownHolds, NoFlush, Flush
    <3>2. PICK t \in Txns : t = pool[p].dirty
      BY <2>3
    <3>3. log' = Append(log, Record("UPDATE", t, p, pool[p].before, pool[p].val))
      BY <1>4, <3>2 DEF logWrite
    <3>4. PICK r : r = Record("UPDATE", t, p, pool[p].before, pool[p].val)
      OBVIOUS
    <3>5. r.type = "UPDATE" /\ r.page = p /\ r.tid = t
      BY <3>4 DEF Record
    <3>6. log \in Seq(Records) /\ log' \in Seq(Records)
      BY <1>t DEF TypeOK
    <3>7. Len(log) + 1 \in 1..Len(log') /\ log'[Len(log) + 1] = r
      BY <3>3, <3>4, <3>6, SMT
    <3>8. Len(log) + 1 \in UpdatesBy(log', t, p)
      BY <3>5, <3>7 DEF UpdatesBy, Updates
    <3> QED BY <3>2, <3>8
  <2>6. \A s \in Sessions : flush'.by = s =>
          session'[s].pc = "flushing" /\ DirtiedBy(session[s].txn)' = flush'.todo
    BY <1>t, <2>1 DEF FlushHolds, DirtiedBy, InPool
  <2>7. \A s \in Sessions : session'[s].pc = "flushing" => flush'.by = s
    BY <1>t, <2>1 DEF FlushHolds
  <2> QED BY <1>t, <2>1, <2>2, <2>4, <2>6, <2>7 DEF FlushHolds
<1>5. ASSUME NEW p \in Pages, writePage(p)
      PROVE  FlushHolds'
  <2>1. /\ flush'.by = flush.by /\ flush'.todo = flush.todo \ {p} /\ flush'.logged = Nobody
        /\ session' = session /\ flush.logged = p
        /\ \A q \in Pages \ {p} : pool'[q] = pool[q]
        /\ pool'[p].dirty = None
    BY <1>t, <1>5, <1>f, SMT DEF writePage, TypeOK, Page
  <2>2. flush.by # Nobody
    BY <1>t, <1>n, <2>1, StorageAssumption DEF FlushHolds
  <2>3. \A q \in flush'.todo : pool'[q].in /\ pool'[q].dirty # None
    BY <1>t, <2>1, SMT DEF FlushHolds, TypeOK
  <2>4. ASSUME NEW s \in Sessions, flush'.by = s
        PROVE  session'[s].pc = "flushing" /\ DirtiedBy(session[s].txn)' = flush'.todo
    <3>1. session[s].pc = "flushing" /\ DirtiedBy(session[s].txn) = flush.todo
      BY <1>t, <2>1, <2>4 DEF FlushHolds
    <3>2. session[s].txn # None
      BY <3>1, StorageAssumption, SMT DEF IInv, TypeOK, SessionsRun, Begun, None
    <3>3. DirtiedBy(session[s].txn)' = DirtiedBy(session[s].txn) \ {p}
      BY <2>1, <3>2, SMT DEF DirtiedBy, InPool
    <3> QED BY <2>1, <3>1, <3>3
  <2>5. \A s \in Sessions : session'[s].pc = "flushing" => flush'.by = s
    BY <1>t, <2>1 DEF FlushHolds
  <2> QED BY <2>1, <2>2, <2>3, <2>4, <2>5 DEF FlushHolds
<1>6. ASSUME NEW s \in Sessions, flushPages(s)
      PROVE  FlushHolds'
  <2>1. /\ flush'.by = s /\ flush'.todo = DirtiedBy(session[s].txn) /\ flush'.logged = Nobody
        /\ flush.by = Nobody /\ pool' = pool
        /\ session'[s].pc = "flushing" /\ session'[s].txn = session[s].txn
        /\ \A r \in Sessions \ {s} : session'[r] = session[r]
    BY <1>t, <1>6, <1>f, <1>n, SMT DEF flushPages, Goto, At, TypeOK
  <2>2. session[s].txn # None
    BY <1>6, StorageAssumption, SMT DEF flushPages, IInv, TypeOK, SessionsRun, Begun, None
  <2>3. \A p \in flush'.todo : pool'[p].in /\ pool'[p].dirty # None
    BY <2>1, <2>2 DEF DirtiedBy, InPool
  <2>4. DirtiedBy(session[s].txn)' = flush'.todo
    BY <2>1 DEF DirtiedBy, InPool
  <2>5. \A r \in Sessions : session'[r].pc = "flushing" => r = s
    BY <1>t, <2>1, StorageAssumption, SMT DEF FlushHolds
  <2>6. s # Nobody
    BY StorageAssumption
  <2> QED BY <2>1, <2>3, <2>4, <2>5, <2>6 DEF FlushHolds
<1>7. ASSUME NEW s \in Sessions, writeFails(s) \/ releaseAll(s)
      PROVE  FlushHolds'
  <2>1. flush' = NoFlush /\ flush.by = s
    BY <1>7 DEF writeFails, releaseAll
  <2>2. session'[s].pc # "flushing"
    BY <1>t, <1>7, SMT DEF writeFails, releaseAll, Goto, At, TypeOK
  <2>3. \A r \in Sessions : session'[r].pc # "flushing"
    <3> SUFFICES ASSUME NEW r \in Sessions, session'[r].pc = "flushing"
                 PROVE  FALSE
      OBVIOUS
    <3>1. r # s
      BY <2>2
    <3>2. ~flushPages(r)
      BY <2>1, <1>n, StorageAssumption DEF flushPages
    <3> QED BY <1>s, <2>1, <3>1, <3>2
  <2> QED BY <1>0, <2>1, <2>3
<1>8. ASSUME UNCHANGED flush, \A s \in Sessions : ~flushPages(s),
             flush # NoFlush => UNCHANGED pool
      PROVE  FlushHolds'
  <2>1. CASE flush = NoFlush
    <3>1. \A s \in Sessions : session'[s].pc # "flushing"
      BY <1>8, <1>n, <1>s, <2>1, StorageAssumption
    <3> QED BY <1>0, <1>8, <2>1, <3>1
  <2>2. CASE flush # NoFlush
    <3>1. flush.by # Nobody /\ pool' = pool
      BY <1>t, <1>8, <2>2 DEF FlushHolds
    <3>2. ~Crash /\ ~Start
      BY <1>8, <2>2 DEF Crash, Start, IInv, DownHolds
    <3>3. ASSUME NEW s \in Sessions, flush'.by = s
          PROVE  /\ session'[s].pc = "flushing"
                 /\ DirtiedBy(session[s].txn)' = flush'.todo
      <4>1. session[s].pc = "flushing" /\ DirtiedBy(session[s].txn) = flush.todo
        BY <1>t, <1>8, <3>3 DEF FlushHolds
      <4>2. ~writeFails(s) /\ ~releaseAll(s)
        BY <1>8, <2>2 DEF writeFails, releaseAll
      <4>3. session'[s] = session[s]
        BY <3>2, <4>1, <4>2, SessionMoves DEF Moves
      <4> QED BY <1>8, <3>1, <4>1, <4>3 DEF DirtiedBy, InPool
    <3>4. \A s \in Sessions : session'[s].pc = "flushing" => flush'.by = s
      BY <1>s, <1>8
    <3>5. ASSUME flush.logged # Nobody
          PROVE  UpdatesBy(log', pool[flush.logged].dirty, flush.logged) # {}
      <4>1. PICK p \in Pages, t \in Txns :
              p = flush.logged /\ t = pool[p].dirty /\ UpdatesBy(log, t, p) # {}
        <5>1. PICK p \in Pages : p = flush.logged
          BY <1>t, <3>5 DEF TypeOK
        <5>2. pool[p].dirty \in Txns /\ UpdatesBy(log, pool[p].dirty, p) # {}
          BY <1>t, <3>5, <5>1 DEF FlushHolds, TypeOK, PageStates
        <5> QED BY <5>1, <5>2
      <4>2. LogMoves(t, p)
        BY LogSteps
      <4> QED BY <3>2, <4>1, <4>2 DEF LogMoves
    <3> QED BY <1>t, <1>8, <3>1, <3>3, <3>4, <3>5 DEF FlushHolds
  <2> QED BY <2>1, <2>2
<1>9. CASE UNCHANGED vars \/ Start
  <2>1. UNCHANGED <<flush, pool>>
    BY <1>9 DEF vars, Start
  <2>2. \A s \in Sessions : ~flushPages(s)
    BY <1>9, <1>n, <1>f, <2>1, StorageAssumption, SMT DEF flushPages
  <2> QED BY <1>8, <2>1, <2>2
<1>a. ASSUME NEW s \in Sessions,
             \/ Begin(s) \/ markDirty(s) \/ logCommit(s) \/ logAbort(s) \/ discardPages(s)
             \/ \E p \in Pages : getPage(s, p) \/ getPageFails(s, p)
      PROVE  FlushHolds'
  <2>1. UNCHANGED flush
    BY <1>a DEF Begin, markDirty, logCommit, logAbort, discardPages, getPage, getPageFails
  <2>2. flush # NoFlush => UNCHANGED pool
    BY <1>a DEF Begin, markDirty, logCommit, logAbort, discardPages, getPage, getPageFails,
       CanLock
  <2>3. \A r \in Sessions : ~flushPages(r)
    BY <1>n, <1>f, <2>1, StorageAssumption, SMT DEF flushPages
  <2> QED BY <1>8, <2>1, <2>2, <2>3
<1> QED
  BY <1>1, <1>2, <1>3, <1>4, <1>5, <1>6, <1>7, <1>9, <1>a, StepCases

----------------------------------------------------------------------------
(* What transactions leave about a page.                                   *)

\* How the outcome of a transaction that has begun may change.
LEMMA OutcomeMoves ==
    ASSUME IInv, [Next]_vars, NEW t \in Txns
    PROVE  /\ t \in Begun => t \in Begun'
           /\ t \in Begun /\ outcome[t] # "active" => outcome'[t] = outcome[t]
           /\ t \in Begun' /\ t \notin Begun => \E s \in Sessions : Begin(s) /\ outcome'[t] = "active"
           /\ t \in Begun /\ outcome[t] = "active" =>
                \/ outcome'[t] = "active"
                \/ Crash /\ outcome'[t] = "lost"
                \/ \E s \in Sessions : Runs(s, t) /\ logCommit(s) /\ outcome'[t] = "committed"
                \/ \E s \in Sessions : Runs(s, t) /\ discardPages(s) /\ outcome'[t] = "aborted"
<1>t. TypeOK
  BY DEF IInv
<1> USE DEF Begun
<1>1. CASE SameRuns
  BY <1>1 DEF SameRuns
<1>2. CASE Crash
  BY <1>2 DEF Crash
<1>3. ASSUME NEW s \in Sessions, Begin(s)
      PROVE  /\ t \in Begun => t \in Begun' /\ outcome'[t] = outcome[t]
             /\ t \in Begun' /\ t \notin Begun => outcome'[t] = "active"
  <2>1. outcome \in Seq({"active", "committed", "aborted", "lost"})
        /\ outcome' = Append(outcome, "active")
    BY <1>t, <1>3 DEF TypeOK, Begin
  <2> QED BY <2>1, SMT
<1>4. ASSUME NEW s \in Sessions, NEW o, EndsRun(s, o)
      PROVE  /\ Begun' = Begun
             /\ \A u \in Begun : IF Runs(s, u) THEN outcome'[u] = o ELSE outcome'[u] = outcome[u]
             /\ \A u \in Begun : Runs(s, u) => outcome[u] = "active"
  <2>1. session[s].txn \in Begun /\ outcome[session[s].txn] = "active" /\ session[s].pc # "idle"
    BY <1>4 DEF EndsRun, IInv, SessionsRun
  <2>2. outcome' = [outcome EXCEPT ![session[s].txn] = o]
    BY <1>4 DEF EndsRun
  <2> QED BY <2>1, <2>2 DEF Runs
<1> QED
  BY <1>1, <1>2, <1>3, <1>4, RunCases

\* The record rollback takes the before-image of.
LEMMA FirstRecord ==
    ASSUME IInv, NEW s \in Sessions, session[s].pc # "idle", NEW p \in Pages,
           UpdatesBy(log, session[s].txn, p) # {}
    PROVE  \E i \in UpdatesBy(log, session[s].txn, p) :
             /\ i = Earliest(UpdatesBy(log, session[s].txn, p))
             /\ i \in Updates(log, p)
             /\ session[s].txn \notin log[i].before
<1> DEFINE is == UpdatesBy(log, session[s].txn, p)
<1>1. session[s].txn \in Ended("active")
  BY DEF IInv, SessionsRun, Ended
<1>2. PICK i \in is : (\A j \in is : i <= j) /\ session[s].txn \notin log[i].before
  BY <1>1 DEF IInv, LogHolds, Undoes
<1>3. is \subseteq Int /\ is \subseteq Updates(log, p)
  BY SMT DEF UpdatesBy, Updates
<1>4. Earliest(is) \in is /\ \A j \in is : Earliest(is) <= j
  BY <1>2 DEF Earliest
<1>5. Earliest(is) = i
  BY <1>2, <1>3, <1>4, SMT
<1> QED BY <1>2, <1>3, <1>5

\* A page in a session's hands came from the pool or the disk just now, or was
\* there before.
LEMMA CopyMoves ==
    ASSUME IInv, [Next]_vars, NEW s \in Sessions, NEW p \in Pages, Changing(s, p)'
    PROVE  \/ Changing(s, p) /\ session'[s] = session[s]
           \/ getPage(s, p) /\ session'[s].copy = Loaded(p)
<1>1. ~Crash
  BY SMT DEF Crash, Changing, Idle, At
<1>2. CASE session'[s] = session[s]
  BY <1>2 DEF Changing
<1>3. CASE Moves(s)
  BY <1>3 DEF Moves, Changing
<1> QED BY <1>1, <1>2, <1>3, SessionMoves

\* New marks of a transaction appear only where its session puts a changed page.
LEMMA MarksGrow ==
    ASSUME IInv, [Next]_vars, NEW t \in Txns, NEW p \in Pages, Marks(t, p)'
    PROVE  \/ Marks(t, p)
           \/ \E s \in Sessions : markDirty(s) /\ session[s].page = p /\ session[s].txn = t
<1> DEFINE New == \E s \in Sessions :
                    markDirty(s) /\ session[s].page = p /\ session[s].txn = t
<1>t. TypeOK /\ LocksHold /\ PoolHolds
  BY DEF IInv
<1>a. Absent.val = {} /\ Absent.before = {}
  BY DEF Absent
<1>p. \A v, d, b : Page(v, d, b).val = v /\ Page(v, d, b).before = b
  BY DEF Page
<1>1. ASSUME t \in disk'[p] \/ t \in pool'[p].val \/ t \in pool'[p].before
      PROVE  Marks(t, p) \/ New
  <2>1. CASE pool'[p] = pool[p] /\ disk'[p] = disk[p]
    BY <1>1, <2>1 DEF Marks
  <2>2. CASE pool'[p] = Absent /\ disk'[p] = disk[p]
    BY <1>1, <1>a, <2>2 DEF Marks
  <2>3. CASE disk'[p] = pool[p].val /\ pool'[p] = Page(pool[p].val, None, pool[p].before)
    BY <1>1, <1>p, <2>3, SMT DEF Marks
  <2>4. ASSUME NEW s \in Sessions, markDirty(s), session[s].page = p, disk'[p] = disk[p],
               pool'[p] = Page(session[s].copy.val \cup {session[s].txn}, session[s].txn,
                               session[s].copy.before)
        PROVE  Marks(t, p) \/ New
    <3>1. Changing(s, p)
      BY <2>4 DEF markDirty, Changing
    <3>2. t \in disk[p] \/ t \in session[s].copy.val \cup session[s].copy.before
          \/ t = session[s].txn
      BY <1>1, <1>p, <2>4, SMTT(20)
    <3> QED BY <2>4, <3>1, <3>2 DEF Marks
  <2>5. CASE disk'[p] = disk[p] /\ pool'[p] = Page(pool[p].val, pool[p].dirty, pool[p].val)
    BY <1>1, <1>p, <2>5, SMT DEF Marks
  <2>6. ASSUME NEW s \in Sessions, logAbort(s), UpdatesBy(log, session[s].txn, p) # {},
               disk'[p] = log[Earliest(UpdatesBy(log, session[s].txn, p))].before,
               pool'[p] = Absent
        PROVE  Marks(t, p)
    <3>1. session[s].pc # "idle"
      BY <2>6 DEF logAbort
    <3>2. PICK i \in Updates(log, p) : i = Earliest(UpdatesBy(log, session[s].txn, p))
      BY <2>6, <3>1, FirstRecord
    <3>3. t \in log[i].before
      BY <1>1, <1>a, <2>6, <3>2
    <3> QED BY <3>2, <3>3 DEF Marks
  <2>7. CASE disk'[p] = disk[p] /\ pool'[p] = Page(disk[p], None, disk[p])
    BY <1>1, <1>p, <2>7, SMT DEF Marks
  <2> QED
    BY <2>1, <2>2, <2>3, <2>4, <2>5, <2>6, <2>7, PageMoves DEF PoolMoves
<1>2. ASSUME NEW s \in Sessions, Changing(s, p)',
             t \in session'[s].copy.val \cup session'[s].copy.before
      PROVE  Marks(t, p)
  <2>1. CASE Changing(s, p) /\ session'[s] = session[s]
    BY <1>2, <2>1 DEF Marks
  <2>2. CASE session'[s].copy = Loaded(p)
    <3>1. \/ Loaded(p) = pool[p]
          \/ Loaded(p) = Page(disk[p], None, disk[p])
      BY DEF Loaded
    <3> QED BY <1>2, <1>p, <2>2, <3>1, SMT DEF Marks
  <2> QED BY <1>2, <2>1, <2>2, CopyMoves
<1>3. ASSUME \/ \E i \in Updates(log', p) : t \in log'[i].before
             \/ UpdatesBy(log', t, p) # {}
      PROVE  Marks(t, p)
  <2>1. LogMoves(t, p)
    BY LogSteps
  <2>2. CASE Start
    BY <1>3, <2>1, <2>2 DEF LogMoves
  <2>3. CASE /\ Updates(log', p) = Updates(log, p) /\ UpdatesBy(log', t, p) = UpdatesBy(log, t, p)
             /\ \A i \in Updates(log, p) : log'[i] = log[i]
    BY <1>3, <2>3 DEF Marks
  <2>4. CASE /\ logWrite(p)
             /\ \A i \in Updates(log, p) : log'[i] = log[i]
             /\ Updates(log', p) = Updates(log, p) \cup {Len(log) + 1}
             /\ log'[Len(log) + 1].before = pool[p].before
             /\ pool[p].dirty # t => UpdatesBy(log', t, p) = UpdatesBy(log, t, p)
    <3>1. pool[p].dirty = t => t \in pool[p].val
      BY <1>t, SMT DEF PoolHolds, Txns, None
    <3> QED BY <1>3, <2>4, <3>1 DEF Marks
  <2> QED BY <2>1, <2>2, <2>3, <2>4 DEF LogMoves
<1> HIDE DEF New
<1>4. Marks(t, p) \/ New
  BY <1>1, <1>2, <1>3 DEF Marks
<1> QED BY <1>4 DEF New

\* A step keeps MarksHold.
LEMMA MarksNext ==
    ASSUME IInv, [Next]_vars
    PROVE  MarksHold'
<1> SUFFICES ASSUME NEW t \in Txns, NEW p \in Pages, Marks(t, p)'
             PROVE  /\ t \in Begun'
                    /\ outcome'[t] = "active" =>
                         \E s \in Sessions :
                           Runs(s, t)' /\ (owner'[p] = s \/ session'[s].pc = "logging")
  BY DEF MarksHold
<1>t. TypeOK /\ LocksHold /\ MarksHold
  BY DEF IInv
<1>1. CASE Marks(t, p)
  <2>1. t \in Begun /\ t \in Begun'
    BY <1>1, <1>t, OutcomeMoves DEF MarksHold
  <2>2. ASSUME outcome'[t] = "active"
        PROVE  \E s \in Sessions : Runs(s, t)' /\ (owner'[p] = s \/ session'[s].pc = "logging")
    <3>1. outcome[t] = "active"
      BY <2>1, <2>2, OutcomeMoves
    <3>2. PICK s \in Sessions : Runs(s, t) /\ (owner[p] = s \/ session[s].pc = "logging")
      BY <1>1, <1>t, <2>1, <3>1 DEF MarksHold
    <3>3. ~Crash
      BY <2>1, <2>2 DEF Crash, Begun
    <3>4. ~logCommit(s)
      BY <2>1, <2>2, <3>2 DEF logCommit, Runs, Begun
    <3>5. ~discardPages(s)
      BY <2>1, <2>2, <3>2 DEF discardPages, Runs, Begun
    <3>6. Runs(s, t)'
      BY <3>2, <3>3, <3>4, <3>5, RunsOn
    <3>7. CASE session[s].pc = "logging"
      <4>1. session'[s] = session[s]
        BY <3>3, <3>4, <3>7, SessionMoves DEF Moves
      <4> QED BY <3>6, <3>7, <4>1
    <3>8. CASE owner[p] = s
      <4>1. CASE releaseAll(s)
        <5>1. session'[s].pc = "logging"
          BY <1>t, <4>1 DEF releaseAll, Goto, At, TypeOK
        <5> QED BY <3>6, <5>1
      <4>2. CASE ~releaseAll(s)
        <5>1. owner'[p] = s
          BY <3>3, <3>5, <3>8, <4>2, LockMoves, StorageAssumption
        <5> QED BY <3>6, <5>1
      <4> QED BY <4>1, <4>2
    <3> QED BY <3>2, <3>7, <3>8
  <2> QED BY <2>1, <2>2
<1>2. ASSUME NEW s \in Sessions, markDirty(s), session[s].page = p, session[s].txn = t
      PROVE  t \in Begun' /\ Runs(s, t)' /\ owner'[p] = s
  <2>1. t \in Begun /\ Runs(s, t)
    BY <1>2 DEF markDirty, IInv, SessionsRun, Runs
  <2>2. owner'[p] = s
    BY <1>t, <1>2 DEF markDirty, LocksHold
  <2>3. Begun' = Begun
    BY <1>2 DEF markDirty, Begun
  <2>4. session[s].pc = "changing" /\ up' = up
    BY <1>2 DEF markDirty
  <2>5. ~Crash /\ ~logCommit(s) /\ ~discardPages(s)
    BY <2>4 DEF Crash, logCommit, discardPages
  <2> QED BY <2>1, <2>2, <2>3, <2>5, RunsOn
<1> QED BY <1>1, <1>2, MarksGrow, SMT

\* What a step may leave of an open transaction where only the log can undo it.
LEMMA StaleGrows ==
    ASSUME IInv, [Next]_vars, NEW t \in Ended("active"), NEW p \in Pages, Stale(t, p)'
    PROVE  Stale(t, p) \/ UpdatesBy(log, t, p) # {}
<1>t. TypeOK /\ LocksHold /\ PoolHolds /\ FlushHolds
  BY DEF IInv
<1>x. t \in Txns /\ t # None
  BY StorageAssumption, SMT DEF IInv, TypeOK, Ended, Begun, Txns, None
<1>a. Absent.val = {} /\ Absent.before = {}
  BY DEF Absent
<1>p. \A v, d, b : Page(v, d, b).val = v /\ Page(v, d, b).before = b /\ Page(v, d, b).dirty = d
  BY DEF Page
<1>1. ASSUME \/ t \in disk'[p] \/ t \in pool'[p].before
             \/ t \in pool'[p].val /\ pool'[p].dirty # t
      PROVE  Stale(t, p) \/ UpdatesBy(log, t, p) # {}
  <2>1. CASE pool'[p] = pool[p] /\ disk'[p] = disk[p]
    BY <1>1, <2>1 DEF Stale
  <2>2. CASE pool'[p] = Absent /\ disk'[p] = disk[p]
    BY <1>1, <1>a, <2>2 DEF Stale
  <2>3. CASE writePage(p) /\ disk'[p] = pool[p].val
             /\ pool'[p] = Page(pool[p].val, None, pool[p].before)
    <3>1. UpdatesBy(log, pool[p].dirty, p) # {}
      BY <1>t, <2>3, StorageAssumption DEF writePage, FlushHolds
    <3>2. t \in pool[p].val \/ t \in pool[p].before
      BY <1>1, <1>p, <2>3, SMT
    <3> QED BY <3>1, <3>2 DEF Stale
  <2>4. ASSUME NEW s \in Sessions, markDirty(s), session[s].page = p, disk'[p] = disk[p],
               pool'[p] = Page(session[s].copy.val \cup {session[s].txn}, session[s].txn,
                               session[s].copy.before)
        PROVE  Stale(t, p)
    <3>1. Changing(s, p) /\ owner[p] = s /\ session[s].copy.val = Content(p)
      BY <1>t, <2>4 DEF markDirty, Changing, LocksHold
    <3>2. \/ t \in disk[p] \/ t \in session[s].copy.before
          \/ t \in session[s].copy.val /\ t # session[s].txn
      BY <1>1, <1>p, <2>4, SMT
    <3>3. ASSUME t \in session[s].copy.val, t # session[s].txn
          PROVE  Stale(t, p)
      <4>1. CASE pool[p].in
        <5>1. t \in pool[p].val
          BY <3>1, <3>3, <4>1 DEF Content, Loaded
        <5>2. pool[p].dirty # t
          BY <1>t, <1>x, <3>1, <3>3 DEF PoolHolds, Runs
        <5> QED BY <5>1, <5>2 DEF Stale
      <4>2. CASE ~pool[p].in
        BY <1>p, <3>1, <3>3, <4>2, SMTT(20) DEF Content, Loaded, Stale
      <4> QED BY <4>1, <4>2
    <3> QED BY <3>1, <3>2, <3>3 DEF Stale
  <2>5. ASSUME NEW s \in Sessions, releaseAll(s), owner[p] = s, pool[p].in,
               disk'[p] = disk[p], pool'[p] = Page(pool[p].val, pool[p].dirty, pool[p].val)
        PROVE  Stale(t, p)
    <3>1. pool[p].dirty = None
      <4>1. pool[p].dirty # None => session[s].txn = pool[p].dirty
        BY <1>t, <2>5 DEF PoolHolds, Runs
      <4>2. DirtiedBy(session[s].txn) = {}
        BY <1>t, <2>5 DEF releaseAll, FlushHolds
      <4> QED BY <2>5, <4>1, <4>2 DEF DirtiedBy, InPool
    <3> QED BY <1>1, <1>p, <1>x, <2>5, <3>1, SMT DEF Stale
  <2>6. ASSUME NEW s \in Sessions, logAbort(s), UpdatesBy(log, session[s].txn, p) # {},
               disk'[p] = log[Earliest(UpdatesBy(log, session[s].txn, p))].before,
               pool'[p] = Absent
        PROVE  Stale(t, p)
    <3>1. session[s].pc # "idle"
      BY <2>6 DEF logAbort
    <3>2. PICK i \in Updates(log, p) : i = Earliest(UpdatesBy(log, session[s].txn, p))
      BY <2>6, <3>1, FirstRecord
    <3>3. t \in log[i].before
      BY <1>1, <1>a, <2>6, <3>2
    <3> QED BY <3>2, <3>3 DEF Stale
  <2>7. CASE disk'[p] = disk[p] /\ pool'[p] = Page(disk[p], None, disk[p])
    BY <1>1, <1>p, <2>7, SMT DEF Stale
  <2> QED
    BY <2>1, <2>2, <2>3, <2>4, <2>5, <2>6, <2>7, PageMoves DEF PoolMoves
<1>2. ASSUME NEW s \in Sessions, Changing(s, p)', t \in session'[s].copy.before
      PROVE  Stale(t, p)
  <2>1. CASE Changing(s, p) /\ session'[s] = session[s]
    BY <1>2, <2>1 DEF Stale
  <2>2. CASE session'[s].copy = Loaded(p)
    <3>1. \/ Loaded(p) = pool[p]
          \/ Loaded(p) = Page(disk[p], None, disk[p])
      BY DEF Loaded
    <3> QED BY <1>2, <1>p, <2>2, <3>1, SMT DEF Stale
  <2> QED BY <1>2, <2>1, <2>2, CopyMoves
<1>3. ASSUME NEW i \in Updates(log', p), t \in log'[i].before
      PROVE  Stale(t, p)
  <2>1. LogMoves(t, p)
    BY <1>x, LogSteps
  <2> QED BY <1>3, <2>1 DEF LogMoves, Stale
<1> QED BY <1>1, <1>2, <1>3 DEF Stale

\* A step keeps LogHolds.
LEMMA LogNext ==
    ASSUME IInv, [Next]_vars
    PROVE  LogHolds'
<1> SUFFICES ASSUME NEW t \in Ended("active")', NEW p \in Pages
             PROVE  /\ Stale(t, p)' => UpdatesBy(log', t, p) # {}
                    /\ UpdatesBy(log', t, p) # {} => Undoes(t, p)'
  BY DEF LogHolds
<1>x. t \in Txns /\ t \in Begun' /\ outcome'[t] = "active"
  <2>1. TypeOK'
    BY TypeNext
  <2> QED BY <2>1, StorageAssumption, SMT DEF TypeOK, Ended, Begun, Txns
<1>t. LogHolds /\ MarksHold /\ SessionsRun /\ DownHolds
  BY DEF IInv
<1>m. LogMoves(t, p)
  BY <1>x, LogSteps
<1>1. CASE t \notin Begun
  <2>1. ~Marks(t, p)'
    <3> SUFFICES ASSUME Marks(t, p)' PROVE FALSE
      OBVIOUS
    <3>1. ~Marks(t, p)
      BY <1>1, <1>t, <1>x DEF MarksHold
    <3>2. PICK s \in Sessions : markDirty(s) /\ session[s].txn = t
      BY <1>x, <3>1, MarksGrow
    <3> QED BY <1>1, <1>t, <3>2 DEF markDirty, SessionsRun
  <2> QED BY <2>1 DEF Marks, Stale
<1>2. CASE t \in Begun
  <2>1. t \in Ended("active")
    BY <1>2, <1>x, OutcomeMoves DEF Ended
  <2>2. ~Start
    BY <1>t, <2>1 DEF Start, SessionsRun, DownHolds, Runs
  <2>3. UpdatesBy(log, t, p) # {} => UpdatesBy(log', t, p) # {}
    BY <1>m, <2>2 DEF LogMoves
  <2>4. Stale(t, p)' => UpdatesBy(log', t, p) # {}
    BY <1>t, <2>1, <2>3, StaleGrows DEF LogHolds
  <2>5. ASSUME UpdatesBy(log', t, p) # {}
        PROVE  Undoes(t, p)'
    <3>u. UpdatesBy(log, t, p) \subseteq Updates(log, p)
      BY DEF UpdatesBy
    <3>1. CASE UpdatesBy(log, t, p) # {}
      <4>1. PICK i \in UpdatesBy(log, t, p) :
              (\A j \in UpdatesBy(log, t, p) : i <= j) /\ t \notin log[i].before
        BY <1>t, <2>1, <3>1 DEF LogHolds, Undoes
      <4>2. i \in UpdatesBy(log', t, p) /\ t \notin log'[i].before
        BY <1>m, <2>2, <3>u, <4>1 DEF LogMoves
      <4>3. \A j \in UpdatesBy(log', t, p) : i <= j
        <5>1. CASE UpdatesBy(log', t, p) = UpdatesBy(log, t, p)
          BY <4>1, <5>1
        <5>2. CASE /\ Len(log) \in Nat /\ Updates(log, p) \subseteq 1..Len(log)
                   /\ UpdatesBy(log', t, p) = UpdatesBy(log, t, p) \cup {Len(log) + 1}
          <6>1. i \in 1..Len(log)
            BY <3>u, <4>1, <5>2
          <6>2. i <= Len(log) + 1
            BY <5>2, <6>1, SMT
          <6>3. \A j \in UpdatesBy(log, t, p) \cup {Len(log) + 1} : i <= j
            BY <4>1, <6>2
          <6> QED BY <5>2, <6>3
        <5> QED BY <1>m, <2>2, <5>1, <5>2 DEF LogMoves
      <4> QED BY <4>2, <4>3 DEF Undoes
    <3>2. CASE UpdatesBy(log, t, p) = {}
      <4>1. /\ UpdatesBy(log', t, p) = {Len(log) + 1} /\ Len(log) \in Nat
            /\ log'[Len(log) + 1].before = pool[p].before
        BY <1>m, <2>2, <2>5, <3>2 DEF LogMoves
      <4>2. t \notin pool[p].before
        BY <1>t, <2>1, <3>2 DEF LogHolds, Stale
      <4> QED BY <4>1, <4>2, SMT DEF Undoes
    <3> QED BY <3>1, <3>2
  <2> QED BY <2>4, <2>5
<1> QED BY <1>1, <1>2

----------------------------------------------------------------------------
(* What is settled stays.                                                  *)

\* An open transaction that had begun was open before the step.
LEMMA OpenBack ==
    ASSUME IInv, [Next]_vars, NEW s \in Sessions, NEW t \in Begun, Open(s, t)'
    PROVE  /\ Open(s, t) /\ Runs(s, t) /\ ~Crash
           /\ ~releaseAll(s) /\ ~discardPages(s) /\ ~logAbort(s)
<1>t. TypeOK
  BY DEF IInv
<1>1. ~Crash
  BY SMT DEF Crash, Open, OpenPcs, Idle, At
<1>2. ~Begin(s)
  BY <1>t, SMT DEF Begin, Open, TypeOK, At, Begun
<1>3. session[s].pc \in OpenPcs /\ ~releaseAll(s) /\ ~discardPages(s) /\ ~logAbort(s)
  <2>1. session'[s].pc \in OpenPcs
    BY DEF Open
  <2>2. ~releaseAll(s)
    BY <1>t, <2>1, SMT DEF releaseAll, Goto, At, OpenPcs, TypeOK
  <2>3. ~discardPages(s)
    BY <1>t, <2>1, SMT DEF discardPages, Idle, At, OpenPcs, TypeOK
  <2>4. ~logAbort(s)
    BY <1>t, <2>1, SMT DEF logAbort, Goto, At, OpenPcs, TypeOK
  <2>5. ~logCommit(s)
    BY <1>t, <2>1, SMT DEF logCommit, Idle, At, OpenPcs, TypeOK
  <2> QED BY <1>1, <1>2, <2>1, <2>2, <2>3, <2>4, <2>5, SessionMoves DEF Moves, OpenPcs
<1>4. session'[s].txn = session[s].txn
  <2>1. session[s].pc # "idle" /\ session'[s].pc # "idle"
    BY <1>3 DEF Open, OpenPcs
  <2>2. CASE SameRuns
    BY <2>2 DEF SameRuns
  <2>3. ASSUME NEW r \in Sessions, Begin(r)
        PROVE  session'[s].txn = session[s].txn
    BY <1>t, <1>2, <2>3 DEF Begin, TypeOK
  <2>4. ASSUME NEW r \in Sessions, EndsRun(r, "committed") \/ EndsRun(r, "aborted")
        PROVE  session'[s].txn = session[s].txn
    <3>1. r # s
      BY <1>t, <2>1, <2>4, SMT DEF EndsRun, Idle, At, TypeOK
    <3> QED BY <1>t, <2>4, <3>1 DEF EndsRun, TypeOK
  <2> QED BY <1>1, <2>2, <2>3, <2>4, RunCases
<1> QED BY <1>1, <1>3, <1>4 DEF Open, Runs, OpenPcs

\* Update records are of transactions that had begun before the step.
LEMMA LoggedBegun ==
    ASSUME IInv, [Next]_vars, NEW u \in Txns, NEW p \in Pages, UpdatesBy(log', u, p) # {}
    PROVE  u \in Begun
<1>1. Marks(u, p)'
  BY DEF Marks
<1>2. CASE Marks(u, p)
  BY <1>2 DEF IInv, MarksHold
<1>3. ASSUME NEW r \in Sessions, markDirty(r), session[r].txn = u
      PROVE  u \in Begun
  BY <1>3 DEF markDirty, IInv, SessionsRun
<1> QED BY <1>1, <1>2, <1>3, MarksGrow

\* A commit that reaches the end of its flush has forced its pages to disk.
LEMMA Forced ==
    ASSUME IInv, NEW s \in Sessions, releaseAll(s), NEW p \in Pages, owner[p] = s
    PROVE  Content(p) = disk[p] /\ (pool[p].in => pool[p].dirty = None)
<1>1. pool[p].dirty # None => session[s].txn = pool[p].dirty
  BY DEF IInv, PoolHolds, Runs
<1>2. DirtiedBy(session[s].txn) = {}
  BY DEF releaseAll, IInv, FlushHolds
<1>3. pool[p].in => pool[p].dirty = None
  BY <1>1, <1>2 DEF DirtiedBy, InPool
<1>4. CASE pool[p].in
  BY <1>3, <1>4 DEF IInv, PoolHolds, Content, Loaded
<1>5. CASE ~pool[p].in
  BY <1>5 DEF Content, Loaded, Page
<1> QED BY <1>3, <1>4, <1>5

\* A transaction settles when its session, its pages flushed, releases its locks.
LEMMA SettledGrows ==
    ASSUME IInv, [Next]_vars, NEW t \in Txns, Settled(t)'
    PROVE  Settled(t) \/ \E s \in Sessions : releaseAll(s) /\ session[s].txn = t
<1>t. TypeOK
  BY DEF IInv
<1>1. CASE t \in Ended("committed")'
  <2>1. t \in Begun' /\ outcome'[t] = "committed"
    BY <1>1 DEF Ended
  <2>2. t \in Begun
    BY <2>1, OutcomeMoves
  <2>3. CASE outcome[t] = "committed"
    BY <2>2, <2>3 DEF Settled, Ended
  <2>4. CASE outcome[t] # "committed"
    <3>1. PICK s \in Sessions : Runs(s, t) /\ logCommit(s)
      BY <2>1, <2>2, <2>4, OutcomeMoves
    <3> QED BY <3>1 DEF Runs, logCommit, Settled
  <2> QED BY <2>3, <2>4
<1>2. ASSUME NEW s \in Sessions, session'[s].pc = "logging", session'[s].txn = t
      PROVE  Settled(t) \/ (releaseAll(s) /\ session[s].txn = t)
  <2>1. CASE session'[s] = session[s]
    BY <1>2, <2>1 DEF Settled
  <2>2. CASE Moves(s)
    <3>1. releaseAll(s)
      BY <1>2, <2>2 DEF Moves
    <3> QED BY <1>t, <1>2, <3>1 DEF releaseAll, Goto, At, TypeOK
  <2>3. ~Crash
    BY <1>2, SMT DEF Crash, Idle, At
  <2> QED BY <2>1, <2>2, <2>3, SessionMoves
<1> QED BY <1>1, <1>2 DEF Settled

\* What is on disk and in every image that may replace it there stays so.
LEMMA KeptNext ==
    ASSUME IInv, [Next]_vars, NEW t \in Txns, NEW p \in Pages, Kept(t, p)
    PROVE  Kept(t, p)'
<1>t. TypeOK /\ LocksHold /\ PoolHolds /\ FlushHolds
  BY DEF IInv
<1>a. ~Absent.in
  BY DEF Absent
<1>p. \A v, d, b : Page(v, d, b).val = v /\ Page(v, d, b).before = b
  BY DEF Page
<1>k. /\ t \in disk[p]
      /\ pool[p].in => t \in pool[p].val /\ t \in pool[p].before
      /\ \A s \in Sessions : Changing(s, p) => t \in session[s].copy.before
      /\ \A s \in Sessions : \A u \in Txns : Open(s, u) =>
            \A i \in UpdatesBy(log, u, p) : t \in log[i].before
  BY DEF Kept
<1>1. /\ t \in disk'[p]
      /\ pool'[p].in => t \in pool'[p].val /\ t \in pool'[p].before
  <2>1. CASE pool'[p] = pool[p] /\ disk'[p] = disk[p]
    BY <1>k, <2>1
  <2>2. CASE pool'[p] = Absent /\ disk'[p] = disk[p]
    BY <1>k, <1>a, <2>2
  <2>3. CASE writePage(p) /\ disk'[p] = pool[p].val
             /\ pool'[p] = Page(pool[p].val, None, pool[p].before)
    <3>1. pool[p].in
      BY <1>t, <2>3, StorageAssumption DEF writePage, FlushHolds
    <3> QED BY <1>k, <1>p, <2>3, <3>1, SMT
  <2>4. ASSUME NEW s \in Sessions, markDirty(s), session[s].page = p, disk'[p] = disk[p],
               pool'[p] = Page(session[s].copy.val \cup {session[s].txn}, session[s].txn,
                               session[s].copy.before)
        PROVE  t \in disk'[p] /\ t \in pool'[p].val /\ t \in pool'[p].before
    <3>1. Changing(s, p) /\ session[s].copy.val = Content(p)
      BY <1>t, <2>4 DEF markDirty, Changing, LocksHold
    <3>2. t \in Content(p)
      BY <1>k, <1>p, SMTT(20) DEF Content, Loaded
    <3> QED BY <1>k, <1>p, <2>4, <3>1, <3>2, SMT
  <2>5. CASE pool[p].in /\ disk'[p] = disk[p] /\ pool'[p] = Page(pool[p].val, pool[p].dirty, pool[p].val)
    BY <1>k, <1>p, <2>5, SMT
  <2>6. ASSUME NEW s \in Sessions, logAbort(s), UpdatesBy(log, session[s].txn, p) # {},
               disk'[p] = log[Earliest(UpdatesBy(log, session[s].txn, p))].before,
               pool'[p] = Absent
        PROVE  t \in disk'[p] /\ ~pool'[p].in
    <3>1. session[s].pc \in {"active", "aborting"}
      BY <2>6 DEF logAbort
    <3>2. PICK u \in Txns : u = session[s].txn
      BY <3>1, StorageAssumption, SMTT(20) DEF IInv, TypeOK, SessionsRun, Begun, Txns
    <3>3. PICK i \in UpdatesBy(log, u, p) : i = Earliest(UpdatesBy(log, session[s].txn, p))
      BY <2>6, <3>1, <3>2, FirstRecord
    <3>4. Open(s, u)
      BY <3>1, <3>2 DEF Open, OpenPcs
    <3>5. t \in log[i].before
      BY <1>k, <3>3, <3>4
    <3> QED BY <1>a, <2>6, <3>3, <3>5
  <2>7. CASE disk'[p] = disk[p] /\ pool'[p] = Page(disk[p], None, disk[p])
    BY <1>k, <1>p, <2>7, SMT
  <2> QED
    BY <2>1, <2>2, <2>3, <2>4, <2>5, <2>6, <2>7, PageMoves DEF PoolMoves
<1>2. ASSUME NEW s \in Sessions, Changing(s, p)'
      PROVE  t \in session'[s].copy.before
  <2>1. CASE Changing(s, p) /\ session'[s] = session[s]
    BY <1>k, <2>1
  <2>2. CASE session'[s].copy = Loaded(p)
    BY <1>k, <1>p, <2>2, SMT DEF Loaded
  <2> QED BY <1>2, <2>1, <2>2, CopyMoves
<1>3. ASSUME NEW s \in Sessions, NEW u \in Txns, Open(s, u)', NEW i \in UpdatesBy(log', u, p)
      PROVE  t \in log'[i].before
  <2>1. u \in Begun
    BY <1>3, LoggedBegun
  <2>2. Open(s, u)
    BY <1>3, <2>1, OpenBack
  <2>3. LogMoves(u, p)
    BY LogSteps
  <2>4. CASE i \in UpdatesBy(log, u, p) /\ log'[i] = log[i]
    BY <1>k, <2>2, <2>4
  <2>5. CASE logWrite(p) /\ log'[i].before = pool[p].before
    <3>1. pool[p].in
      BY <1>t, <2>5 DEF logWrite, FlushHolds
    <3> QED BY <1>k, <2>5, <3>1
  <2>6. UpdatesBy(log, u, p) \subseteq Updates(log, p)
    BY DEF UpdatesBy
  <2> QED BY <1>3, <2>3, <2>4, <2>5, <2>6 DEF LogMoves
<1> QED BY <1>1, <1>2, <1>3 DEF Kept

\* A settled transaction changes nothing more.
LEMMA SettledDone ==
    ASSUME IInv, NEW t \in Txns, Settled(t), NEW s \in Sessions, markDirty(s)
    PROVE  session[s].txn # t
<1>1. session[s].pc = "changing" /\ outcome[session[s].txn] = "active" /\ Runs(s, session[s].txn)
  BY DEF markDirty, IInv, SessionsRun, Runs
<1>2. CASE t \in Ended("committed")
  BY <1>1, <1>2 DEF Ended
<1>3. ASSUME NEW r \in Sessions, session[r].pc = "logging", session[r].txn = t
      PROVE  session[s].txn # t
  <2>1. Runs(r, t) /\ r # s
    BY <1>1, <1>3 DEF Runs
  <2> QED BY <1>1, <2>1, SMT DEF IInv, SessionsRun
<1> QED BY <1>2, <1>3 DEF Settled

\* A step keeps ChangesHold.
LEMMA ChangesNext ==
    ASSUME IInv, [Next]_vars
    PROVE  ChangesHold'
<1> SUFFICES ASSUME NEW t \in Txns, NEW p \in wrote'[t]
             PROVE  /\ t \in Begun'
                    /\ Settled(t)' => Kept(t, p)'
                    /\ \A s \in Sessions : Open(s, t)' => owner'[p] = s /\ t \in Content(p)'
  BY DEF ChangesHold
<1>t. TypeOK /\ TypeOK' /\ SessionsRun /\ SessionsRun' /\ LocksHold /\ ChangesHold
  BY TypeNext, SessionsNext DEF IInv
<1>p. p \in Pages
  BY <1>t DEF TypeOK
<1>w. p \in wrote[t] \/ \E s \in Sessions : markDirty(s) /\ session[s].page = p /\ session[s].txn = t
  <2>1. ASSUME NEW s \in Sessions, markDirty(s)
        PROVE  p \in wrote[t] \/ (session[s].page = p /\ session[s].txn = t)
    BY <1>t, <2>1 DEF markDirty, TypeOK
  <2>2. (\A s \in Sessions : ~markDirty(s)) => wrote' = wrote
    BY StepCases DEF vars, Start, Crash, flushAllPages, hookDone, logWrite, writePage, Begin,
       flushPages, writeFails, releaseAll, logCommit, logAbort, discardPages, getPage,
       getPageFails
  <2> QED BY <2>1, <2>2
<1>m. ASSUME NEW s \in Sessions, markDirty(s), session[s].page = p, session[s].txn = t
      PROVE  t \in Begun /\ Runs(s, t) /\ Runs(s, t)' /\ owner'[p] = s /\ t \in Content(p)'
  <2>1. t \in Begun /\ Runs(s, t)
    BY <1>m, <1>t DEF markDirty, SessionsRun, Runs
  <2>2. owner'[p] = s
    BY <1>t, <1>m DEF markDirty, LocksHold
  <2>3. session[s].pc = "changing" /\ up' = up
    BY <1>m DEF markDirty
  <2>4. ~Crash /\ ~logCommit(s) /\ ~discardPages(s)
    BY <2>3 DEF Crash, logCommit, discardPages
  <2>5. Runs(s, t)'
    BY <2>1, <2>4, RunsOn
  <2>6. pool'[p] = Page(session[s].copy.val \cup {t}, t, session[s].copy.before)
    BY <1>m, <1>p, <1>t DEF markDirty, TypeOK
  <2>7. t \in Content(p)'
    BY <2>6, SMT DEF Content, Loaded, Page
  <2> QED BY <2>1, <2>2, <2>5, <2>7
<1>b. t \in Begun
  BY <1>t, <1>w, <1>m DEF ChangesHold
<1>1. t \in Begun'
  BY <1>b, OutcomeMoves
<1>2. ASSUME Settled(t)'
      PROVE  Kept(t, p)'
  <2>1. CASE Settled(t)
    <3>1. p \in wrote[t]
      BY <1>w, <2>1, SettledDone
    <3>2. Kept(t, p)
      BY <1>t, <2>1, <3>1 DEF ChangesHold
    <3> QED BY <1>p, <3>2, KeptNext
  <2>2. ASSUME NEW s \in Sessions, releaseAll(s), session[s].txn = t
        PROVE  Kept(t, p)'
    <3>1. session[s].pc = "flushing" /\ Open(s, t)
      BY <2>2 DEF releaseAll, IInv, FlushHolds, Open, OpenPcs
    <3>2. p \in wrote[t]
      BY <2>2 DEF releaseAll
    <3>3. owner[p] = s /\ t \in Content(p)
      BY <1>t, <3>1, <3>2 DEF ChangesHold
    <3>4. t \in disk[p]
      BY <1>p, <2>2, <3>3, Forced
    <3>5. disk'[p] = disk[p] /\ log' = log
      BY <2>2 DEF releaseAll
    <3>6. pool'[p].in => t \in pool'[p].val /\ t \in pool'[p].before
      <4>1. CASE pool[p].in
        <5>1. pool'[p] = Page(pool[p].val, pool[p].dirty, pool[p].val)
          BY <1>p, <2>2, <3>3, <4>1 DEF releaseAll, InPool, Held
        <5>2. t \in pool[p].val
          BY <3>3, <4>1 DEF Content, Loaded
        <5> QED BY <5>1, <5>2, SMT DEF Page
      <4>2. CASE ~pool[p].in
        BY <1>p, <2>2, <4>2 DEF releaseAll, InPool
      <4> QED BY <4>1, <4>2
    <3>7. session'[s].pc = "logging" /\ \A r \in Sessions \ {s} : session'[r] = session[r]
      BY <1>t, <2>2 DEF releaseAll, Goto, At, TypeOK
    <3>8. \A r \in Sessions : ~Changing(r, p)'
      <4> SUFFICES ASSUME NEW r \in Sessions, Changing(r, p)' PROVE FALSE
        OBVIOUS
      <4>1. r # s /\ Changing(r, p)
        BY <3>7 DEF Changing
      <4> QED BY <1>t, <3>3, <4>1 DEF LocksHold, Changing
    <3>9. \A r \in Sessions : \A u \in Txns : Open(r, u)' => UpdatesBy(log', u, p) = {}
      <4> SUFFICES ASSUME NEW r \in Sessions, NEW u \in Txns, Open(r, u)',
                          UpdatesBy(log', u, p) # {}
                   PROVE  FALSE
        OBVIOUS
      <4>1. r # s /\ session[r].txn = u /\ session[r].pc \notin {"idle", "logging"}
        BY <3>7 DEF Open, OpenPcs
      <4>2. Marks(session[r].txn, p)
        BY <3>5, <4>1 DEF Marks
      <4>3. owner[p] = r
        BY <1>p, <4>1, <4>2, MarkedLocked
      <4> QED BY <3>3, <4>1, <4>3
    <3> QED BY <3>4, <3>5, <3>6, <3>8, <3>9 DEF Kept
  <2> QED BY <1>2, <2>1, <2>2, SettledGrows
<1>3. ASSUME NEW s \in Sessions, Open(s, t)'
      PROVE  owner'[p] = s /\ t \in Content(p)'
  <2>0. /\ Open(s, t) /\ Runs(s, t) /\ ~Crash
        /\ ~releaseAll(s) /\ ~discardPages(s) /\ ~logAbort(s)
    BY <1>b, <1>3, OpenBack
  <2>1. ASSUME NEW r \in Sessions, markDirty(r), session[r].page = p, session[r].txn = t
        PROVE  owner'[p] = s /\ t \in Content(p)'
    <3>1. Runs(r, t) /\ owner'[p] = r /\ t \in Content(p)'
      BY <1>m, <2>1
    <3>2. r = s
      BY <1>t, <2>0, <3>1 DEF SessionsRun
    <3> QED BY <3>1, <3>2
  <2>2. CASE p \in wrote[t]
    <3>1. owner[p] = s /\ t \in Content(p)
      BY <1>t, <2>0, <2>2 DEF ChangesHold
    <3>2. owner'[p] = s
      BY <1>p, <2>0, <3>1, LockMoves, StorageAssumption
    <3>3. CASE Content(p)' = Content(p)
      BY <3>1, <3>2, <3>3
    <3>4. CASE markDirty(s) /\ session[s].page = p
      <4>1. session[s].txn = t
        BY <2>0 DEF Runs
      <4> QED BY <2>1, <3>4, <4>1
    <3> QED BY <1>p, <2>0, <3>1, <3>3, <3>4, ContentKept
  <2> QED BY <1>w, <2>1, <2>2
<1> QED BY <1>1, <1>2, <1>3

----------------------------------------------------------------------------
(* The theorems.                                                           *)

\* The inductive invariant holds before the first process starts.
LEMMA InitHolds ==
    ASSUME Init
    PROVE  IInv
<1>i. Idle.pc = "idle" /\ Idle = Idle
  BY DEF Idle, At
<1>n. NoFlush.by = Nobody /\ NoFlush.todo = {} /\ NoFlush.logged = Nobody
  BY DEF NoFlush, Flush
<1>s. \A s \in Sessions : session[s] = Idle /\ session[s].pc = "idle"
  BY <1>i DEF Init
<1>o. outcome = <<>> /\ DOMAIN outcome = {} /\ log = <<>>
  BY SMT DEF Init
<1>u. \A p \in Pages : Updates(log, p) = {} /\ \A t : UpdatesBy(log, t, p) = {}
  BY <1>o, SMT DEF Updates, UpdatesBy
<1>a. ~Absent.in /\ Absent.val = {} /\ Absent.before = {} /\ Absent.dirty = None
  BY DEF Absent
<1>1. TypeOK
  <2>1. NoFlush \in [by : Sessions \cup Hooks \cup {Nobody}, todo : SUBSET Pages,
                     logged : Pages \cup {Nobody}]
    BY DEF NoFlush, Flush
  <2>2. <<>> \in Seq(Records) /\ <<>> \in Seq({"active", "committed", "aborted", "lost"})
        /\ Len(<<>>) = 0 /\ 0 <= MaxTxns
    BY StorageAssumption, SMT
  <2> QED BY <2>1, <2>2, Shapes DEF Init, TypeOK
<1>2. SessionsRun
  BY <1>s, <1>o DEF SessionsRun, Ended, Begun, Runs
<1>3. LocksHold
  BY <1>s, StorageAssumption DEF Init, LocksHold
<1>4. DownHolds
  BY <1>s DEF Init, DownHolds
<1>5. PoolHolds
  BY <1>a DEF Init, PoolHolds
<1>6. FlushHolds
  BY <1>n, <1>s, StorageAssumption DEF Init, FlushHolds
<1>7. \A t \in Txns : \A p \in Pages : ~Marks(t, p)
  BY <1>a, <1>s, <1>u DEF Init, Marks, Changing
<1>8. MarksHold /\ LogHolds /\ ChangesHold
  BY <1>7, <1>o DEF MarksHold, LogHolds, Ended, Begun, ChangesHold, Init
<1> QED BY <1>1, <1>2, <1>3, <1>4, <1>5, <1>6, <1>8 DEF IInv

\* Every step of sessions, hook, flush, crash and start keeps the invariant.
THEOREM Inductive ==
    Spec => []IInv
<1>1. Init => IInv
  BY InitHolds
<1>2. IInv /\ [Next]_vars => IInv'
  <2> SUFFICES ASSUME IInv, [Next]_vars PROVE IInv'
    OBVIOUS
  <2>1. TypeOK' /\ SessionsRun' /\ LocksHold' /\ DownHolds'
    BY TypeNext, SessionsNext, LocksNext, DownNext
  <2>2. PoolHolds' /\ FlushHolds' /\ MarksHold' /\ LogHolds' /\ ChangesHold'
    BY PoolNext, FlushNext, MarksNext, LogNext, ChangesNext
  <2> QED BY <2>1, <2>2 DEF IInv
<1> QED BY <1>1, <1>2, PTL DEF Spec

\* BufferPool.transactionComplete forces what a client is told is committed:
\* it is on disk for ever, whatever other sessions, aborts, failed writes, the
\* shutdown hook and crashes do.
THEOREM CommittedDurable ==
    Spec => []Durable
<1>1. IInv => Durable
  <2> SUFFICES ASSUME IInv, NEW t \in Ended("committed"), NEW p \in wrote[t]
               PROVE  t \in disk[p]
    BY DEF Durable
  <2>1. t \in Txns
    BY StorageAssumption, SMT DEF IInv, TypeOK, Ended, Begun, Txns
  <2>2. Kept(t, p)
    BY <2>1 DEF IInv, ChangesHold, Settled
  <2> QED BY <2>2 DEF Kept
<1> QED BY <1>1, Inductive, PTL

\* LogFile.logWrite before HeapFile.writePage: what an open transaction has on
\* disk, its log records undo.
THEOREM LoggedAhead ==
    Spec => []WriteAhead
<1>1. IInv => WriteAhead
  BY DEF IInv, WriteAhead, LogHolds, Stale, Undoes
<1> QED BY <1>1, Inductive, PTL

\* BufferPool's locks: nobody but its session sees the change of an open
\* transaction, until its pages are flushed.
THEOREM ChangesHidden ==
    Spec => []OpenChangesHidden
<1>1. IInv => OpenChangesHidden
  <2> SUFFICES ASSUME IInv, NEW p \in Pages, NEW t \in Content(p) \cap Ended("active")
               PROVE  \E s \in Sessions :
                        session[s].txn = t /\ (owner[p] = s \/ session[s].pc = "logging")
    BY DEF OpenChangesHidden
  <2>1. t \in Txns /\ t \in Begun /\ outcome[t] = "active"
    BY StorageAssumption, SMT DEF IInv, TypeOK, Ended, Begun, Txns
  <2>2. Marks(t, p)
    BY DEF Content, Loaded, Page, Marks
  <2> QED BY <2>1, <2>2, SMT DEF IInv, MarksHold, Runs
<1> QED BY <1>1, Inductive, PTL

----------------------------------------------------------------------------
(* Aborts, when no shutdown hook flushes behind the sessions' backs.       *)

\* What a session flushes is its own.
LEMMA FlushesOwn ==
    ASSUME IInv, Hooks = {}, NEW p \in flush.todo
    PROVE  \E r \in Sessions : owner[p] = r /\ session[r].pc = "flushing"
<1>1. PICK r \in Sessions : flush.by = r
  BY SMT DEF IInv, TypeOK, FlushHolds, NoFlush, Flush
<1>2. session[r].pc = "flushing" /\ p \in DirtiedBy(session[r].txn)
  BY <1>1 DEF IInv, FlushHolds
<1>3. p \in Pages /\ pool[p].dirty = session[r].txn /\ pool[p].dirty # None
  BY <1>2 DEF IInv, FlushHolds, DirtiedBy, InPool
<1>4. PICK q \in Sessions : owner[p] = q /\ Runs(q, session[r].txn)
  BY <1>3 DEF IInv, PoolHolds
<1>5. PICK t \in Txns : t = session[r].txn
  BY <1>3 DEF IInv, TypeOK, PageStates
<1>6. Runs(r, t) /\ Runs(q, t)
  BY <1>2, <1>4, <1>5 DEF Runs
<1>7. q = r
  BY <1>6 DEF IInv, SessionsRun
<1> QED BY <1>2, <1>4, <1>7

\* A transaction is undone once its abort has restored the disk.
LEMMA UndoneGrows ==
    ASSUME IInv, [Next]_vars, NEW t \in Txns, Undone(t)'
    PROVE  Undone(t) \/ \E s \in Sessions : logAbort(s) /\ session[s].txn = t
<1>t. TypeOK
  BY DEF IInv
<1>1. CASE t \in Ended("aborted")'
  <2>1. t \in Begun' /\ outcome'[t] = "aborted"
    BY <1>1 DEF Ended
  <2>2. t \in Begun
    BY <2>1, OutcomeMoves
  <2>3. CASE outcome[t] = "aborted"
    BY <2>2, <2>3 DEF Undone, Ended
  <2>4. CASE outcome[t] # "aborted"
    <3>1. PICK s \in Sessions : Runs(s, t) /\ discardPages(s)
      BY <2>1, <2>2, <2>4, OutcomeMoves
    <3> QED BY <3>1 DEF Runs, discardPages, Undone
  <2> QED BY <2>3, <2>4
<1>2. ASSUME NEW s \in Sessions, session'[s].pc = "discarding", session'[s].txn = t
      PROVE  Undone(t) \/ (logAbort(s) /\ session[s].txn = t)
  <2>1. CASE session'[s] = session[s]
    BY <1>2, <2>1 DEF Undone
  <2>2. CASE Moves(s)
    <3>1. logAbort(s)
      BY <1>2, <2>2 DEF Moves
    <3> QED BY <1>t, <1>2, <3>1 DEF logAbort, Goto, At, TypeOK
  <2>3. ~Crash
    BY <1>2, SMT DEF Crash, Idle, At
  <2> QED BY <2>1, <2>2, <2>3, SessionMoves
<1> QED BY <1>1, <1>2 DEF Undone

\* What rollback and the end of the abort erase of page p.
LEMMA AbortErases ==
    ASSUME IInv, [Next]_vars, NEW t \in Txns, NEW p \in Pages,
           NEW s \in Sessions, logAbort(s), session[s].txn = t
    PROVE  Erased(t, p)'
<1>t. TypeOK /\ LocksHold /\ PoolHolds /\ LogHolds
  BY DEF IInv
<1>a. Absent.val = {} /\ Absent.before = {}
  BY DEF Absent
<1>1. /\ session[s].pc \in {"active", "aborting"}
      /\ session'[s].pc = "discarding" /\ session'[s].txn = t
      /\ \A r \in Sessions \ {s} : session'[r] = session[r]
      /\ owner' = owner
  BY <1>t DEF logAbort, Goto, At, TypeOK
<1>2. t \in Ended("active") /\ Runs(s, t)
  BY <1>1, SMT DEF IInv, SessionsRun, Ended, Runs
<1>3. Marks(t, p) => owner[p] = s
  BY <1>1, MarkedLocked
<1>4. ASSUME NEW r \in Sessions, NEW u \in Txns, Open(r, u)'
      PROVE  /\ r # s /\ session[r].pc \notin {"idle", "logging"} /\ session[r].txn = u
             /\ UpdatesBy(log', u, p) = UpdatesBy(log, u, p)
             /\ \A i \in UpdatesBy(log, u, p) : i \in Updates(log, p) /\ log'[i] = log[i]
  <2>1. r # s /\ session[r].pc \notin {"idle", "logging"} /\ session[r].txn = u
    BY <1>1, <1>4 DEF Open, OpenPcs
  <2>2. LogMoves(u, p)
    BY LogSteps
  <2>3. ~Start /\ ~logWrite(p)
    <3>1. flush = NoFlush /\ session[s].pc # "idle"
      BY <1>1 DEF logAbort
    <3> QED BY <3>1 DEF Start, logWrite, NoFlush, Flush, IInv, DownHolds
  <2>4. UpdatesBy(log, u, p) \subseteq Updates(log, p)
    BY DEF UpdatesBy
  <2> QED BY <2>1, <2>2, <2>3, <2>4 DEF LogMoves
<1>5. CASE owner[p] = s
  <2>1. \A r \in Sessions : ~Changing(r, p)'
    <3> SUFFICES ASSUME NEW r \in Sessions, Changing(r, p)' PROVE FALSE
      OBVIOUS
    <3>1. r # s /\ Changing(r, p)
      BY <1>1 DEF Changing
    <3> QED BY <1>t, <1>5, <3>1 DEF LocksHold, Changing
  <2>2. \A r \in Sessions : \A u \in Txns : Open(r, u)' => UpdatesBy(log', u, p) = {}
    <3> SUFFICES ASSUME NEW r \in Sessions, NEW u \in Txns, Open(r, u)',
                        UpdatesBy(log', u, p) # {}
                 PROVE  FALSE
      OBVIOUS
    <3>1. r # s /\ session[r].pc \notin {"idle", "logging"} /\ Marks(session[r].txn, p)
      BY <1>4 DEF Marks
    <3>2. owner[p] = r
      BY <3>1, MarkedLocked
    <3> QED BY <1>5, <3>1, <3>2
  <2>3. t \notin disk'[p] /\ t \notin pool'[p].before
    <3>1. CASE UpdatesBy(log, t, p) = {}
      <4>1. disk'[p] = disk[p] /\ pool'[p] = pool[p]
        BY <3>1 DEF logAbort, rollback
      <4> QED BY <1>t, <1>2, <3>1, <4>1 DEF LogHolds, Stale
    <3>2. CASE UpdatesBy(log, t, p) # {}
      <4>1. PICK i \in UpdatesBy(log, t, p) : i = Earliest(UpdatesBy(log, t, p))
                                              /\ t \notin log[i].before
        BY <1>1, <3>2, FirstRecord
      <4>2. disk'[p] = log[i].before /\ pool'[p] = Absent
        BY <3>2, <4>1 DEF logAbort, rollback
      <4> QED BY <1>a, <4>1, <4>2
    <3> QED BY <3>1, <3>2
  <2> QED BY <1>1, <1>5, <2>1, <2>2, <2>3 DEF Erased
<1>6. CASE owner[p] # s
  <2>1. ~Marks(t, p)
    BY <1>3, <1>6
  <2>2. UpdatesBy(log, t, p) = {}
    BY <2>1 DEF Marks
  <2>3. disk'[p] = disk[p] /\ pool'[p] = pool[p]
    BY <2>2 DEF logAbort, rollback
  <2>4. t \notin disk'[p] /\ t \notin pool'[p].before /\ t \notin pool'[p].val
    BY <2>1, <2>3 DEF Marks
  <2>5. \A r \in Sessions : Changing(r, p)' =>
           t \notin session'[r].copy.val /\ t \notin session'[r].copy.before
    BY <1>1, <2>1 DEF Marks, Changing
  <2>6. \A r \in Sessions : \A u \in Txns : Open(r, u)' =>
           \A i \in UpdatesBy(log', u, p) : t \notin log'[i].before
    BY <1>4, <2>1, SMT DEF Marks
  <2> QED BY <2>4, <2>5, <2>6 DEF Erased
<1> QED BY <1>5, <1>6

\* An undone transaction changes nothing more.
LEMMA UndoneDone ==
    ASSUME IInv, NEW t \in Txns, Undone(t), NEW s \in Sessions, session[s].pc = "changing"
    PROVE  session[s].txn # t
<1>1. outcome[session[s].txn] = "active" /\ Runs(s, session[s].txn)
  BY DEF IInv, SessionsRun, Runs
<1>2. CASE t \in Ended("aborted")
  BY <1>1, <1>2 DEF Ended
<1>3. ASSUME NEW r \in Sessions, session[r].pc = "discarding", session[r].txn = t
      PROVE  session[s].txn # t
  <2>1. Runs(r, t) /\ r # s
    BY <1>3 DEF Runs
  <2> QED BY <1>1, <2>1, SMT DEF IInv, SessionsRun
<1> QED BY <1>2, <1>3 DEF Undone

\* What is erased stays erased.
LEMMA ErasedNext ==
    ASSUME IInv, [Next]_vars, Hooks = {}, NEW t \in Txns, Undone(t),
           NEW p \in Pages, Erased(t, p)
    PROVE  Erased(t, p)'
<1>t. TypeOK /\ LocksHold /\ PoolHolds /\ FlushHolds
  BY DEF IInv
<1>a. Absent.val = {} /\ Absent.before = {}
  BY DEF Absent
<1>p. \A v, d, b : Page(v, d, b).val = v /\ Page(v, d, b).before = b
  BY DEF Page
<1> DEFINE Discarding(s) == owner[p] = s /\ session[s].pc = "discarding" /\ session[s].txn = t
<1>k. /\ t \notin disk[p] /\ t \notin pool[p].before
      /\ t \in pool[p].val => \E s \in Sessions : Discarding(s)
      /\ \A s \in Sessions : Changing(s, p) =>
            t \notin session[s].copy.val /\ t \notin session[s].copy.before
      /\ \A s \in Sessions : \A u \in Txns : Open(s, u) =>
            \A i \in UpdatesBy(log, u, p) : t \notin log[i].before
  BY DEF Erased
<1>d. ASSUME NEW s \in Sessions, Discarding(s), ~Crash, ~discardPages(s)
      PROVE  Discarding(s)'
  <2>1. session'[s] = session[s]
    BY <1>d, SessionMoves DEF Moves
  <2>2. ~releaseAll(s)
    BY <1>t, <1>d DEF releaseAll, FlushHolds
  <2>3. owner'[p] = s
    BY <1>d, <2>2, LockMoves, StorageAssumption
  <2> QED BY <1>d, <2>1, <2>3
<1>1. /\ t \notin disk'[p] /\ t \notin pool'[p].before
      /\ t \in pool'[p].val => \E s \in Sessions : Discarding(s)'
  <2>1. CASE pool'[p] = Absent /\ disk'[p] = disk[p]
    BY <1>k, <1>a, <2>1
  <2>2. CASE pool'[p] = pool[p] /\ disk'[p] = disk[p]
    <3>1. ASSUME t \in pool'[p].val
          PROVE  \E s \in Sessions : Discarding(s)'
      <4>1. PICK s \in Sessions : Discarding(s)
        BY <1>k, <2>2, <3>1
      <4>2. ~Crash
        BY <1>a, <3>1 DEF Crash
      <4>3. ~discardPages(s)
        BY <1>a, <3>1, <4>1 DEF discardPages
      <4> QED BY <1>d, <4>1, <4>2, <4>3
    <3> QED BY <1>k, <2>2, <3>1
  <2>3. CASE writePage(p) /\ disk'[p] = pool[p].val
             /\ pool'[p] = Page(pool[p].val, None, pool[p].before)
    <3>1. p \in flush.todo
      BY <1>t, <2>3, StorageAssumption DEF writePage, FlushHolds
    <3>2. PICK r \in Sessions : owner[p] = r /\ session[r].pc = "flushing"
      BY <3>1, FlushesOwn
    <3>3. t \notin pool[p].val
      BY <1>k, <3>2
    <3> QED BY <1>k, <1>p, <2>3, <3>3, SMT
  <2>4. ASSUME NEW s \in Sessions, markDirty(s), session[s].page = p, disk'[p] = disk[p],
               pool'[p] = Page(session[s].copy.val \cup {session[s].txn}, session[s].txn,
                               session[s].copy.before)
        PROVE  t \notin disk'[p] /\ t \notin pool'[p].before /\ t \notin pool'[p].val
    <3>1. Changing(s, p)
      BY <2>4 DEF markDirty, Changing
    <3>2. session[s].txn # t
      BY <3>1, UndoneDone DEF Changing
    <3> QED BY <1>k, <1>p, <2>4, <3>1, <3>2, SMT
  <2>5. ASSUME NEW s \in Sessions, releaseAll(s), owner[p] = s, disk'[p] = disk[p],
               pool'[p] = Page(pool[p].val, pool[p].dirty, pool[p].val)
        PROVE  t \notin disk'[p] /\ t \notin pool'[p].before /\ t \notin pool'[p].val
    <3>1. session[s].pc = "flushing"
      BY <1>t, <2>5 DEF releaseAll, FlushHolds
    <3> QED BY <1>k, <1>p, <2>5, <3>1, SMT
  <2>6. ASSUME NEW s \in Sessions, logAbort(s), UpdatesBy(log, session[s].txn, p) # {},
               disk'[p] = log[Earliest(UpdatesBy(log, session[s].txn, p))].before,
               pool'[p] = Absent
        PROVE  t \notin disk'[p] /\ t \notin pool'[p].before /\ t \notin pool'[p].val
    <3>1. session[s].pc \in {"active", "aborting"}
      BY <2>6 DEF logAbort
    <3>2. PICK u \in Txns : u = session[s].txn
      BY <3>1, StorageAssumption, SMT DEF IInv, TypeOK, SessionsRun, Begun, Txns
    <3>3. PICK i \in UpdatesBy(log, u, p) : i = Earliest(UpdatesBy(log, session[s].txn, p))
      BY <2>6, <3>1, <3>2, FirstRecord
    <3>4. Open(s, u)
      BY <3>1, <3>2 DEF Open, OpenPcs
    <3>5. t \notin log[i].before
      BY <1>k, <3>3, <3>4
    <3> QED BY <1>a, <2>6, <3>3, <3>5
  <2>7. CASE disk'[p] = disk[p] /\ pool'[p] = Page(disk[p], None, disk[p])
    BY <1>k, <1>p, <2>7, SMT
  <2> HIDE DEF Discarding
  <2> QED
    BY <2>1, <2>2, <2>3, <2>4, <2>5, <2>6, <2>7, PageMoves DEF PoolMoves
<1>2. ASSUME NEW s \in Sessions, Changing(s, p)'
      PROVE  t \notin session'[s].copy.val /\ t \notin session'[s].copy.before
  <2>1. CASE Changing(s, p) /\ session'[s] = session[s]
    BY <1>k, <2>1
  <2>2. CASE getPage(s, p) /\ session'[s].copy = Loaded(p)
    <3>1. owner[p] \in {Nobody, s} /\ session[s].pc = "active"
      BY <2>2 DEF getPage, CanLock
    <3>2. t \notin pool[p].val
      BY <1>k, <3>1, StorageAssumption
    <3> QED BY <1>k, <1>p, <2>2, <3>2, SMT DEF Loaded
  <2> QED BY <1>2, <2>1, <2>2, CopyMoves
<1>3. ASSUME NEW s \in Sessions, NEW u \in Txns, Open(s, u)', NEW i \in UpdatesBy(log', u, p)
      PROVE  t \notin log'[i].before
  <2>1. u \in Begun
    BY <1>3, LoggedBegun
  <2>2. Open(s, u)
    BY <1>3, <2>1, OpenBack
  <2>3. LogMoves(u, p)
    BY LogSteps
  <2>4. CASE i \in UpdatesBy(log, u, p) /\ log'[i] = log[i]
    BY <1>k, <2>2, <2>4
  <2>5. CASE logWrite(p) /\ log'[i].before = pool[p].before
    BY <1>k, <2>5
  <2>6. UpdatesBy(log, u, p) \subseteq Updates(log, p)
    BY DEF UpdatesBy
  <2> QED BY <1>3, <2>3, <2>4, <2>5, <2>6 DEF LogMoves
<1> QED BY <1>1, <1>2, <1>3 DEF Erased

\* LogFile.logAbort and BufferPool.transactionComplete: while the process is
\* only ever killed, an aborted transaction is gone, from disk and pool, for
\* ever, also where a failed commit had flushed its pages.
THEOREM AbortsErase ==
    ASSUME Hooks = {}
    PROVE  Spec => []AbortLeavesNothing
<1>1. Init => AbortsHold
  BY SMT DEF Init, AbortsHold, Undone, Ended, Begun, Idle, At
<1>2. IInv /\ AbortsHold /\ [Next]_vars => AbortsHold'
  <2> SUFFICES ASSUME IInv, AbortsHold, [Next]_vars,
                      NEW t \in Txns, Undone(t)', NEW p \in Pages
               PROVE  Erased(t, p)'
    BY DEF AbortsHold
  <2>1. CASE Undone(t)
    <3>1. Erased(t, p)
      BY <2>1 DEF AbortsHold
    <3> QED BY <2>1, <3>1, ErasedNext
  <2>2. ASSUME NEW s \in Sessions, logAbort(s), session[s].txn = t
        PROVE  Erased(t, p)'
    BY <2>2, AbortErases
  <2> QED BY <2>1, <2>2, UndoneGrows
<1>3. IInv /\ AbortsHold => AbortLeavesNothing
  <2> SUFFICES ASSUME IInv, AbortsHold, NEW t \in Ended("aborted"), NEW p \in Pages
               PROVE  t \notin disk[p] /\ t \notin Content(p)
    BY DEF AbortLeavesNothing
  <2>1. t \in Txns /\ outcome[t] = "aborted"
    BY StorageAssumption, SMT DEF IInv, TypeOK, Ended, Begun, Txns
  <2>2. Erased(t, p)
    BY <2>1 DEF AbortsHold, Undone
  <2>3. t \notin disk[p] /\ t \notin pool[p].val
    BY <2>1, <2>2 DEF Erased, IInv, SessionsRun
  <2> QED BY <2>3 DEF Content, Loaded, Page
<1> QED BY <1>1, <1>2, <1>3, Inductive, PTL DEF Spec
=============================================================================
