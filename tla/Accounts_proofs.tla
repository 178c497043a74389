-------------------------- MODULE Accounts_proofs --------------------------
(***************************************************************************)
(* Proofs that accounts keep apart, that a client is told the truth about  *)
(* its account and that the turn to register is accounted for, for any     *)
(* number of workers, connections, requests, rows to a page and faults.    *)
(***************************************************************************)
EXTENDS AccountsProps, TLAPS

\* A leaf is for Zenon, unless it names another prover.
USE ZenonT(40)

-----------------------------------------------------------------------------
(* What the parts of the state are. *)

LEMMA NoneIs == \A c \in Conns : c # None /\ c \in Nat
<1>1. \A c \in Conns : c \in Nat
  BY AccountsAssumption, SMT DEF Conns
<1> QED BY <1>1, AccountsAssumption

LEMMA SessionFields ==
    ASSUME NEW s \in Sessions
    PROVE  /\ s.open \in BOOLEAN /\ s.stmt \in Statements \cup {None} /\ s.pos \in Nat \ {0}
           /\ s.seen \subseteq RowSet /\ s.answer \in Answers \cup {None} /\ s.txn \in BOOLEAN
           /\ s.rd \subseteq Nat /\ s.wr \subseteq Nat
  BY SMT DEF Sessions

LEMMA RowFields == \A r \in RowSet : r.id \in Int /\ r.by \in Conns \cup {None} /\ r.name \in Names
  BY SMT DEF RowSet

LEMMA AnswerFields == \A a \in Answers : a.st \in {"ok", "retry", "error"} /\ a.rows \subseteq RowSet
  BY SMT DEF Answers

LEMMA WorkerFields ==
    ASSUME NEW s \in WorkerStates
    PROVE  /\ s.at \in Talking \cup {"gate", "turn", "open", "answer", "in", "dropped", "killed"}
           /\ s.ask \in Asks \cup {None} /\ s.tries \in Nat /\ s.frozen \in BOOLEAN
           /\ s.turn \in BOOLEAN /\ s.attempt \in Nat /\ s.c \in Conns \cup {None}
           /\ s.next \in Int \cup {None} /\ s.status \in Statuses /\ s.name \in Names
  BY SMT DEF WorkerStates

\* A row keeps all but its mark when its transaction commits.
LEMMA KeptIs ==
    ASSUME NEW r \in RowSet, NEW c \in Conns
    PROVE  /\ Kept(r, c) \in RowSet
           /\ Kept(r, c).id = r.id /\ Kept(r, c).name = r.name
           /\ Kept(r, c).digest = r.digest /\ Kept(r, c).salt = r.salt
           /\ r.by = c => Kept(r, c).by = None
           /\ r.by # c => Kept(r, c) = r
  BY SMT DEF Kept, RowSet

LEMMA PageFields ==
    ASSUME pages \in Seq(SUBSET RowSet)
    PROVE  /\ Len(pages) \in Nat /\ DOMAIN pages = 1..Len(pages)
           /\ \A p \in DOMAIN pages : p \in Nat \ {0} /\ pages[p] \subseteq RowSet
<1>1. Len(pages) \in Nat /\ DOMAIN pages = 1..Len(pages) /\ \A p \in 1..Len(pages) : pages[p] \subseteq RowSet
  BY SMT
<1>2. \A p \in 1..Len(pages) : p \in Nat \ {0}
  BY <1>1, SMT
<1> QED BY <1>1, <1>2

LEMMA RowsAre ==
    ASSUME pages \in Seq(SUBSET RowSet)
    PROVE  /\ Rows \subseteq RowSet /\ Committed \subseteq Rows
           /\ \A r \in Rows : \E p \in DOMAIN pages : r \in pages[p]
           /\ \A p \in DOMAIN pages : pages[p] \subseteq Rows
  BY PageFields DEF Rows, Committed

-----------------------------------------------------------------------------
(* What a step of session c leaves to the others. *)

\* Rows of other sessions stay, committed rows stay, and pages that others read do not grow.
PagesStep(c) ==
  /\ pages' \in Seq(SUBSET RowSet) /\ Len(pages) <= Len(pages') /\ Committed \subseteq Committed'
  /\ \A p \in DOMAIN pages' : \A r \in pages'[p] :
       r.by \notin {None, c} => p \in DOMAIN pages /\ r \in pages[p]
  /\ \A r \in Rows : r.by \notin {None, c} => r \in Rows'
  /\ \A d \in Conns \ {c} : \A p \in conn[d].rd : pages'[p] \subseteq pages[p]

\* No row comes to life; at most the rows of c are committed.
LiveStep(c) == Live' \subseteq Live \/ \A r \in Live' : \E q \in Live : r = Kept(q, c)

LEMMA SettledStays ==
    ASSUME Committed \subseteq Committed', NEW rows, Settled(rows)
    PROVE  rows \subseteq Committed' /\ Topped(rows)
  BY DEF Settled

LEMMA DomainGrows ==
    ASSUME IInv, NEW c \in Conns, PagesStep(c)
    PROVE  /\ DOMAIN pages \subseteq DOMAIN pages'
           /\ Len(pages) \in Nat /\ DOMAIN pages = 1..Len(pages)
           /\ Len(pages') \in Nat /\ DOMAIN pages' = 1..Len(pages')
<1>1. Len(pages) \in Nat /\ DOMAIN pages = 1..Len(pages)
  BY PageFields DEF IInv, AccountsTypeOK
<1>2. Len(pages') \in Nat /\ DOMAIN pages' = 1..Len(pages')
  <2>1. pages' \in Seq(SUBSET RowSet)
    BY DEF PagesStep
  <2> QED BY <2>1, SMT
<1>3. Len(pages) <= Len(pages')
  BY DEF PagesStep
<1>4. 1..Len(pages) \subseteq 1..Len(pages')
  BY <1>1, <1>2, <1>3, SMT
<1> QED BY <1>1, <1>2, <1>4

LEMMA SessionStays ==
    ASSUME IInv, NEW c \in Conns, NEW d \in Conns \ {c}, PagesStep(c), conn'[d] = conn[d]
    PROVE  SessionHolds(d)'
<1> DEFINE s == conn[d]
<1>h. SessionHolds(d) /\ d # None
  BY NoneIs DEF IInv
<1>p. /\ DOMAIN pages \subseteq DOMAIN pages' /\ Len(pages) \in Nat /\ Len(pages') \in Nat
      /\ Len(pages) <= Len(pages')
  BY DomainGrows DEF PagesStep
<1>t. s \in Sessions
  BY DEF IInv, AccountsTypeOK
<1>1. Held(d)' \subseteq DOMAIN pages' /\ s.pos <= Len(pages') + 1
  <2>1. Held(d) \subseteq DOMAIN pages /\ s.pos <= Len(pages) + 1
    BY <1>h DEF SessionHolds
  <2>3. s.pos \in Nat
    BY <1>t, SessionFields
  <2> HIDE DEF s
  <2>4. s.pos <= Len(pages') + 1
    BY <1>p, <2>1, <2>3, SMT
  <2> QED BY <1>p, <2>1, <2>4 DEF Held, s
<1>2. s.stmt # None /\ s.stmt.op \in {"select", "insert"} => \A r \in Rows' : r.by # d
  <2>1. \A r \in Rows' : r.by = d => r \in Rows
    <3> SUFFICES ASSUME NEW r \in Rows', r.by = d PROVE r \in Rows
      OBVIOUS
    <3>1. PICK p \in DOMAIN pages' : r \in pages'[p]
      BY DEF Rows
    <3> QED BY <1>h, <3>1 DEF PagesStep, Rows
  <2> QED BY <1>h, <2>1 DEF SessionHolds
<1>3. s.stmt # None /\ s.stmt.op = "select" =>
        \A p \in 1..s.pos - 1 : p \in s.rd /\ pages'[p] \subseteq s.seen
  BY <1>h DEF SessionHolds, PagesStep
<1>4. s.seen \subseteq Committed' /\ Topped(s.seen)
  BY <1>h, SettledStays DEF SessionHolds, PagesStep
<1>5. s.answer # None => s.answer.rows \subseteq Committed' /\ Topped(s.answer.rows)
  BY <1>h, SettledStays DEF SessionHolds, PagesStep
<1> QED BY <1>h, <1>1, <1>2, <1>3, <1>4, <1>5 DEF SessionHolds, Settled, Topped

LEMMA KeptLive ==
    ASSUME IInv, NEW c \in Conns, LiveStep(c), NEW rows, rows \subseteq Committed, Live \subseteq rows
    PROVE  Live' \subseteq rows
<1> SUFFICES ASSUME NEW r \in Live' PROVE r \in rows
  OBVIOUS
<1>1. CASE r \in Live
  BY <1>1
<1>2. ASSUME NEW q \in Live, r = Kept(q, c) PROVE r \in rows
  <2>1. q \in rows /\ q.by = None /\ q \in RowSet
    BY <1>2, RowsAre DEF Committed, IInv, AccountsTypeOK
  <2>2. q.by # c
    BY <2>1, NoneIs
  <2> QED BY <1>2, <2>1, <2>2, KeptIs
<1> QED BY <1>1, <1>2 DEF LiveStep

\* Ids and names of live rows are those of rows that were live.
LEMMA LiveFields ==
    ASSUME IInv, NEW c \in Conns, LiveStep(c), NEW r \in Live'
    PROVE  \E q \in Live : q.id = r.id /\ q.name = r.name
<1>1. CASE r \in Live
  BY <1>1
<1>2. ASSUME NEW q \in Live, r = Kept(q, c) PROVE q.id = r.id /\ q.name = r.name
  <2>1. q \in RowSet
    BY RowsAre DEF Live, IInv, AccountsTypeOK
  <2> QED BY <1>2, <2>1, KeptIs
<1> QED BY <1>1, <1>2 DEF LiveStep

LEMMA LiveStaysUnique ==
    ASSUME IInv, NEW c \in Conns, LiveStep(c)
    PROVE  LiveUnique'
<1>1. CASE Live' \subseteq Live
  BY <1>1 DEF LiveUnique, IInv
<1>2. CASE \A r \in Live' : \E q \in Live : r = Kept(q, c)
  <2> SUFFICES ASSUME NEW r \in Live', NEW s \in Live', r.id = s.id \/ r.name = s.name PROVE r = s
    BY DEF LiveUnique
  <2>1. PICK q \in Live, t \in Live : r = Kept(q, c) /\ s = Kept(t, c)
    BY <1>2
  <2>2. q \in RowSet /\ t \in RowSet
    BY RowsAre DEF Live, IInv, AccountsTypeOK
  <2>3. q.id = t.id \/ q.name = t.name
    BY <2>1, <2>2, KeptIs
  <2> QED BY <2>1, <2>3 DEF LiveUnique, IInv
<1> QED BY <1>1, <1>2 DEF LiveStep

LEMMA RegStays ==
    ASSUME IInv, NEW c \in Conns, PagesStep(c), NEW w \in Workers, worker'[w] = worker[w],
           worker[w].c # None, worker[w].c # c, conn'[worker[w].c] = conn[worker[w].c],
           worker[w].ask.method = "LOGIN" \/ LiveStep(c)
    PROVE  RegHolds(w)'
<1>h. RegHolds(w)
  BY DEF IInv
<1>s. Said(w)' = Said(w) /\ (Fine(w)' <=> Fine(w)) /\ Folded(w)' = Folded(w) /\ (Inserted(w)' <=> Inserted(w))
      /\ \A r : IsOf(w, r)' <=> IsOf(w, r)
  BY DEF Said, Fine, Folded, Inserted, IsOf, Matches
<1>c. worker[w].c \in Conns
  BY WorkerFields DEF IInv, AccountsTypeOK
<1>k. Committed \subseteq Committed'
  BY DEF PagesStep
<1>r. /\ \A r \in Rows' : r.by = worker[w].c => r \in Rows
      /\ \A r \in Rows : r.by = worker[w].c => r \in Rows'
  <2>1. ASSUME NEW r \in Rows', r.by = worker[w].c PROVE r \in Rows
    <3>1. PICK p \in DOMAIN pages' : r \in pages'[p]
      BY DEF Rows
    <3> QED BY <2>1, <3>1 DEF PagesStep, Rows
  <2>2. ASSUME NEW r \in Rows, r.by = worker[w].c PROVE r \in Rows'
    BY <2>2 DEF PagesStep
  <2> QED BY <2>1, <2>2
<1>1. worker[w].ask.method # "LOGIN" => Registers(w)'
  <2> SUFFICES ASSUME worker[w].ask.method # "LOGIN" PROVE Registers(w)'
    OBVIOUS
  <2>h. Registers(w) /\ LiveStep(c)
    BY <1>h DEF RegHolds
  <2>1. worker[w].at \in {"maxid", "find"} /\ Fine(w) => Live' \subseteq Said(w).rows
    <3> SUFFICES ASSUME worker[w].at \in {"maxid", "find"}, Fine(w) PROVE Live' \subseteq Said(w).rows
      OBVIOUS
    <3>1. Live \subseteq Said(w).rows
      BY <2>h DEF Registers
    <3>2. Said(w).rows \subseteq Committed
      BY <1>c DEF IInv, SessionHolds, Settled, Fine, Said
    <3> QED BY <2>h, <3>1, <3>2, KeptLive
  <2>2. worker[w].at \in {"find", "insert"} /\ ~Inserted(w) => \A r \in Live' : r.id < worker[w].next
    BY <2>h, LiveFields DEF Registers
  <2>3. worker[w].at = "insert" /\ ~Inserted(w) => \A r \in Live' : r.name # Folded(w)
    BY <2>h, LiveFields DEF Registers
  <2> QED BY <2>h, <1>s, <2>1, <2>2, <2>3 DEF Registers
<1>2. \A r \in Rows' : r.by = worker[w].c => IsOf(w, r) /\ (Inserted(w) \/ Commits(w))
  BY <1>h, <1>r DEF RegHolds, Commits
<1>3. Inserted(w) \/ Commits(w) => \E r \in Rows' : r.by = worker[w].c
  BY <1>h, <1>r DEF RegHolds, Commits
<1>4. worker[w].at = "commit" /\ Fine(w) => \E r \in Committed' : IsOf(w, r)
  BY <1>h, <1>k DEF RegHolds
<1>5. worker[w].at = "rollback" => \E r \in Committed' : r.name = Folded(w)
  BY <1>h, <1>k DEF RegHolds
<1> QED BY <1>s, <1>1, <1>2, <1>3, <1>4, <1>5 DEF RegHolds, Commits

LEMMA AnswerStays ==
    ASSUME Committed \subseteq Committed', NEW w \in Workers, worker'[w] = worker[w], AnswerHolds(w)
    PROVE  AnswerHolds(w)'
<1>1. AccountsOf(w) \subseteq AccountsOf(w)' /\ \A r : Matches(w, r)' <=> Matches(w, r)
  BY DEF AccountsOf, Matches
<1>2. ASSUME Backed(w) PROVE Backed(w)'
  <2>1. worker[w].status = 200 /\ worker[w].name # "" =>
          \E r \in AccountsOf(w)' : r.id = worker[w].next /\ Matches(w, r)'
    BY <1>1, <1>2 DEF Backed
  <2>2. worker[w].status = 409 => AccountsOf(w)' # {}
    BY <1>1, <1>2, SMT DEF Backed
  <2>3. worker[w].status = 401 /\ worker[w].ask.method = "LOGIN" =>
          \E r \in AccountsOf(w)' : ~Matches(w, r)'
    BY <1>1, <1>2 DEF Backed
  <2> DEFINE u == worker'[w]
  <2>4. u = worker[w]
    OBVIOUS
  <2>5. Backed(w)' <=>
          /\ u.status = 200 /\ u.name # "" => \E r \in AccountsOf(w)' : r.id = u.next /\ Matches(w, r)'
          /\ u.status = 409 => AccountsOf(w)' # {}
          /\ u.status = 401 /\ u.ask.method = "LOGIN" => \E r \in AccountsOf(w)' : ~Matches(w, r)'
    BY DEF Backed
  <2> HIDE DEF u
  <2> QED BY <2>1, <2>2, <2>3, <2>4, <2>5
<1> QED BY <1>2 DEF AnswerHolds, Folded

LEMMA TokensStay ==
    ASSUME Committed \subseteq Committed', tokens' = tokens, TokensHold
    PROVE  TokensHold'
  BY DEF TokensHold

\* New locks were free, and the rows of c are where c has locks.
LEMMA LocksStep ==
    ASSUME IInv, NEW c \in Conns, PagesStep(c), \A d \in Conns \ {c} : conn'[d] = conn[d],
           \A p \in conn'[c].wr : p \in conn[c].wr \/ Writable(c, p),
           \A p \in conn'[c].rd : p \in conn[c].rd \/ Readable(c, p),
           \A p \in DOMAIN pages' : \A r \in pages'[p] :
              r.by = c => conn'[c].txn /\ p \in conn'[c].wr
    PROVE  LocksHold'
<1>h. LocksHold
  BY DEF IInv
<1>1. ASSUME NEW b \in Conns, NEW d \in Conns, b # d, NEW p \in conn'[b].wr, p \in Held(d)'
      PROVE  FALSE
  <2>a. \A a, e \in Conns : a # e => \A q \in conn[a].wr : q \notin conn[e].rd /\ q \notin conn[e].wr
    BY <1>h DEF LocksHold, Held
  <2>b. p \in conn'[d].rd \/ p \in conn'[d].wr
    BY <1>1 DEF Held
  <2>1. CASE b # c /\ d # c
    <3>1. conn'[b] = conn[b] /\ conn'[d] = conn[d]
      BY <2>1
    <3> QED BY <1>1, <2>a, <2>b, <3>1
  <2>2. CASE b = c
    <3>1. conn'[d] = conn[d] /\ d \in Conns \ {c}
      BY <1>1, <2>2
    <3>2. p \notin conn[c].wr
      BY <1>1, <2>2, <2>a, <2>b, <3>1
    <3>3. Writable(c, p)
      BY <1>1, <2>2, <3>2
    <3> QED BY <2>b, <3>1, <3>3 DEF Held, Writable
  <2>3. CASE d = c
    <3>1. conn'[b] = conn[b] /\ b \in Conns \ {c} /\ p \in conn[b].wr
      BY <1>1, <2>3
    <3>2. CASE p \in conn'[c].wr
      <4>1. p \notin conn[c].wr
        BY <1>1, <2>3, <2>a, <3>1
      <4>2. Writable(c, p)
        BY <3>2, <4>1
      <4> QED BY <3>1, <4>2 DEF Held, Writable
    <3>3. CASE p \in conn'[c].rd
      <4>1. p \notin conn[c].rd
        BY <1>1, <2>3, <2>a, <3>1
      <4>2. Readable(c, p)
        BY <3>3, <4>1
      <4> QED BY <3>1, <4>2 DEF Readable
    <3> QED BY <2>3, <2>b, <3>2, <3>3
  <2> QED BY <2>1, <2>2, <2>3
<1>2. ASSUME NEW p \in DOMAIN pages', NEW r \in pages'[p], r.by # None
      PROVE  conn'[r.by].txn /\ p \in conn'[r.by].wr
  <2>1. CASE r.by = c
    BY <2>1
  <2>2. CASE r.by # c
    <3>1. p \in DOMAIN pages /\ r \in pages[p]
      BY <1>2, <2>2 DEF PagesStep
    <3>2. r.by \in Conns
      <4>1. r \in RowSet
        BY <3>1, PageFields DEF IInv, AccountsTypeOK
      <4> QED BY <1>2, <4>1, RowFields
    <3> QED BY <1>2, <1>h, <2>2, <3>1, <3>2 DEF LocksHold
  <2> QED BY <2>1, <2>2
<1> QED BY <1>1, <1>2 DEF LocksHold

LEMMA PagesSame ==
    ASSUME IInv, pages' = pages
    PROVE  /\ \A c \in Conns : PagesStep(c)
           /\ Rows' = Rows /\ Committed' = Committed /\ RowsHold'
<1>1. Rows' = Rows
  BY DEF Rows
<1>2. Committed' = Committed
  BY <1>1 DEF Committed
<1>3. Len(pages) <= Len(pages')
  <2>1. Len(pages) \in Nat
    BY PageFields DEF IInv, AccountsTypeOK
  <2> DEFINE n == Len(pages)
  <2> HIDE DEF n
  <2>2. n <= n
    BY <2>1, SMT DEF n
  <2> QED BY <2>2 DEF n
<1> QED BY <1>1, <1>2, <1>3 DEF PagesStep, RowsHold, IInv, AccountsTypeOK

\* A step of the server for session c.
LEMMA ServerStep ==
    ASSUME IInv, NEW c \in Conns, PagesStep(c), UNCHANGED <<worker, sem, opened, tokens>>,
           conn' \in [Conns -> Sessions], \A d \in Conns \ {c} : conn'[d] = conn[d],
           conn'[c].open = conn[c].open, conn'[c].stmt \in {None, conn[c].stmt},
           c > opened => conn'[c] = NoSession,
           LocksHold', RowsHold', SessionHolds(c)',
           \A w \in Workers : worker[w].c = c => RegHolds(w)',
           \/ LiveStep(c)
           \/ LiveUnique' /\ \A w \in Workers : worker[w].c \notin {None, c} => worker[w].ask.method = "LOGIN"
    PROVE  IInv'
<1>k. Committed \subseteq Committed'
  BY DEF PagesStep
<1>1. AccountsTypeOK'
  BY DEF IInv, AccountsTypeOK, PagesStep
<1>2. TurnHolds'
  BY DEF IInv, TurnHolds, TurnAccounted
<1>3. OwnersHold'
  <2>h. OwnersHold
    BY DEF IInv
  <2>1. \A w \in Workers : Statement(w)' = Statement(w)
    BY DEF Statement
  <2>2. \A w \in Workers : worker[w].c # None => worker[w].c \in Conns
    BY WorkerFields DEF IInv, AccountsTypeOK
  <2>3. \A w \in Workers : worker[w].c # None => conn'[worker[w].c].open
    BY <2>h, <2>2 DEF OwnersHold
  <2>4. \A d \in Conns : conn'[d].open => \E w \in Workers : worker[w].c = d
    BY <2>h DEF OwnersHold
  <2>5. \A d \in Conns : d > opened => conn'[d] = NoSession
    BY <2>h DEF OwnersHold
  <2>6. \A w \in Workers : worker[w].c # None /\ conn'[worker[w].c].stmt # None =>
          conn'[worker[w].c].stmt = Statement(w)
    BY <2>h, <2>2, SMT DEF OwnersHold
  <2> QED BY <2>h, <2>1, <2>3, <2>4, <2>5, <2>6, SMT DEF OwnersHold
<1>4. LiveUnique'
  BY LiveStaysUnique
<1>5. \A d \in Conns : SessionHolds(d)'
  BY SessionStays
<1>6. \A w \in Workers : AnswerHolds(w)'
  BY <1>k, AnswerStays DEF IInv
<1>7. \A w \in Workers : worker[w].c # None => RegHolds(w)'
  <2> SUFFICES ASSUME NEW w \in Workers, worker[w].c # None PROVE RegHolds(w)'
    OBVIOUS
  <2>1. CASE worker[w].c = c
    BY <2>1
  <2>2. CASE worker[w].c # c
    <3>1. worker[w].c \in Conns
      BY WorkerFields DEF IInv, AccountsTypeOK
    <3>2. worker[w].ask.method = "LOGIN" \/ LiveStep(c)
      BY <2>2
    <3> QED BY <2>2, <3>1, <3>2, RegStays
  <2> QED BY <2>1, <2>2
<1>8. TokensHold'
  BY <1>k, TokensStay DEF IInv
<1> QED BY <1>1, <1>2, <1>3, <1>4, <1>5, <1>6, <1>7, <1>8 DEF IInv

\* A step of worker w, who may have a hand in session c.
LEMMA WorkerStep ==
    ASSUME IInv, NEW w \in Workers, NEW c \in Conns, pages' = pages,
           AccountsTypeOK', TurnHolds', OwnersHold', LocksHold', SessionHolds(c)', Live' \subseteq Live,
           \A v \in Workers \ {w} : worker'[v] = worker[v] /\ worker[v].c # c,
           \A d \in Conns \ {c} : conn'[d] = conn[d],
           TokensHold', AnswerHolds(w)', worker'[w].c # None => RegHolds(w)'
    PROVE  IInv'
<1>k. PagesStep(c) /\ RowsHold' /\ Committed \subseteq Committed'
  BY PagesSame
<1>l. LiveStep(c)
  BY DEF LiveStep
<1>4. LiveUnique'
  BY <1>l, LiveStaysUnique
<1>5. \A d \in Conns : SessionHolds(d)'
  BY <1>k, SessionStays
<1>6. \A v \in Workers : AnswerHolds(v)'
  BY <1>k, AnswerStays DEF IInv
<1>7. \A v \in Workers : worker'[v].c # None => RegHolds(v)'
  <2> SUFFICES ASSUME NEW v \in Workers, worker'[v].c # None PROVE RegHolds(v)'
    OBVIOUS
  <2>1. CASE v = w
    BY <2>1
  <2>2. CASE v # w
    <3>1. worker[v].c \in Conns /\ worker[v].c # c /\ worker[v].c # None /\ worker'[v] = worker[v]
      <4>1. worker'[v] = worker[v] /\ worker[v].c # c
        BY <2>2
      <4>2. worker[v].c # None
        BY <4>1
      <4> QED BY <4>1, <4>2, WorkerFields DEF IInv, AccountsTypeOK
    <3> QED BY <1>k, <1>l, <3>1, RegStays
  <2> QED BY <2>1, <2>2
<1> QED BY <1>k, <1>4, <1>5, <1>6, <1>7 DEF IInv

-----------------------------------------------------------------------------
(* The statements that leave the table alone. *)

LEMMA SessionSet ==
    ASSUME IInv, NEW c \in Conns, NEW s \in Sessions, conn' = [conn EXCEPT ![c] = s]
    PROVE  conn' \in [Conns -> Sessions] /\ conn'[c] = s /\ \A d \in Conns \ {c} : conn'[d] = conn[d]
  BY DEF IInv, AccountsTypeOK

LEMMA SaysIs ==
    ASSUME NEW st \in {"ok", "retry", "error"}, NEW rows, rows \subseteq RowSet
    PROVE  /\ Says(st, rows) \in Answers /\ Says(st, rows) # None
           /\ Says(st, rows).st = st /\ Says(st, rows).rows = rows
<1>1. Says(st, rows) \in Answers /\ Says(st, rows).st = st /\ Says(st, rows).rows = rows
  BY SMT DEF Says, Answers
<1> QED BY <1>1, AccountsAssumption

\* Session c is at the end of a statement with answer a.
EndsAs(c, a, s) ==
  /\ s \in Sessions /\ s.open = conn[c].open /\ s.stmt = None /\ s.pos = 1 /\ s.seen = {}
  /\ s.answer = IF conn[c].open THEN a ELSE None
  /\ s.rd \subseteq conn[c].rd /\ s.wr \subseteq conn[c].wr

LEMMA EndedIs ==
    ASSUME IInv, NEW c \in Conns, NEW a \in Answers
    PROVE  /\ EndsAs(c, a, Ended(c, a, TRUE)) /\ Ended(c, a, TRUE).txn
           /\ Ended(c, a, TRUE).wr = conn[c].wr
           /\ EndsAs(c, a, Ended(c, a, FALSE)) /\ Ended(c, a, FALSE).wr = {}
           /\ EndsAs(c, a, Ended(c, a, conn[c].txn)) /\ Ended(c, a, conn[c].txn).txn = conn[c].txn
           /\ conn[c].txn => Ended(c, a, conn[c].txn).wr = conn[c].wr
<1>1. conn[c] \in Sessions
  BY DEF IInv, AccountsTypeOK
<1>2. /\ conn[c].open \in BOOLEAN /\ conn[c].rd \subseteq Nat /\ conn[c].wr \subseteq Nat
      /\ conn[c].txn \in BOOLEAN
  BY <1>1, SessionFields
<1>3. EndsAs(c, a, Ended(c, a, TRUE)) /\ Ended(c, a, TRUE).txn /\ Ended(c, a, TRUE).wr = conn[c].wr
  BY <1>2, SMT DEF Ended, Sessions, EndsAs
<1>4. EndsAs(c, a, Ended(c, a, FALSE)) /\ Ended(c, a, FALSE).wr = {}
  BY <1>2, SMTT(20) DEF Ended, Sessions, EndsAs
<1>5. EndsAs(c, a, Ended(c, a, conn[c].txn)) /\ Ended(c, a, conn[c].txn).txn = conn[c].txn
  BY <1>2, SMT DEF Ended, Sessions, EndsAs
<1>6. conn[c].txn => Ended(c, a, conn[c].txn).wr = conn[c].wr
  BY <1>2, SMT DEF Ended
<1> QED BY <1>3, <1>4, <1>5, <1>6

\* The session of a worker runs the statement of the place the worker is at.
LEMMA OwnerIs ==
    ASSUME IInv, NEW c \in Conns, NEW w \in Workers, worker[w].c = c, conn[c].stmt # None
    PROVE  /\ conn[c].open /\ conn[c].answer = None /\ RegHolds(w) /\ worker[w].c # None
           /\ worker[w].at \in Talking
           /\ conn[c].stmt = Statement(w)
           /\ conn[c].stmt.op = IF worker[w].at \in {"maxid", "find"} THEN "select" ELSE worker[w].at
<1>1. c # None
  BY NoneIs
<1>2. conn[c].open /\ conn[c].stmt = Statement(w) /\ RegHolds(w) /\ worker[w].at \in Talking
  BY <1>1 DEF IInv, OwnersHold
<1>3. conn[c].answer = None
  BY DEF IInv, SessionHolds
<1>4. Statement(w).op = IF worker[w].at \in {"maxid", "find"} THEN "select" ELSE worker[w].at
  BY DEF Statement
<1> QED BY <1>1, <1>2, <1>3, <1>4

LEMMA RowsEmpty == Settled({})
  BY DEF Settled, Topped

\* The statement of c makes no change to the table.
LEMMA QuietStep ==
    ASSUME IInv, NEW c \in Conns, NEW s \in Sessions, conn[c].stmt # None,
           UNCHANGED <<worker, sem, opened, tokens, pages>>, conn' = [conn EXCEPT ![c] = s],
           s.open = conn[c].open, s.stmt \in {None, conn[c].stmt},
           \A p \in s.wr : p \in conn[c].wr, \A p \in s.rd : p \in conn[c].rd \/ Readable(c, p),
           ~s.txn \/ s.wr # conn[c].wr => \A r \in Rows : r.by # c,
           SessionHolds(c)',
           \A w \in Workers : worker[w].c = c /\ Live' \subseteq Live => RegHolds(w)'
    PROVE  IInv'
<1>1. conn' \in [Conns -> Sessions] /\ conn'[c] = s /\ \A d \in Conns \ {c} : conn'[d] = conn[d]
  BY SessionSet
<1>2. PagesStep(c) /\ Rows' = Rows /\ RowsHold'
  BY PagesSame
<1>3. Live' \subseteq Live
  <2>1. ASSUME NEW r \in Live', r.by # None PROVE r \in Live
    <3>1. r \in Rows /\ r.by \in Conns
      <4>1. r \in Rows
        BY <1>2 DEF Live
      <4> QED BY <2>1, <4>1, RowsAre, RowFields DEF IInv, AccountsTypeOK
    <3>2. CASE r.by = c
      BY <1>1, <2>1, <3>1, <3>2 DEF Live
    <3>3. CASE r.by # c
      BY <1>1, <2>1, <3>1, <3>3 DEF Live
    <3> QED BY <3>2, <3>3
  <2>2. ASSUME NEW r \in Live', r.by = None PROVE r \in Live
    BY <1>2, <2>2 DEF Live
  <2> QED BY <2>1, <2>2
<1>4. LocksHold'
  <2>1. \A p \in DOMAIN pages' : \A r \in pages'[p] : r.by = c => s.txn /\ p \in s.wr
    <3> SUFFICES ASSUME NEW p \in DOMAIN pages, NEW r \in pages[p], r.by = c
                 PROVE  s.txn /\ p \in s.wr
      OBVIOUS
    <3>1. r \in Rows
      BY DEF Rows
    <3>2. p \in conn[c].wr
      BY NoneIs DEF IInv, LocksHold
    <3> QED BY <3>1, <3>2
  <2> QED BY <1>1, <1>2, <2>1, LocksStep
<1>5. c > opened => conn'[c] = NoSession
  <2>1. NoSession.stmt = None
    BY DEF NoSession
  <2> QED BY <2>1 DEF IInv, OwnersHold
<1>6. LiveStep(c)
  BY <1>3 DEF LiveStep
<1>7. \A w \in Workers : worker[w].c = c => RegHolds(w)'
  BY <1>3
<1> QED BY <1>1, <1>2, <1>4, <1>5, <1>6, <1>7, ServerStep

\* A statement that fails tells its worker nothing new.
LEMMA FailedReg ==
    ASSUME IInv, NEW c \in Conns, conn[c].stmt # None, NEW w \in Workers, worker[w].c = c,
           worker' = worker, pages' = pages, Live' \subseteq Live,
           NEW a \in Answers, a.st # "ok", conn'[c].answer = a, \A r \in Rows : r.by # c
    PROVE  RegHolds(w)'
<1>1. RegHolds(w) /\ Said(w) = None /\ worker[w].c # None
  BY OwnerIs DEF Said
<1>2. Said(w)' = a /\ ~Fine(w)' /\ ~Fine(w) /\ Said(w)' # None
  BY <1>1, AccountsAssumption DEF Said, Fine
<1>3. ~Inserted(w) /\ ~Inserted(w)' /\ Folded(w)' = Folded(w) /\ \A r : IsOf(w, r)' <=> IsOf(w, r)
  BY <1>2 DEF Inserted, Folded, IsOf, Matches
<1>4. Rows' = Rows /\ Committed' = Committed
  BY PagesSame
<1>5. worker[w].ask.method # "LOGIN" => Registers(w)'
  BY <1>1, <1>2, <1>3 DEF RegHolds, Registers
<1>7. worker[w].at = "rollback" => \E r \in Committed : r.name = Folded(w)
  BY <1>1 DEF RegHolds
<1> QED BY <1>2, <1>3, <1>4, <1>5, <1>7 DEF RegHolds, Commits

\* A session at the end of a statement.
LEMMA EndedSession ==
    ASSUME IInv, NEW c \in Conns, PagesStep(c), NEW a \in Answers, Settled(a.rows),
           EndsAs(c, a, conn'[c])
    PROVE  SessionHolds(c)'
<1>1. SessionHolds(c)
  BY DEF IInv
<1>2. Committed \subseteq Committed'
  BY DEF PagesStep
<1> DEFINE e == conn'[c]
<1>3. /\ e.open = conn[c].open /\ e.stmt = None /\ e.pos = 1 /\ e.seen = {}
      /\ e.answer = IF conn[c].open THEN a ELSE None
      /\ e.rd \subseteq conn[c].rd /\ e.wr \subseteq conn[c].wr
  BY DEF EndsAs
<1>4. Held(c)' \subseteq DOMAIN pages' /\ 1 <= Len(pages') + 1
  <2>1. DOMAIN pages \subseteq DOMAIN pages' /\ Len(pages') \in Nat
    BY DomainGrows
  <2>2. 1 <= Len(pages') + 1
    BY <2>1, SMT
  <2> QED BY <1>1, <1>3, <2>1, <2>2 DEF SessionHolds, Held
<1>5. /\ Settled(conn[c].seen)'
      /\ conn'[c].answer # None => Settled(conn[c].answer.rows)'
  <2>1. conn'[c].seen = {} /\ (conn'[c].answer # None => conn'[c].answer = a)
    BY <1>3
  <2>2. Settled({})'
    BY DEF Settled, Topped
  <2>3. Settled(a.rows)'
    BY <1>2 DEF Settled, Topped
  <2> QED BY <2>1, <2>2, <2>3 DEF Settled, Topped
<1> HIDE DEF e
<1>6. /\ e.answer # None => e.stmt = None /\ e.open
      /\ e.stmt = None => e.pos = 1 /\ e.seen = {}
  BY <1>3
<1>7. conn'[c] = e
  BY DEF e
<1> QED BY <1>3, <1>4, <1>5, <1>6, <1>7 DEF SessionHolds

\* A session that gives up its lock has no row, and its worker knows what it is told.
NoRowLost(c, s) == ~s.txn \/ s.wr # conn[c].wr => \A r \in Rows : r.by # c
Tells(c, a, s) ==
  a.st = "ok" \/ (\E r \in Rows : r.by = c) =>
    \A w \in Workers : worker[w].c = c /\ Live' \subseteq Live /\ conn'[c] = s /\ conn'[c].answer = a
                         => RegHolds(w)'

\* A statement that makes no change to the table ends.
LEMMA QuietEnd ==
    ASSUME IInv, NEW c \in Conns, conn[c].stmt # None, NEW a \in Answers, Settled(a.rows),
           NEW s, EndsAs(c, a, s), conn' = [conn EXCEPT ![c] = s],
           UNCHANGED <<worker, sem, opened, tokens, pages>>,
           NoRowLost(c, s), Tells(c, a, s)
    PROVE  IInv'
<1>1. s \in Sessions /\ s.open = conn[c].open /\ s.stmt = None /\ s.answer = IF conn[c].open THEN a ELSE None
  BY DEF EndsAs
<1>2. conn'[c] = s
  BY <1>1, SessionSet
<1>3. SessionHolds(c)'
  BY <1>2, EndedSession, PagesSame
<1>4. ASSUME NEW w \in Workers, worker[w].c = c, Live' \subseteq Live PROVE RegHolds(w)'
  <2>1. conn[c].open /\ conn'[c].answer = a
    BY <1>1, <1>2, <1>4, OwnerIs
  <2>2. CASE a.st = "ok" \/ \E r \in Rows : r.by = c
    BY <1>2, <1>4, <2>1, <2>2 DEF Tells
  <2>3. CASE a.st # "ok" /\ \A r \in Rows : r.by # c
    BY <1>4, <2>1, <2>3, FailedReg
  <2> QED BY <2>2, <2>3
<1>5. (\A p \in s.wr : p \in conn[c].wr) /\ \A p \in s.rd : p \in conn[c].rd \/ Readable(c, p)
  BY DEF EndsAs
<1>6. ~s.txn \/ s.wr # conn[c].wr => \A r \in Rows : r.by # c
  BY DEF NoRowLost
<1> QED BY <1>1, <1>3, <1>4, <1>5, <1>6, QuietStep

\* A session with no row has none to undo.
LEMMA UndoNothing ==
    ASSUME IInv, NEW c \in Conns, Undo(c), \A r \in Rows : r.by # c
    PROVE  pages' = pages
<1>1. pages \in Seq(SUBSET RowSet)
  BY DEF IInv, AccountsTypeOK
<1>2. pages = [p \in DOMAIN pages |-> pages[p]]
  BY <1>1, SMT
<1>3. \A p \in DOMAIN pages : {r \in pages[p] : r.by # c} = pages[p]
  <2>1. \A p \in DOMAIN pages : \A r \in pages[p] : r.by # c
    BY DEF Rows
  <2> QED BY <2>1
<1>4. pages' = [p \in DOMAIN pages |-> {r \in pages[p] : r.by # c}]
  BY DEF Undo
<1>5. [p \in DOMAIN pages |-> {r \in pages[p] : r.by # c}] = [p \in DOMAIN pages |-> pages[p]]
  BY <1>3
<1> QED BY <1>2, <1>4, <1>5

LEMMA AbortKeeps ==
    ASSUME IInv, NEW c \in Conns, conn[c].stmt # None, conn[c].stmt.op \in {"select", "insert"},
           NEW st, st = "retry" \/ st = "error", Aborted(c, st), UNCHANGED <<worker, sem, opened, tokens>>
    PROVE  IInv'
<1> DEFINE a == Says(st, {})
           s == Ended(c, a, FALSE)
<1>1. \A r \in Rows : r.by # c
  BY DEF IInv, SessionHolds
<1>2. pages' = pages
  BY <1>1, UndoNothing DEF Aborted
<1>3. conn' = [conn EXCEPT ![c] = s]
  BY DEF Aborted
<1>4. a \in Answers /\ a.rows = {} /\ a.st # "ok"
  BY SaysIs, SMT
<1>5. Settled(a.rows)
  BY <1>4, RowsEmpty
<1>6. EndsAs(c, a, s)
  <2> HIDE DEF a
  <2> QED BY <1>4, EndedIs
<1> HIDE DEF a, s
<1>7. NoRowLost(c, s)
  BY <1>1 DEF NoRowLost
<1>8. Tells(c, a, s)
  BY <1>1, <1>4 DEF Tells
<1> QED BY <1>2, <1>3, <1>4, <1>5, <1>6, <1>7, <1>8, QuietEnd

LEMMA BeginKeeps ==
    ASSUME IInv, NEW c \in Conns, SetTransaction(c), UNCHANGED <<worker, sem, opened, tokens>>
    PROVE  IInv'
<1> DEFINE st == IF conn[c].txn THEN "error" ELSE "ok"
           a == Says(st, {})
           s == Ended(c, a, TRUE)
<1>0. conn[c].stmt # None /\ conn[c].stmt.op = "begin" /\ pages' = pages /\ conn' = [conn EXCEPT ![c] = s]
  BY DEF SetTransaction
<1>1. a \in Answers /\ a.rows = {} /\ a # None
  <2>1. st = "ok" \/ st = "error"
    OBVIOUS
  <2> HIDE DEF st
  <2> QED BY <2>1, SaysIs, SMT
<1>2. EndsAs(c, a, s) /\ s.txn /\ s.wr = conn[c].wr
  <2> HIDE DEF a
  <2> QED BY <1>1, EndedIs
<1>3. Settled(a.rows)
  BY <1>1, RowsEmpty
<1> HIDE DEF s, a
<1>4. ASSUME NEW w \in Workers, worker[w].c = c, conn'[c] = s, conn'[c].answer = a
      PROVE  RegHolds(w)'
  <2>1. RegHolds(w) /\ worker[w].at = "begin" /\ conn[c].answer = None
    BY <1>0, <1>4, OwnerIs
  <2>2. Registers(w)'
    <3>1. conn'[worker[w].c].txn /\ Said(w)' # None
      BY <1>1, <1>2, <1>4 DEF Said
    <3> QED BY <1>0, <2>1, <3>1 DEF Registers
  <2>3. \A r \in Rows' : r.by # worker[w].c
    <3>1. Rows' = Rows
      BY <1>0, PagesSame
    <3> QED BY <2>1, <3>1 DEF RegHolds, Commits, Inserted
  <2> QED BY <1>0, <2>1, <2>2, <2>3 DEF RegHolds, Commits, Inserted
<1>5. NoRowLost(c, s)
  BY <1>2 DEF NoRowLost
<1>6. Tells(c, a, s)
  BY <1>4 DEF Tells
<1> QED BY <1>0, <1>1, <1>2, <1>3, <1>5, <1>6, QuietEnd

\* In the middle of a statement a worker knows what it knew.
LEMMA SameReg ==
    ASSUME IInv, NEW c \in Conns, NEW w \in Workers, worker[w].c = c, worker' = worker, pages' = pages,
           Live' \subseteq Live, conn'[c].answer = conn[c].answer, conn'[c].txn = conn[c].txn
    PROVE  RegHolds(w)'
<1>1. RegHolds(w)
  BY NoneIs DEF IInv
<1>2. Rows' = Rows /\ Committed' = Committed
  BY PagesSame
<1>3. /\ Said(w)' = Said(w) /\ (Fine(w)' <=> Fine(w)) /\ Folded(w)' = Folded(w)
      /\ (Inserted(w)' <=> Inserted(w)) /\ \A r : IsOf(w, r)' <=> IsOf(w, r)
  BY DEF Said, Fine, Folded, Inserted, IsOf, Matches
<1>4. Registers(w) => Registers(w)'
  <2>1. conn'[worker[w].c].txn = conn[worker[w].c].txn
    OBVIOUS
  <2> QED BY <1>3, <2>1 DEF Registers
<1> QED BY <1>1, <1>2, <1>3, <1>4 DEF RegHolds, Commits

LEMMA ToppedUnion ==
    ASSUME NEW S, NEW T, S \subseteq RowSet, T \subseteq RowSet, Topped(S), Topped(T)
    PROVE  Topped(S \cup T)
<1>1. \A r \in S \cup T : r.id \in Int
  BY RowFields
<1>2. CASE S = {} \/ T = {}
  BY <1>2 DEF Topped
<1>3. CASE S # {} /\ T # {}
  <2>1. PICK m \in S : \A r \in S : m.id >= r.id
    BY <1>3 DEF Topped
  <2>2. PICK n \in T : \A r \in T : n.id >= r.id
    BY <1>3 DEF Topped
  <2>3. CASE m.id >= n.id
    <3>1. \A r \in S \cup T : m.id >= r.id
      BY <1>1, <2>1, <2>2, <2>3, SMT
    <3> QED BY <3>1 DEF Topped
  <2>4. CASE n.id >= m.id
    <3>1. \A r \in S \cup T : n.id >= r.id
      BY <1>1, <2>1, <2>2, <2>4, SMT
    <3> QED BY <3>1 DEF Topped
  <2>5. m.id >= n.id \/ n.id >= m.id
    BY <1>1, SMT
  <2> QED BY <2>3, <2>4, <2>5
<1> QED BY <1>2, <1>3

\* A page that c may read holds committed rows, but for rows of c.
LEMMA ReadableRows ==
    ASSUME IInv, NEW c \in Conns, \A r \in Rows : r.by # c, NEW p \in DOMAIN pages, Readable(c, p)
    PROVE  Settled(pages[p])
<1>1. ASSUME NEW r \in pages[p] PROVE r.by = None /\ r \in Rows
  <2>1. r \in Rows /\ r \in RowSet
    BY RowsAre, PageFields DEF IInv, AccountsTypeOK
  <2>2. CASE r.by # None
    <3>1. r.by \in Conns \ {c} /\ p \in conn[r.by].wr
      BY <2>1, <2>2, RowFields DEF IInv, LocksHold
    <3> QED BY <3>1 DEF Readable
  <2> QED BY <2>1, <2>2
<1>2. {r \in pages[p] : r.by = None} = pages[p]
  BY <1>1
<1>3. Topped({r \in pages[p] : r.by = None})
  BY DEF IInv, RowsHold
<1> QED BY <1>1, <1>2, <1>3 DEF Settled, Committed

LEMMA ScanOnKeeps ==
    ASSUME IInv, NEW c \in Conns, Scan(c), conn[c].pos \in DOMAIN pages,
           UNCHANGED <<worker, sem, opened, tokens>>
    PROVE  IInv'
<1> DEFINE p == conn[c].pos
           s == [conn[c] EXCEPT !.rd = @ \cup {p}, !.pos = p + 1, !.seen = @ \cup pages[p]]
<1>0. /\ conn[c].stmt # None /\ conn[c].stmt.op = "select" /\ Readable(c, p) /\ pages' = pages
      /\ conn' = [conn EXCEPT ![c] = s]
  BY DEF Scan
<1>h. SessionHolds(c) /\ conn[c] \in Sessions /\ \A r \in Rows : r.by # c
  BY <1>0 DEF IInv, AccountsTypeOK, SessionHolds
<1>p. p \in Nat \ {0} /\ pages[p] \subseteq RowSet /\ Len(pages) \in Nat /\ p \in 1..Len(pages)
  BY PageFields DEF IInv, AccountsTypeOK
<1>1. /\ s \in Sessions /\ s.open = conn[c].open /\ s.stmt = conn[c].stmt /\ s.pos = p + 1
      /\ s.seen = conn[c].seen \cup pages[p] /\ s.answer = conn[c].answer /\ s.txn = conn[c].txn
      /\ s.rd = conn[c].rd \cup {p} /\ s.wr = conn[c].wr
  <2>1. p + 1 \in Nat \ {0}
    <3> HIDE DEF p
    <3> QED BY <1>p, SMT
  <2>2. conn[c].seen \cup pages[p] \in SUBSET RowSet /\ conn[c].rd \cup {p} \in SUBSET Nat
    BY <1>h, <1>p, SessionFields
  <2> DEFINE x == conn[c]
             rd1 == conn[c].rd \cup {p}
             seen1 == conn[c].seen \cup pages[p]
             pos1 == p + 1
  <2>3. s = [x EXCEPT !.rd = rd1, !.pos = pos1, !.seen = seen1]
    OBVIOUS
  <2>4. rd1 \in SUBSET Nat /\ seen1 \in SUBSET RowSet /\ pos1 \in Nat \ {0} /\ x \in Sessions
    BY <1>h, <2>1, <2>2
  <2> HIDE DEF s, p, x, rd1, seen1, pos1
  <2>5. /\ s \in Sessions /\ s.open = x.open /\ s.stmt = x.stmt /\ s.pos = pos1
        /\ s.seen = seen1 /\ s.answer = x.answer /\ s.txn = x.txn /\ s.rd = rd1 /\ s.wr = x.wr
    BY <2>3, <2>4 DEF Sessions
  <2> QED BY <2>5 DEF x, rd1, seen1, pos1
<1>2. conn'[c] = s
  BY <1>0, <1>1, SessionSet
<1>k. Rows' = Rows /\ Committed' = Committed
  BY <1>0, PagesSame
<1> HIDE DEF s
<1>3. SessionHolds(c)'
  <2>1. Held(c)' \subseteq DOMAIN pages' /\ s.pos <= Len(pages') + 1
    <3>1. s.pos <= Len(pages) + 1
      <4> HIDE DEF p
      <4> QED BY <1>1, <1>p, SMT
    <3>2. conn[c].rd \subseteq DOMAIN pages /\ conn[c].wr \subseteq DOMAIN pages
      BY <1>h DEF SessionHolds, Held
    <3> QED BY <1>0, <1>1, <1>2, <3>1, <3>2 DEF Held
  <2>2. \A q \in 1..s.pos - 1 : q \in s.rd /\ pages'[q] \subseteq s.seen
    <3> SUFFICES ASSUME NEW q \in 1..s.pos - 1 PROVE q \in s.rd /\ pages[q] \subseteq s.seen
      BY <1>0
    <3>1. q \in 1..p - 1 \/ q = p
      <4> HIDE DEF p
      <4> QED BY <1>1, <1>p, SMT
    <3>2. \A i \in 1..p - 1 : i \in conn[c].rd /\ pages[i] \subseteq conn[c].seen
      BY <1>0, <1>h DEF SessionHolds
    <3> QED BY <1>1, <3>1, <3>2
  <2>3. Settled(s.seen)
    <3>1. Settled(pages[p])
      BY <1>0, <1>h, ReadableRows
    <3>2. Settled(conn[c].seen) /\ conn[c].seen \subseteq RowSet
      BY <1>h, SessionFields DEF SessionHolds
    <3>3. Topped(conn[c].seen \cup pages[p])
      BY <1>p, <3>1, <3>2, ToppedUnion DEF Settled
    <3> QED BY <1>1, <3>1, <3>2, <3>3 DEF Settled
  <2>4. conn'[c].seen \subseteq Committed' /\ Topped(conn'[c].seen)
    BY <1>2, <1>k, <2>3 DEF Settled
  <2>5. conn[c].answer = None
    BY <1>0, <1>h DEF SessionHolds
  <2> QED BY <1>0, <1>1, <1>2, <1>h, <1>k, <2>1, <2>2, <2>4, <2>5 DEF SessionHolds, Settled, Topped
<1>4. ASSUME NEW w \in Workers, worker[w].c = c, Live' \subseteq Live PROVE RegHolds(w)'
  BY <1>0, <1>1, <1>2, <1>4, SameReg
<1>5. /\ \A q \in s.wr : q \in conn[c].wr
      /\ \A q \in s.rd : q \in conn[c].rd \/ Readable(c, q)
  BY <1>0, <1>1
<1> QED BY <1>0, <1>1, <1>3, <1>4, <1>5, <1>h, QuietStep

LEMMA ScanEndKeeps ==
    ASSUME IInv, NEW c \in Conns, Scan(c), conn[c].pos \notin DOMAIN pages,
           UNCHANGED <<worker, sem, opened, tokens>>
    PROVE  IInv'
<1> DEFINE a == Says("ok", conn[c].seen)
           s == Ended(c, a, conn[c].txn)
<1>0. conn[c].stmt # None /\ conn[c].stmt.op = "select" /\ pages' = pages /\ conn' = [conn EXCEPT ![c] = s]
  BY DEF Scan
<1>h. SessionHolds(c) /\ conn[c] \in Sessions /\ \A r \in Rows : r.by # c
  BY <1>0 DEF IInv, AccountsTypeOK, SessionHolds
<1>1. a \in Answers /\ a.rows = conn[c].seen /\ a # None
  BY <1>h, SessionFields, SaysIs
<1>2. EndsAs(c, a, s) /\ s.txn = conn[c].txn
  <2> HIDE DEF a
  <2> QED BY <1>1, EndedIs
<1>3. Settled(a.rows)
  BY <1>1, <1>h DEF SessionHolds
<1>r. Rows \subseteq conn[c].seen
  <2> SUFFICES ASSUME NEW r \in Rows PROVE r \in conn[c].seen
    OBVIOUS
  <2>1. PICK q \in DOMAIN pages : r \in pages[q]
    BY DEF Rows
  <2>2. conn[c].pos \in Nat \ {0} /\ Len(pages) \in Nat /\ DOMAIN pages = 1..Len(pages)
    BY <1>h, SessionFields, PageFields DEF IInv, AccountsTypeOK
  <2> DEFINE p == conn[c].pos
             n == Len(pages)
  <2>3. p \in Nat \ {0} /\ n \in Nat /\ q \in 1..n /\ p \notin 1..n
    BY <2>2
  <2> HIDE DEF p, n
  <2>4. q \in 1..p - 1
    BY <2>3, SMT
  <2> QED BY <1>0, <1>h, <2>1, <2>4 DEF SessionHolds, p
<1> HIDE DEF s, a
<1>4. ASSUME NEW w \in Workers, worker[w].c = c, Live' \subseteq Live, conn'[c] = s, conn'[c].answer = a
      PROVE  RegHolds(w)'
  <2>1. RegHolds(w) /\ worker[w].at \in {"maxid", "find"} /\ conn[c].answer = None
    <3>1. RegHolds(w) /\ conn[c].answer = None /\ worker[w].at \in Talking
          /\ conn[c].stmt.op = IF worker[w].at \in {"maxid", "find"} THEN "select" ELSE worker[w].at
      BY <1>0, <1>4, OwnerIs
    <3> QED BY <1>0, <3>1 DEF Talking
  <2>2. Said(w) = None /\ ~Fine(w) /\ Said(w)' = a /\ Said(w)' # None /\ ~Inserted(w) /\ ~Inserted(w)'
    BY <1>0, <1>1, <1>4, <2>1 DEF Said, Fine, Inserted
  <2>3. worker[w].ask.method # "LOGIN" => Registers(w)'
    <3> SUFFICES ASSUME worker[w].ask.method # "LOGIN" PROVE Registers(w)'
      OBVIOUS
    <3>h. Registers(w)
      BY <2>1 DEF RegHolds
    <3>1. conn'[worker[w].c].txn
      BY <1>2, <1>4, <2>1, <2>2, <3>h DEF Registers
    <3>2. Live' \subseteq Said(w)'.rows
      BY <1>1, <1>4, <1>r, <2>2 DEF Live
    <3>3. /\ worker[w].at = "find" => worker[w].next \in Int
          /\ worker[w].at = "find" => \A r \in Live' : r.id < worker[w].next
      BY <1>4, <2>2, <3>h DEF Registers
    <3> QED BY <2>1, <2>2, <3>1, <3>2, <3>3 DEF Registers
  <2>4. \A r \in Rows' : r.by # worker[w].c
    <3>1. Rows' = Rows
      BY <1>0, PagesSame
    <3> QED BY <1>4, <1>h, <3>1
  <2> QED BY <2>1, <2>2, <2>3, <2>4 DEF RegHolds, Commits
<1>5. NoRowLost(c, s)
  BY <1>h DEF NoRowLost
<1>6. Tells(c, a, s)
  BY <1>4 DEF Tells
<1> QED BY <1>0, <1>1, <1>2, <1>3, <1>5, <1>6, QuietEnd

\* An insert goes past a full page.
LEMMA PassKeeps ==
    ASSUME IInv, NEW c \in Conns, conn[c].stmt # None, conn[c].stmt.op = "insert",
           conn[c].pos \in DOMAIN pages, conn' = [conn EXCEPT ![c].pos = conn[c].pos + 1],
           UNCHANGED <<worker, sem, opened, tokens, pages>>
    PROVE  IInv'
<1> DEFINE x == conn[c]
           p == x.pos
           q == p + 1
           s == [x EXCEPT !.pos = q]
<1>h. SessionHolds(c) /\ x \in Sessions /\ \A r \in Rows : r.by # c
  BY DEF IInv, AccountsTypeOK, SessionHolds
<1>p. p \in Nat \ {0} /\ Len(pages) \in Nat /\ p \in 1..Len(pages)
  BY PageFields DEF IInv, AccountsTypeOK
<1>q. q \in Nat \ {0} /\ q <= Len(pages) + 1
  <2> HIDE DEF p
  <2> QED BY <1>p, SMT
<1>0. conn' = [conn EXCEPT ![c] = s]
  OBVIOUS
<1>1. /\ s \in Sessions /\ s.open = x.open /\ s.stmt = x.stmt /\ s.pos = q /\ s.seen = x.seen
      /\ s.answer = x.answer /\ s.txn = x.txn /\ s.rd = x.rd /\ s.wr = x.wr
  <2> HIDE DEF x, p, q
  <2> QED BY <1>h, <1>q DEF Sessions
<1>2. conn'[c] = s
  BY <1>0, <1>1, SessionSet
<1>k. Rows' = Rows /\ Committed' = Committed
  BY PagesSame
<1> HIDE DEF s, q
<1>3. SessionHolds(c)'
  <2>1. Held(c)' \subseteq DOMAIN pages' /\ s.pos <= Len(pages') + 1
    BY <1>1, <1>2, <1>h, <1>q DEF SessionHolds, Held
  <2>2. x.answer = None
    BY <1>h DEF SessionHolds
  <2>3. s.seen \subseteq Committed' /\ Topped(s.seen)
    BY <1>1, <1>h, <1>k DEF SessionHolds, Settled
  <2> QED BY <1>1, <1>2, <1>h, <1>k, <2>1, <2>2, <2>3 DEF SessionHolds, Settled, Topped
<1>4. ASSUME NEW w \in Workers, worker[w].c = c, Live' \subseteq Live PROVE RegHolds(w)'
  BY <1>1, <1>2, <1>4, SameReg
<1>5. /\ \A i \in s.wr : i \in conn[c].wr
      /\ \A i \in s.rd : i \in conn[c].rd \/ Readable(c, i)
  BY <1>1
<1> QED BY <1>0, <1>1, <1>3, <1>4, <1>5, <1>h, QuietStep

-----------------------------------------------------------------------------
(* The statements that change the table. *)

\* A rollback takes the rows of c away.
LEMMA UndoIs ==
    ASSUME IInv, NEW c \in Conns, Undo(c)
    PROVE  /\ PagesStep(c) /\ RowsHold' /\ Rows' = {r \in Rows : r.by # c} /\ Committed' = Committed
<1>0. pages \in Seq(SUBSET RowSet) /\ c # None /\ RowsHold
  BY NoneIs DEF IInv, AccountsTypeOK
<1>1. pages' \in Seq(SUBSET RowSet) /\ Len(pages') = Len(pages) /\ DOMAIN pages' = DOMAIN pages
  <2> DEFINE f == [p \in DOMAIN pages |-> {r \in pages[p] : r.by # c}]
  <2>1. \A p \in DOMAIN pages : {r \in pages[p] : r.by # c} \in SUBSET RowSet
    BY <1>0, PageFields
  <2>2. f \in [1..Len(pages) -> SUBSET RowSet] /\ Len(pages) \in Nat /\ DOMAIN pages = 1..Len(pages)
    BY <1>0, <2>1, PageFields
  <2> HIDE DEF f
  <2>3. f \in Seq(SUBSET RowSet) /\ Len(f) = Len(pages) /\ DOMAIN f = 1..Len(pages)
    BY <2>2, SMT
  <2>4. pages' = f
    BY DEF Undo, f
  <2> QED BY <2>2, <2>3, <2>4
<1>2. \A p \in DOMAIN pages : pages'[p] = {r \in pages[p] : r.by # c}
  BY DEF Undo
<1>3. Rows' = {r \in Rows : r.by # c}
  <2>1. \A r \in Rows' : r \in Rows /\ r.by # c
    <3> SUFFICES ASSUME NEW r \in Rows' PROVE r \in Rows /\ r.by # c
      OBVIOUS
    <3>1. PICK p \in DOMAIN pages : r \in pages'[p]
      BY <1>1 DEF Rows
    <3> QED BY <1>2, <3>1 DEF Rows
  <2>2. \A r \in Rows : r.by # c => r \in Rows'
    <3> SUFFICES ASSUME NEW r \in Rows, r.by # c PROVE r \in Rows'
      OBVIOUS
    <3>1. PICK p \in DOMAIN pages : r \in pages[p]
      BY DEF Rows
    <3>2. r \in pages'[p] /\ p \in DOMAIN pages'
      BY <1>1, <1>2, <3>1
    <3> QED BY <3>2 DEF Rows
  <2> QED BY <2>1, <2>2
<1>4. Committed' = Committed
  BY <1>0, <1>3 DEF Committed
<1>5. Len(pages) <= Len(pages')
  <2> DEFINE n == Len(pages)
  <2>1. n \in Nat /\ Len(pages') = n
    BY <1>0, <1>1, PageFields
  <2> HIDE DEF n
  <2>2. n <= n
    BY <2>1, SMT
  <2> QED BY <2>1, <2>2 DEF n
<1>6. \A d \in Conns \ {c} : \A p \in conn[d].rd : pages'[p] \subseteq pages[p]
  <2> SUFFICES ASSUME NEW d \in Conns \ {c}, NEW p \in conn[d].rd PROVE pages'[p] \subseteq pages[p]
    OBVIOUS
  <2>1. p \in DOMAIN pages
    BY DEF IInv, SessionHolds, Held
  <2> QED BY <1>2, <2>1
<1>7. PagesStep(c)
  BY <1>1, <1>2, <1>3, <1>4, <1>5, <1>6 DEF PagesStep
<1>8. RowsHold'
  <2>1. \A r, s \in Rows' : r.by # None /\ s.by = r.by => r = s
    BY <1>0, <1>3 DEF RowsHold
  <2>2. \A p \in DOMAIN pages : {r \in pages'[p] : r.by = None} = {r \in pages[p] : r.by = None}
    BY <1>0, <1>2
  <2>3. \A p \in DOMAIN pages : Topped({r \in pages'[p] : r.by = None})
    BY <1>0, <2>2 DEF RowsHold
  <2> QED BY <1>1, <2>1, <2>3 DEF RowsHold, Topped
<1> QED BY <1>3, <1>4, <1>7, <1>8

\* A commit takes the marks off the rows of c.
LEMMA KeepIs ==
    ASSUME IInv, NEW c \in Conns, Keep(c)
    PROVE  /\ PagesStep(c) /\ RowsHold' /\ \A r \in Rows' : r.by # c
           /\ \A r \in Rows' : \E q \in Rows : r = Kept(q, c)
           /\ \A q \in Rows : Kept(q, c) \in Rows'
<1>0. pages \in Seq(SUBSET RowSet) /\ c # None /\ RowsHold /\ LocksHold
  BY NoneIs DEF IInv, AccountsTypeOK
<1>r. Rows \subseteq RowSet /\ \A p \in DOMAIN pages : pages[p] \subseteq RowSet
  BY <1>0, RowsAre, PageFields
<1>k. \A r \in RowSet : /\ Kept(r, c) \in RowSet /\ (r.by = c => Kept(r, c).by = None)
                        /\ (r.by # c => Kept(r, c) = r)
  BY KeptIs
<1>1. pages' \in Seq(SUBSET RowSet) /\ Len(pages') = Len(pages) /\ DOMAIN pages' = DOMAIN pages
  <2> DEFINE f == [p \in DOMAIN pages |-> {Kept(r, c) : r \in pages[p]}]
  <2>1. \A p \in DOMAIN pages : {Kept(r, c) : r \in pages[p]} \in SUBSET RowSet
    BY <1>r, <1>k
  <2>2. f \in [1..Len(pages) -> SUBSET RowSet] /\ Len(pages) \in Nat /\ DOMAIN pages = 1..Len(pages)
    BY <1>0, <2>1, PageFields
  <2> HIDE DEF f
  <2>3. f \in Seq(SUBSET RowSet) /\ Len(f) = Len(pages) /\ DOMAIN f = 1..Len(pages)
    BY <2>2, SMT
  <2>4. pages' = f
    BY DEF Keep, f
  <2> QED BY <2>2, <2>3, <2>4
<1>2. \A p \in DOMAIN pages : /\ \A r \in pages'[p] : \E q \in pages[p] : r = Kept(q, c)
                              /\ \A q \in pages[p] : Kept(q, c) \in pages'[p]
  <2>1. \A p \in DOMAIN pages : pages'[p] = {Kept(r, c) : r \in pages[p]}
    BY DEF Keep
  <2> QED BY <2>1
<1>3. \A r \in Rows' : \E q \in Rows : r = Kept(q, c)
  <2> SUFFICES ASSUME NEW r \in Rows' PROVE \E q \in Rows : r = Kept(q, c)
    OBVIOUS
  <2>1. PICK p \in DOMAIN pages : r \in pages'[p]
    BY <1>1 DEF Rows
  <2>2. PICK q \in pages[p] : r = Kept(q, c)
    BY <1>2, <2>1
  <2> QED BY <2>2 DEF Rows
<1>4. \A q \in Rows : Kept(q, c) \in Rows'
  <2> SUFFICES ASSUME NEW q \in Rows PROVE Kept(q, c) \in Rows'
    OBVIOUS
  <2>1. PICK p \in DOMAIN pages : q \in pages[p]
    BY DEF Rows
  <2>2. Kept(q, c) \in pages'[p] /\ p \in DOMAIN pages'
    BY <1>1, <1>2, <2>1
  <2> QED BY <2>2 DEF Rows
<1>a. \A r \in Rows' : r.by # c
  <2> SUFFICES ASSUME NEW r \in Rows', r.by = c PROVE FALSE
    OBVIOUS
  <2>1. PICK q \in Rows : r = Kept(q, c)
    BY <1>3
  <2>2. q \in RowSet
    BY <1>r
  <2> QED BY <1>0, <1>k, <2>1, <2>2
<1>5. Len(pages) <= Len(pages')
  <2> DEFINE n == Len(pages)
  <2>1. n \in Nat /\ Len(pages') = n
    BY <1>0, <1>1, PageFields
  <2> HIDE DEF n
  <2>2. n <= n
    BY <2>1, SMT
  <2> QED BY <2>1, <2>2 DEF n
<1>6. \A d \in Conns \ {c} : \A p \in conn[d].rd : pages'[p] \subseteq pages[p]
  <2> SUFFICES ASSUME NEW d \in Conns \ {c}, NEW p \in conn[d].rd, NEW r \in pages'[p]
               PROVE  r \in pages[p]
    OBVIOUS
  <2>1. p \in DOMAIN pages
    BY DEF IInv, SessionHolds, Held
  <2>2. PICK q \in pages[p] : r = Kept(q, c)
    BY <1>2, <2>1
  <2>3. q.by # c
    <3>1. p \in Held(d) /\ conn[c].wr \cap Held(d) = {}
      BY <1>0 DEF LocksHold, Held
    <3>2. p \notin conn[c].wr
      BY <3>1
    <3> QED BY <1>0, <2>1, <3>2 DEF LocksHold
  <2>4. q \in RowSet
    BY <1>r, <2>1
  <2> QED BY <1>k, <2>2, <2>3, <2>4
<1>7. PagesStep(c)
  <2>1. Committed \subseteq Committed'
    <3> SUFFICES ASSUME NEW r \in Rows, r.by = None PROVE r \in Rows'
      BY DEF Committed
    <3>1. r \in RowSet /\ Kept(r, c) \in Rows'
      BY <1>4, <1>r
    <3> QED BY <1>0, <1>k, <3>1
  <2>2. \A p \in DOMAIN pages' : \A r \in pages'[p] :
          r.by \notin {None, c} => p \in DOMAIN pages /\ r \in pages[p]
    <3> SUFFICES ASSUME NEW p \in DOMAIN pages, NEW r \in pages'[p], r.by \notin {None, c}
                 PROVE  r \in pages[p]
      BY <1>1
    <3>1. PICK q \in pages[p] : r = Kept(q, c)
      BY <1>2
    <3>2. q \in RowSet
      BY <1>r
    <3> QED BY <1>k, <3>1, <3>2
  <2>3. \A r \in Rows : r.by \notin {None, c} => r \in Rows'
    <3> SUFFICES ASSUME NEW r \in Rows, r.by # c PROVE r \in Rows'
      OBVIOUS
    <3>1. r \in RowSet /\ Kept(r, c) \in Rows'
      BY <1>4, <1>r
    <3> QED BY <1>k, <3>1
  <2> QED BY <1>1, <1>5, <1>6, <2>1, <2>2, <2>3 DEF PagesStep
<1>8. RowsHold'
  <2>1. \A r, s \in Rows' : r.by # None /\ s.by = r.by => r = s
    <3> SUFFICES ASSUME NEW r \in Rows', NEW s \in Rows', r.by # None, s.by = r.by PROVE r = s
      OBVIOUS
    <3>1. \A t \in Rows' : t.by # None => t \in Rows
      <4> SUFFICES ASSUME NEW t \in Rows', t.by # None PROVE t \in Rows
        OBVIOUS
      <4>1. PICK q \in Rows : t = Kept(q, c)
        BY <1>3
      <4>2. q \in RowSet
        BY <1>r
      <4> QED BY <1>k, <4>1, <4>2
    <3>2. r \in Rows /\ s \in Rows
      BY <3>1
    <3> QED BY <1>0, <3>2 DEF RowsHold
  <2>2. ASSUME NEW p \in DOMAIN pages PROVE Topped({r \in pages'[p] : r.by = None})
    <3> DEFINE S == {r \in pages[p] : r.by = None}
               T == {Kept(r, c) : r \in {q \in pages[p] : q.by = c}}
    <3>1. {r \in pages'[p] : r.by = None} = S \cup T
      <4>1. ASSUME NEW r \in pages'[p], r.by = None PROVE r \in S \cup T
        <5>1. PICK q \in pages[p] : r = Kept(q, c)
          BY <1>2
        <5>2. q \in RowSet
          BY <1>r
        <5>3. CASE q.by = c
          BY <5>1, <5>3
        <5>4. CASE q.by # c
          BY <1>k, <4>1, <5>1, <5>2, <5>4
        <5> QED BY <5>3, <5>4
      <4>2. ASSUME NEW q \in pages[p], q.by = None PROVE q \in pages'[p]
        <5>1. q \in RowSet /\ Kept(q, c) \in pages'[p]
          BY <1>2, <1>r
        <5> QED BY <1>0, <1>k, <4>2, <5>1
      <4>3. ASSUME NEW q \in pages[p], q.by = c PROVE Kept(q, c) \in pages'[p] /\ Kept(q, c).by = None
        BY <1>2, <1>k, <1>r, <4>3
      <4> QED BY <4>1, <4>2, <4>3
    <3>2. Topped(T)
      <4>1. CASE T = {}
        BY <4>1 DEF Topped
      <4>2. CASE T # {}
        <5>1. PICK q \in pages[p] : q.by = c
          BY <4>2
        <5>2. \A r \in pages[p] : r.by = c => r = q
          BY <1>0, <5>1, RowsAre DEF RowsHold
        <5>3. T = {Kept(q, c)} /\ Kept(q, c).id \in Int
          BY <1>r, <5>1, <5>2, KeptIs, RowFields, SMT
        <5> DEFINE k == Kept(q, c)
        <5>4. k.id >= k.id
          <6> DEFINE i == k.id
          <6>1. i \in Int
            BY <5>3
          <6> HIDE DEF i
          <6>2. i >= i
            BY <6>1, SMT
          <6> QED BY <6>2 DEF i
        <5> QED BY <5>3, <5>4 DEF Topped
      <4> QED BY <4>1, <4>2
    <3>3. S \subseteq RowSet /\ T \subseteq RowSet /\ Topped(S)
      BY <1>0, <1>r, KeptIs DEF RowsHold
    <3> HIDE DEF S, T
    <3>4. Topped(S \cup T)
      BY <3>2, <3>3, ToppedUnion
    <3> QED BY <3>1, <3>4
  <2> QED BY <1>1, <2>1, <2>2 DEF RowsHold, Topped
<1> QED BY <1>3, <1>4, <1>7, <1>8, <1>a

LEMMA CommitKeeps ==
    ASSUME IInv, NEW c \in Conns, EndTransaction(c), conn[c].txn, conn[c].stmt.op = "commit",
           UNCHANGED <<worker, sem, opened, tokens>>
    PROVE  IInv'
<1> DEFINE a == Says("ok", {})
           s == Ended(c, a, FALSE)
<1>0. conn[c].stmt # None /\ Keep(c) /\ conn' = [conn EXCEPT ![c] = s]
  BY DEF EndTransaction
<1>1. a \in Answers /\ a.rows = {} /\ a # None /\ a.st = "ok"
  BY SaysIs
<1>2. EndsAs(c, a, s) /\ s.wr = {}
  <2> HIDE DEF a
  <2> QED BY <1>1, EndedIs
<1> HIDE DEF s, a
<1>3. conn' \in [Conns -> Sessions] /\ conn'[c] = s /\ \A d \in Conns \ {c} : conn'[d] = conn[d]
  BY <1>0, <1>2, SessionSet DEF EndsAs
<1>s. s.open = conn[c].open /\ s.stmt = None /\ s.answer = IF conn[c].open THEN a ELSE None
  BY <1>2 DEF EndsAs
<1>4. /\ PagesStep(c) /\ RowsHold' /\ \A r \in Rows' : r.by # c
      /\ \A r \in Rows' : \E q \in Rows : r = Kept(q, c)
      /\ \A q \in Rows : Kept(q, c) \in Rows'
  BY <1>0, KeepIs
<1>r. Rows \subseteq RowSet
  BY RowsAre DEF IInv, AccountsTypeOK
<1>5. SessionHolds(c)'
  <2>1. Settled(a.rows)
    BY <1>1, RowsEmpty
  <2> QED BY <1>1, <1>2, <1>3, <1>4, <2>1, EndedSession
<1>6. LocksHold'
  <2>1. \A p \in DOMAIN pages' : \A r \in pages'[p] : r.by # c
    BY <1>4 DEF Rows
  <2>2. \A p \in s.rd : p \in conn[c].rd \/ Readable(c, p)
    BY <1>2 DEF EndsAs
  <2>3. \A p \in s.wr : p \in conn[c].wr \/ Writable(c, p)
    BY <1>2
  <2> QED BY <1>3, <1>4, <2>1, <2>2, <2>3, LocksStep
<1>7. LiveStep(c)
  <2> SUFFICES ASSUME NEW r \in Live' PROVE \E q \in Live : r = Kept(q, c)
    BY DEF LiveStep
  <2>1. r \in Rows' /\ r.by # c
    BY <1>4 DEF Live
  <2>2. PICK q \in Rows : r = Kept(q, c)
    BY <1>4, <2>1
  <2>3. CASE q.by = c
    BY <1>0, <2>2, <2>3 DEF Live
  <2>4. CASE q.by # c
    <3>1. q = r /\ q \in RowSet
      <4>1. q \in RowSet
        BY <1>r
      <4>2. Kept(q, c) = q
        BY <2>4, <4>1, KeptIs
      <4> QED BY <2>2, <4>1, <4>2
    <3>2. CASE q.by = None
      BY <2>2, <3>2 DEF Live
    <3>3. CASE q.by # None
      <4>1. conn'[q.by] = conn[q.by]
        BY <1>3, <2>4, <3>1, <3>3, RowFields
      <4> QED BY <2>2, <3>1, <3>3, <4>1 DEF Live
    <3> QED BY <3>2, <3>3
  <2> QED BY <2>2, <2>3, <2>4
<1>8. ASSUME NEW w \in Workers, worker[w].c = c PROVE RegHolds(w)'
  <2>1. RegHolds(w) /\ worker[w].at = "commit" /\ conn[c].answer = None /\ conn[c].open
    BY <1>0, <1>8, OwnerIs
  <2>2. Said(w) = None /\ Said(w)' = a /\ Said(w)' # None /\ ~Inserted(w)'
    BY <1>1, <1>3, <1>8, <1>s, <2>1 DEF Said, Inserted
  <2>3. Registers(w)'
    BY <2>1, <2>2 DEF Registers
  <2>4. PICK q \in Rows : q.by = c /\ IsOf(w, q)
    BY <1>8, <2>1, <2>2 DEF RegHolds, Commits
  <2>5. Kept(q, c) \in Committed' /\ IsOf(w, Kept(q, c))'
    <3>1. /\ q \in RowSet /\ Kept(q, c).by = None /\ Kept(q, c).id = q.id /\ Kept(q, c).name = q.name
          /\ Kept(q, c).digest = q.digest /\ Kept(q, c).salt = q.salt /\ Kept(q, c) \in Rows'
      BY <1>4, <1>r, <2>4, KeptIs, SMT
    <3> QED BY <2>4, <3>1 DEF Committed, IsOf, Folded, Matches
  <2> QED BY <1>4, <1>8, <2>1, <2>2, <2>3, <2>5 DEF RegHolds, Commits
<1>9. c > opened => conn'[c] = NoSession
  <2>1. NoSession.stmt = None
    BY DEF NoSession
  <2> QED BY <1>0, <2>1 DEF IInv, OwnersHold
<1> QED BY <1>3, <1>s, <1>4, <1>5, <1>6, <1>7, <1>8, <1>9, ServerStep

\* The rows of c go, and the others stay as they are.
LEMMA UndoStep ==
    ASSUME IInv, NEW c \in Conns, NEW s \in Sessions, Undo(c), conn' = [conn EXCEPT ![c] = s],
           s.open = conn[c].open, s.stmt = None, s.wr = {}, s.rd \subseteq conn[c].rd
    PROVE  Live' \subseteq Live /\ LocksHold'
<1>1. conn'[c] = s /\ \A d \in Conns \ {c} : conn'[d] = conn[d]
  BY SessionSet
<1>2. PagesStep(c) /\ Rows' = {r \in Rows : r.by # c}
  BY UndoIs
<1>3. ASSUME NEW r \in Live' PROVE r \in Live
  <2>1. r \in Rows /\ r.by # c /\ r \in RowSet
    BY <1>2, RowsAre DEF Live, IInv, AccountsTypeOK
  <2>2. CASE r.by = None
    BY <2>1, <2>2 DEF Live
  <2>3. CASE r.by # None
    <3>1. conn'[r.by] = conn[r.by]
      BY <1>1, <2>1, <2>3, RowFields
    <3> QED BY <1>3, <2>1, <2>3, <3>1 DEF Live
  <2> QED BY <2>2, <2>3
<1>4. LocksHold'
  <2>1. \A p \in DOMAIN pages' : \A r \in pages'[p] : r.by # c
    <3>1. \A r \in Rows' : r.by # c
      BY <1>2
    <3> QED BY <3>1 DEF Rows
  <2>2. \A p \in s.rd : p \in conn[c].rd \/ Readable(c, p)
    OBVIOUS
  <2>3. \A p \in s.wr : p \in conn[c].wr \/ Writable(c, p)
    OBVIOUS
  <2> QED BY <1>1, <1>2, <2>1, <2>2, <2>3, LocksStep
<1> QED BY <1>3, <1>4

LEMMA RollbackKeeps ==
    ASSUME IInv, NEW c \in Conns, EndTransaction(c), conn[c].txn, conn[c].stmt.op = "rollback",
           UNCHANGED <<worker, sem, opened, tokens>>
    PROVE  IInv'
<1> DEFINE a == Says("ok", {})
           s == Ended(c, a, FALSE)
<1>0. conn[c].stmt # None /\ Undo(c) /\ conn' = [conn EXCEPT ![c] = s]
  BY DEF EndTransaction
<1>1. a \in Answers /\ a.rows = {} /\ a # None
  BY SaysIs
<1>2. EndsAs(c, a, s) /\ s.wr = {}
  <2> HIDE DEF a
  <2> QED BY <1>1, EndedIs
<1> HIDE DEF s, a
<1>s. /\ s \in Sessions /\ s.open = conn[c].open /\ s.stmt = None /\ s.rd \subseteq conn[c].rd
      /\ s.answer = IF conn[c].open THEN a ELSE None
  BY <1>2 DEF EndsAs
<1>3. conn' \in [Conns -> Sessions] /\ conn'[c] = s /\ \A d \in Conns \ {c} : conn'[d] = conn[d]
  BY <1>0, <1>s, SessionSet
<1>4. PagesStep(c) /\ RowsHold' /\ Rows' = {r \in Rows : r.by # c} /\ Committed' = Committed
  BY <1>0, UndoIs
<1>5. SessionHolds(c)'
  <2>1. Settled(a.rows)
    BY <1>1, RowsEmpty
  <2> QED BY <1>1, <1>2, <1>3, <1>4, <2>1, EndedSession
<1>6. Live' \subseteq Live /\ LocksHold'
  BY <1>0, <1>2, <1>s, UndoStep
<1>7. LiveStep(c)
  BY <1>6 DEF LiveStep
<1>8. ASSUME NEW w \in Workers, worker[w].c = c PROVE RegHolds(w)'
  <2>1. RegHolds(w) /\ worker[w].at = "rollback" /\ conn[c].open
    BY <1>0, <1>8, OwnerIs
  <2>2. ~Inserted(w)' /\ Folded(w)' = Folded(w)
    BY <2>1 DEF Inserted, Folded
  <2>3. Registers(w)'
    BY <2>1, <2>2 DEF Registers
  <2>4. \A r \in Rows' : r.by # worker[w].c
    BY <1>4, <1>8
  <2>5. \E r \in Committed' : r.name = Folded(w)'
    BY <1>4, <2>1, <2>2 DEF RegHolds
  <2> QED BY <2>1, <2>2, <2>3, <2>4, <2>5 DEF RegHolds, Commits
<1>9. c > opened => conn'[c] = NoSession
  <2>1. NoSession.stmt = None
    BY DEF NoSession
  <2> QED BY <1>0, <2>1 DEF IInv, OwnersHold
<1> QED BY <1>3, <1>s, <1>4, <1>5, <1>6, <1>7, <1>8, <1>9, ServerStep

LEMMA EndTransactionKeeps ==
    ASSUME IInv, NEW c \in Conns, EndTransaction(c), UNCHANGED <<worker, sem, opened, tokens>>
    PROVE  IInv'
<1>0. conn[c].stmt # None /\ conn[c].stmt.op \in {"commit", "rollback"}
  BY DEF EndTransaction
<1>1. CASE conn[c].txn
  BY <1>0, <1>1, CommitKeeps, RollbackKeeps
<1>2. CASE ~conn[c].txn
  <2> DEFINE a == Says("error", {})
             s == Ended(c, a, FALSE)
  <2>1. pages' = pages /\ conn' = [conn EXCEPT ![c] = s]
    BY <1>2 DEF EndTransaction
  <2>2. a \in Answers /\ a.rows = {} /\ a.st # "ok"
    BY SaysIs
  <2>3. EndsAs(c, a, s)
    <3> HIDE DEF a
    <3> QED BY <2>2, EndedIs
  <2>4. Settled(a.rows)
    BY <2>2, RowsEmpty
  <2> HIDE DEF s, a
  <2>5. \A r \in Rows : r.by # c
    <3> SUFFICES ASSUME NEW r \in Rows, r.by = c PROVE FALSE
      OBVIOUS
    <3>1. PICK p \in DOMAIN pages : r \in pages[p]
      BY DEF Rows
    <3> QED BY <1>2, <3>1, NoneIs DEF IInv, LocksHold
  <2>6. NoRowLost(c, s) /\ Tells(c, a, s)
    BY <2>2, <2>5 DEF NoRowLost, Tells
  <2> QED BY <1>0, <2>1, <2>2, <2>3, <2>4, <2>6, QuietEnd
<1> QED BY <1>1, <1>2

LEMMA NoSessionIs ==
    /\ NoSession \in Sessions /\ NoSession.open = FALSE /\ NoSession.stmt = None /\ NoSession.pos = 1
    /\ NoSession.seen = {} /\ NoSession.answer = None /\ NoSession.txn = FALSE
    /\ NoSession.rd = {} /\ NoSession.wr = {}
  BY SMT DEF NoSession, Sessions

LEMMA ServeEndsKeeps ==
    ASSUME IInv, NEW c \in Conns, serveEnds(c), UNCHANGED <<worker, sem, opened, tokens>>
    PROVE  IInv'
<1>0. ~conn[c].open /\ conn[c].stmt = None /\ Undo(c) /\ conn' = [conn EXCEPT ![c] = NoSession]
  BY DEF serveEnds
<1>1. /\ NoSession \in Sessions /\ NoSession.open = FALSE /\ NoSession.stmt = None /\ NoSession.pos = 1
      /\ NoSession.seen = {} /\ NoSession.answer = None /\ NoSession.rd = {} /\ NoSession.wr = {}
  BY NoSessionIs
<1> DEFINE s == NoSession
<1> HIDE DEF s
<1>s. /\ s \in Sessions /\ s.open = conn[c].open /\ s.stmt = None /\ s.rd \subseteq conn[c].rd
      /\ s.wr = {} /\ conn' = [conn EXCEPT ![c] = s]
  <2>1. conn[c].open \in BOOLEAN
    BY SessionFields DEF IInv, AccountsTypeOK
  <2>2. conn[c].open = FALSE
    BY <1>0, <2>1
  <2> QED BY <1>0, <1>1, <2>2 DEF s
<1>3. conn' \in [Conns -> Sessions] /\ conn'[c] = s /\ \A d \in Conns \ {c} : conn'[d] = conn[d]
  BY <1>s, SessionSet
<1>4. PagesStep(c) /\ RowsHold'
  BY <1>0, UndoIs
<1>5. SessionHolds(c)'
  <2>1. Held(c)' \subseteq DOMAIN pages' /\ 1 <= Len(pages') + 1
    <3>1. Len(pages') \in Nat
      BY <1>4, DomainGrows
    <3>2. 1 <= Len(pages') + 1
      BY <3>1, SMT
    <3> QED BY <1>1, <1>3, <3>2 DEF Held, s
  <2>2. Settled({})'
    BY DEF Settled, Topped
  <2> QED BY <1>1, <1>3, <2>1, <2>2 DEF SessionHolds, Settled, Topped, s
<1>6. Live' \subseteq Live /\ LocksHold'
  BY <1>0, <1>s, UndoStep
<1>7. LiveStep(c)
  BY <1>6 DEF LiveStep
<1>8. \A w \in Workers : worker[w].c # c
  BY <1>0, NoneIs DEF IInv, OwnersHold
<1>9. (c > opened => conn'[c] = NoSession) /\ \A w \in Workers : worker[w].c = c => RegHolds(w)'
  BY <1>3, <1>8 DEF s
<1> QED BY <1>3, <1>s, <1>4, <1>5, <1>6, <1>7, <1>9, ServerStep

\* The page that a row goes to: one with a free slot, or a new one.
LEMMA InsertIs ==
    ASSUME IInv, NEW c \in Conns, NEW row \in RowSet, row.by = c, \A r \in Rows : r.by # c,
           NEW p, p = conn[c].pos, p \in DOMAIN pages => Writable(c, p),
           pages' = IF p \in DOMAIN pages THEN [pages EXCEPT ![p] = @ \cup {row}]
                                          ELSE Append(pages, {row})
    PROVE  /\ PagesStep(c) /\ RowsHold' /\ Rows' = Rows \cup {row} /\ Writable(c, p)
           /\ p \in DOMAIN pages' /\ \A q \in DOMAIN pages' : row \in pages'[q] => q = p
<1>0. pages \in Seq(SUBSET RowSet) /\ c # None /\ RowsHold /\ conn[c] \in Sessions
      /\ p <= Len(pages) + 1
  BY NoneIs DEF IInv, AccountsTypeOK, SessionHolds
<1>d. Len(pages) \in Nat /\ DOMAIN pages = 1..Len(pages) /\ \A q \in DOMAIN pages : pages[q] \subseteq RowSet
  BY <1>0, PageFields
<1>p. p \in Nat \ {0}
  BY <1>0, SessionFields
<1>1. /\ pages' \in Seq(SUBSET RowSet) /\ Len(pages) <= Len(pages')
      /\ DOMAIN pages' = DOMAIN pages \cup {p}
      /\ \A q \in DOMAIN pages : q # p => pages'[q] = pages[q]
      /\ pages'[p] = IF p \in DOMAIN pages THEN pages[p] \cup {row} ELSE {row}
  <2>1. CASE p \in DOMAIN pages
    <3> DEFINE x == pages[p] \cup {row}
    <3>1. x \in SUBSET RowSet /\ pages' = [pages EXCEPT ![p] = x]
      BY <1>d, <2>1
    <3> HIDE DEF x
    <3>2. /\ pages' \in Seq(SUBSET RowSet) /\ Len(pages) <= Len(pages') /\ DOMAIN pages' = DOMAIN pages
          /\ pages'[p] = x /\ \A q \in DOMAIN pages : q # p => pages'[q] = pages[q]
      BY <1>0, <1>d, <2>1, <3>1, SMT
    <3>3. DOMAIN pages \cup {p} = DOMAIN pages
      BY <2>1
    <3>4. pages'[p] = pages[p] \cup {row}
      BY <3>2 DEF x
    <3> QED BY <2>1, <3>2, <3>3, <3>4
  <2>2. CASE p \notin DOMAIN pages
    <3> DEFINE x == {row}
    <3>1. x \in SUBSET RowSet /\ pages' = Append(pages, x)
      BY <2>2
    <3>2. p = Len(pages) + 1
      BY <1>0, <1>d, <1>p, <2>2, SMT
    <3> HIDE DEF x
    <3>3. /\ pages' \in Seq(SUBSET RowSet) /\ Len(pages') = Len(pages) + 1
          /\ pages'[Len(pages) + 1] = x /\ \A q \in 1..Len(pages) : pages'[q] = pages[q]
      BY <1>0, <3>1, SMT
    <3>4. Len(pages) <= Len(pages') /\ DOMAIN pages' = 1..Len(pages) \cup {Len(pages) + 1}
      BY <1>d, <3>3, SMT
    <3> QED BY <1>d, <2>2, <3>2, <3>3, <3>4 DEF x
  <2> QED BY <2>1, <2>2
<1>2. \A q \in DOMAIN pages : pages[q] \subseteq pages'[q] /\ pages'[q] \subseteq pages[q] \cup {row}
  BY <1>1
<1>3. Rows' = Rows \cup {row}
  <2>1. ASSUME NEW r \in Rows' PROVE r \in Rows \cup {row}
    <3>1. PICK q \in DOMAIN pages' : r \in pages'[q]
      BY DEF Rows
    <3>2. CASE q \in DOMAIN pages
      <4>1. r \in pages[q] \/ r = row
        BY <1>2, <3>1, <3>2
      <4> QED BY <3>2, <4>1 DEF Rows
    <3>3. CASE q \notin DOMAIN pages
      BY <1>1, <3>1, <3>3
    <3> QED BY <3>2, <3>3
  <2>2. ASSUME NEW r \in Rows PROVE r \in Rows'
    <3>1. PICK q \in DOMAIN pages : r \in pages[q]
      BY DEF Rows
    <3>2. q \in DOMAIN pages' /\ r \in pages'[q]
      BY <1>1, <1>2, <3>1
    <3> QED BY <3>2 DEF Rows
  <2>3. row \in Rows'
    <3>1. p \in DOMAIN pages' /\ row \in pages'[p]
      BY <1>1
    <3> QED BY <3>1 DEF Rows
  <2> QED BY <2>1, <2>2, <2>3
<1>4. Writable(c, p)
  <2>1. CASE p \in DOMAIN pages
    BY <2>1
  <2>2. CASE p \notin DOMAIN pages
    <3>1. \A d \in Conns : Held(d) \subseteq DOMAIN pages
      BY DEF IInv, SessionHolds
    <3> QED BY <2>2, <3>1 DEF Writable
  <2> QED BY <2>1, <2>2
<1>5. \A d \in Conns \ {c} : \A q \in conn[d].rd : pages'[q] \subseteq pages[q]
  <2> SUFFICES ASSUME NEW d \in Conns \ {c}, NEW q \in conn[d].rd PROVE pages'[q] \subseteq pages[q]
    OBVIOUS
  <2>1. q \in DOMAIN pages
    BY DEF IInv, SessionHolds, Held
  <2>2. q # p
    BY <1>4 DEF Writable, Held
  <2> QED BY <1>1, <2>1, <2>2
<1>6. PagesStep(c)
  <2>1. Committed \subseteq Committed'
    BY <1>3 DEF Committed
  <2>2. \A q \in DOMAIN pages' : \A r \in pages'[q] :
          r.by \notin {None, c} => q \in DOMAIN pages /\ r \in pages[q]
    <3> SUFFICES ASSUME NEW q \in DOMAIN pages', NEW r \in pages'[q], r.by \notin {None, c}
                 PROVE  q \in DOMAIN pages /\ r \in pages[q]
      OBVIOUS
    <3>1. r # row
      OBVIOUS
    <3>2. CASE q \in DOMAIN pages
      BY <1>2, <3>1, <3>2
    <3>3. CASE q \notin DOMAIN pages
      BY <1>1, <3>1, <3>3
    <3> QED BY <3>2, <3>3
  <2> QED BY <1>1, <1>3, <1>5, <2>1, <2>2 DEF PagesStep
<1>7. RowsHold'
  <2>1. \A r, s \in Rows' : r.by # None /\ s.by = r.by => r = s
    BY <1>0, <1>3 DEF RowsHold
  <2>2. ASSUME NEW q \in DOMAIN pages' PROVE Topped({r \in pages'[q] : r.by = None})
    <3>1. CASE q \in DOMAIN pages
      <4>1. {r \in pages'[q] : r.by = None} = {r \in pages[q] : r.by = None}
        BY <1>0, <1>2, <3>1
      <4> QED BY <1>0, <3>1, <4>1 DEF RowsHold
    <3>2. CASE q \notin DOMAIN pages
      <4>1. pages'[q] = {row}
        BY <1>1, <3>2
      <4>2. {r \in pages'[q] : r.by = None} = {}
        BY <1>0, <4>1
      <4> QED BY <4>2 DEF Topped
    <3> QED BY <3>1, <3>2
  <2> QED BY <2>1, <2>2 DEF RowsHold, Topped
<1>8. \A q \in DOMAIN pages' : row \in pages'[q] => q = p
  <2> SUFFICES ASSUME NEW q \in DOMAIN pages', row \in pages'[q], q # p PROVE FALSE
    OBVIOUS
  <2>1. q \in DOMAIN pages /\ row \in pages[q]
    BY <1>1
  <2> QED BY <2>1 DEF Rows
<1> QED BY <1>1, <1>3, <1>4, <1>6, <1>7, <1>8

\* The row of an insert is the one its worker has sent.
LEMMA InsertRow ==
    ASSUME IInv, NEW c \in Conns, conn[c].stmt # None, conn[c].stmt.op = "insert",
           NEW w \in Workers, worker[w].c = c
    PROVE  /\ worker[w].at = "insert" /\ worker[w].ask.method # "LOGIN" /\ Registers(w) /\ ~Inserted(w)
           /\ IsOf(w, conn[c].stmt.row) /\ worker[w].turn
<1>1. /\ RegHolds(w) /\ conn[c].stmt = Statement(w) /\ conn[c].answer = None
      /\ conn[c].stmt.op = IF worker[w].at \in {"maxid", "find"} THEN "select" ELSE worker[w].at
  BY OwnerIs
<1>2. worker[w].at = "insert"
  BY <1>1
<1>3. worker[w].ask.method # "LOGIN" /\ worker[w].turn
  <2>1. worker[w].at \in Talking \ {"find"}
    BY <1>2 DEF Talking
  <2> QED BY <2>1 DEF IInv, TurnHolds
<1>4. Registers(w) /\ ~Inserted(w)
  BY <1>1, <1>3 DEF RegHolds, Inserted, Fine, Said
<1>5. IsOf(w, Statement(w).row)
  <2> DEFINE d == password_hash(worker[w].ask.pass, gen_new_salt(w))
             row == [id |-> worker[w].next, name |-> user_name_fold(worker[w].ask.user),
                     salt |-> gen_new_salt(w), digest |-> d, by |-> None]
  <2>1. Statement(w).row = row
    BY <1>2 DEF Statement
  <2>2. row.id = worker[w].next /\ row.name = user_name_fold(worker[w].ask.user)
        /\ row.digest = d /\ row.salt = gen_new_salt(w)
    OBVIOUS
  <2> QED BY <2>1, <2>2 DEF IsOf, Folded, Matches
<1> QED BY <1>1, <1>2, <1>3, <1>4, <1>5

LEMMA InsertKeeps ==
    ASSUME IInv, NEW c \in Conns, insertTuple(c), UNCHANGED <<worker, sem, opened, tokens>>
    PROVE  IInv'
<1> DEFINE p == conn[c].pos
           row == [conn[c].stmt.row EXCEPT !.by = c]
           a == Says("ok", {})
           e == Ended(c, a, conn[c].txn)
           s == [e EXCEPT !.wr = @ \cup {p}]
<1>0. conn[c].stmt # None /\ conn[c].stmt.op = "insert"
  BY DEF insertTuple
<1>h. /\ SessionHolds(c) /\ conn[c] \in Sessions /\ conn[c].txn /\ conn[c].stmt.row \in RowSet
      /\ \A r \in Rows : r.by # c
  BY <1>0 DEF IInv, AccountsTypeOK, SessionHolds
<1>1. CASE p \in DOMAIN pages /\ Cardinality(pages[p]) = Slots
  <2>1. conn' = [conn EXCEPT ![c].pos = conn[c].pos + 1] /\ pages' = pages
    BY <1>1 DEF insertTuple
  <2> QED BY <1>0, <1>1, <2>1, PassKeeps
<1>2. CASE ~(p \in DOMAIN pages /\ Cardinality(pages[p]) = Slots)
  <2>1. /\ p \in DOMAIN pages => Writable(c, p)
        /\ pages' = (IF p \in DOMAIN pages THEN [pages EXCEPT ![p] = @ \cup {row}] ELSE Append(pages, {row}))
        /\ conn' = [conn EXCEPT ![c] = s]
    BY <1>2, <1>h DEF insertTuple
  <2>r. /\ row \in RowSet /\ row.by = c /\ row.id = conn[c].stmt.row.id /\ row.name = conn[c].stmt.row.name
        /\ row.digest = conn[c].stmt.row.digest /\ row.salt = conn[c].stmt.row.salt
    BY <1>h DEF RowSet
  <2> HIDE DEF row
  <2>2. /\ PagesStep(c) /\ RowsHold' /\ Rows' = Rows \cup {row} /\ Writable(c, p)
        /\ p \in DOMAIN pages' /\ \A q \in DOMAIN pages' : row \in pages'[q] => q = p
    BY <1>h, <2>1, <2>r, InsertIs
  <2>a. a \in Answers /\ a.rows = {} /\ a # None /\ a.st = "ok"
    BY SaysIs
  <2> HIDE DEF a
  <2>e. EndsAs(c, a, e) /\ e.txn = conn[c].txn /\ e.wr = conn[c].wr
    BY <1>h, <2>a, EndedIs
  <2>f. /\ e \in Sessions /\ e.open = conn[c].open /\ e.stmt = None /\ e.pos = 1 /\ e.seen = {}
        /\ e.answer = (IF conn[c].open THEN a ELSE None) /\ e.rd \subseteq conn[c].rd
    BY <2>e DEF EndsAs
  <2> HIDE DEF e
  <2>s. /\ s \in Sessions /\ s.open = conn[c].open /\ s.stmt = None /\ s.pos = 1 /\ s.seen = {}
        /\ s.answer = (IF conn[c].open THEN a ELSE None) /\ s.rd \subseteq conn[c].rd
        /\ s.txn = conn[c].txn /\ s.wr = conn[c].wr \cup {p}
    <3> DEFINE wr1 == e.wr \cup {p}
    <3>1. wr1 \in SUBSET Nat /\ wr1 = conn[c].wr \cup {p}
      <4>1. conn[c].wr \subseteq Nat /\ p \in Nat
        BY <1>h, SessionFields
      <4> QED BY <2>e, <4>1
    <3>2. s = [e EXCEPT !.wr = wr1]
      OBVIOUS
    <3> HIDE DEF wr1, s
    <3>3. /\ s \in Sessions /\ s.open = e.open /\ s.stmt = e.stmt /\ s.pos = e.pos /\ s.seen = e.seen
          /\ s.answer = e.answer /\ s.rd = e.rd /\ s.txn = e.txn /\ s.wr = wr1
      BY <2>f, <3>1, <3>2 DEF Sessions
    <3> QED BY <2>e, <2>f, <3>1, <3>3
  <2> HIDE DEF s
  <2>3. conn' \in [Conns -> Sessions] /\ conn'[c] = s /\ \A d \in Conns \ {c} : conn'[d] = conn[d]
    BY <2>1, <2>s, SessionSet
  <2>4. SessionHolds(c)'
    <3>1. Held(c)' \subseteq DOMAIN pages' /\ 1 <= Len(pages') + 1
      <4>1. DOMAIN pages \subseteq DOMAIN pages' /\ Len(pages') \in Nat
        BY <2>2, DomainGrows
      <4>2. 1 <= Len(pages') + 1
        BY <4>1, SMT
      <4>3. conn[c].rd \subseteq DOMAIN pages /\ conn[c].wr \subseteq DOMAIN pages
        BY <1>h DEF SessionHolds, Held
      <4> QED BY <2>2, <2>3, <2>s, <4>1, <4>2, <4>3 DEF Held
    <3>2. Settled({})'
      BY DEF Settled, Topped
    <3>3. conn'[c].answer # None => conn'[c].answer.rows = {} /\ conn'[c].open
      BY <2>3, <2>a, <2>s
    <3> QED BY <2>3, <2>s, <3>1, <3>2, <3>3 DEF SessionHolds, Settled, Topped
  <2>5. LocksHold'
    <3>1. \A q \in DOMAIN pages' : \A r \in pages'[q] : r.by = c => s.txn /\ q \in s.wr
      <4> SUFFICES ASSUME NEW q \in DOMAIN pages', NEW r \in pages'[q], r.by = c PROVE s.txn /\ q \in s.wr
        OBVIOUS
      <4>1. r \in Rows'
        BY DEF Rows
      <4>2. r = row
        BY <1>h, <2>2, <4>1
      <4> QED BY <1>h, <2>2, <2>s, <4>2
    <3>2. \A q \in s.rd : q \in conn[c].rd \/ Readable(c, q)
      BY <2>s
    <3>3. \A q \in s.wr : q \in conn[c].wr \/ Writable(c, q)
      BY <2>2, <2>s
    <3> QED BY <2>2, <2>3, <3>1, <3>2, <3>3, LocksStep
  <2>l. \A r \in Live' : r \in Live \/ (r = row /\ conn[c].open)
    <3> SUFFICES ASSUME NEW r \in Live' PROVE r \in Live \/ (r = row /\ conn[c].open)
      OBVIOUS
    <3>1. r \in Rows \cup {row}
      BY <2>2 DEF Live
    <3>2. CASE r = row
      BY <2>3, <2>r, <2>s, <3>2, NoneIs DEF Live
    <3>3. CASE r \in Rows /\ r.by = None
      BY <3>3 DEF Live
    <3>4. CASE r \in Rows /\ r.by # None
      <4>1. conn'[r.by] = conn[r.by]
        <5>1. r \in RowSet /\ r.by # c
          BY <1>h, <3>4, RowsAre DEF IInv, AccountsTypeOK
        <5> QED BY <2>3, <3>4, <5>1, RowFields
      <4> QED BY <3>4, <4>1 DEF Live
    <3> QED BY <3>1, <3>2, <3>3, <3>4
  <2>6. ASSUME NEW w \in Workers, worker[w].c = c PROVE RegHolds(w)'
    <3>1. /\ worker[w].at = "insert" /\ Registers(w) /\ IsOf(w, conn[c].stmt.row)
      BY <1>0, <2>6, InsertRow
    <3>2. conn[c].open
      BY <1>0, <2>6, OwnerIs
    <3>3. Said(w)' = a /\ Said(w)' # None /\ Fine(w)' /\ Inserted(w)' /\ conn'[worker[w].c].txn
      BY <1>h, <2>3, <2>6, <2>a, <2>s, <3>1, <3>2 DEF Said, Fine, Inserted
    <3>4. \A r : r = row => IsOf(w, r)'
      BY <2>r, <3>1 DEF IsOf, Folded, Matches
    <3>5. Registers(w)'
      BY <3>1, <3>3 DEF Registers
    <3>6. \A r \in Rows' : r.by = worker[w].c => r = row
      BY <1>h, <2>2, <2>6
    <3>7. row \in Rows' /\ row.by = worker[w].c
      BY <2>2, <2>6, <2>r
    <3> QED BY <3>1, <3>3, <3>4, <3>5, <3>6, <3>7 DEF RegHolds
  <2>7. \/ LiveStep(c)
        \/ LiveUnique' /\ \A v \in Workers : worker[v].c \notin {None, c} => worker[v].ask.method = "LOGIN"
    <3>1. CASE ~conn[c].open
      BY <2>l, <3>1 DEF LiveStep
    <3>2. CASE conn[c].open
      <4>1. PICK w \in Workers : worker[w].c = c
        BY <3>2 DEF IInv, OwnersHold
      <4>2. /\ worker[w].at = "insert" /\ Registers(w) /\ IsOf(w, conn[c].stmt.row) /\ ~Inserted(w)
            /\ worker[w].turn
        BY <1>0, <4>1, InsertRow
      <4>3. LiveUnique'
        <5>1. \A r \in Live : r.id # row.id /\ r.name # row.name
          <6>1. row.id = worker[w].next /\ row.name = Folded(w) /\ worker[w].next \in Int
            BY <2>r, <4>2 DEF IsOf, Registers
          <6>2. \A r \in Live : r.id < worker[w].next /\ r.name # Folded(w)
            BY <4>2 DEF Registers
          <6>3. \A r \in Live : r.id \in Int
            BY RowsAre, RowFields DEF Live, IInv, AccountsTypeOK
          <6>4. \A r \in Live : r.id # worker[w].next
            BY <6>1, <6>2, <6>3, SMT
          <6> QED BY <6>1, <6>2, <6>4
        <5>2. LiveUnique
          BY DEF IInv
        <5> QED BY <2>l, <5>1, <5>2 DEF LiveUnique
      <4>4. ASSUME NEW v \in Workers, worker[v].c \notin {None, c} PROVE worker[v].ask.method = "LOGIN"
        <5>1. worker[v].at \in Talking
          BY <4>4 DEF IInv, OwnersHold
        <5>2. worker[v].ask.method # "LOGIN" => worker[v].turn
          BY <5>1 DEF IInv, TurnHolds
        <5>3. worker[v].turn => v = w
          BY <4>2 DEF IInv, TurnHolds, TurnAccounted
        <5> QED BY <4>1, <4>4, <5>2, <5>3
      <4> QED BY <4>3, <4>4
    <3> QED BY <3>1, <3>2
  <2>8. c > opened => conn'[c] = NoSession
    BY <1>0, NoSessionIs DEF IInv, OwnersHold
  <2>9. conn'[c].open = conn[c].open /\ conn'[c].stmt \in {None, conn[c].stmt}
    BY <2>3, <2>s
  <2> QED BY <2>2, <2>3, <2>4, <2>5, <2>6, <2>7, <2>8, <2>9, ServerStep
<1> QED BY <1>1, <1>2

LEMMA ServeKeeps ==
    ASSUME IInv, NEW c \in Conns, Serve(c)
    PROVE  IInv'
<1>0. UNCHANGED <<worker, sem, opened, tokens>>
  BY DEF Serve
<1>1. CASE SetTransaction(c)
  BY <1>0, <1>1, BeginKeeps
<1>2. CASE EndTransaction(c)
  BY <1>0, <1>2, EndTransactionKeeps
<1>3. CASE Scan(c)
  BY <1>0, <1>3, ScanOnKeeps, ScanEndKeeps
<1>4. CASE insertTuple(c)
  BY <1>0, <1>4, InsertKeeps
<1>5. CASE Victim(c)
  <2>1. conn[c].stmt # None /\ conn[c].stmt.op \in {"select", "insert"} /\ Aborted(c, "retry")
    BY <1>5 DEF Victim, WaitsFor
  <2> QED BY <1>0, <2>1, AbortKeeps
<1>6. CASE serveEnds(c)
  BY <1>0, <1>6, ServeEndsKeeps
<1> QED BY <1>1, <1>2, <1>3, <1>4, <1>5, <1>6 DEF Serve

LEMMA RefusedKeeps ==
    ASSUME IInv, NEW c \in Conns, Refused(c)
    PROVE  IInv'
<1>1. /\ conn[c].stmt # None /\ conn[c].stmt.op \in {"select", "insert"} /\ Aborted(c, "error")
      /\ UNCHANGED <<worker, sem, opened, tokens>>
  BY DEF Refused
<1> QED BY <1>1, AbortKeeps

-----------------------------------------------------------------------------
(* The worker's side. *)

\* Worker w goes over to state u, which is at no statement.
Leaves(w, u) ==
  /\ u \in WorkerStates /\ worker' = [worker EXCEPT ![w] = u]
  /\ u.c = None /\ u.at \notin Talking

\* The turn is handed on, taken or left as the place of the worker demands.
Fits(u) ==
  /\ u.at \in {"gate", "turn", "answer"} => ~u.turn
  /\ u.at \in Talking \cup {"open"} /\ u.ask.method # "LOGIN" => u.turn
  /\ u.at \in Talking \ {"find"} => u.ask.method # "LOGIN"
  /\ u.at \in Talking \cup {"open", "turn"} => u.ask \in Asks

LEMMA WorkerSet ==
    ASSUME IInv, NEW w \in Workers, NEW u \in WorkerStates, worker' = [worker EXCEPT ![w] = u]
    PROVE  /\ worker' \in [Workers -> WorkerStates] /\ worker'[w] = u
           /\ \A v \in Workers \ {w} : worker'[v] = worker[v]
  BY DEF IInv, AccountsTypeOK

LEMMA TurnStays ==
    ASSUME IInv, NEW w \in Workers, NEW u \in WorkerStates, worker' = [worker EXCEPT ![w] = u],
           sem' = sem, u.turn = worker[w].turn, Fits(u)
    PROVE  TurnHolds' /\ sem' \in {0, 1}
<1>1. worker'[w] = u /\ \A v \in Workers \ {w} : worker'[v] = worker[v]
  BY WorkerSet
<1>h. TurnHolds
  BY DEF IInv
<1>2. \A v \in Workers : worker'[v].turn = worker[v].turn
  BY <1>1
<1>3. TurnAccounted'
  <2>1. (\E v \in Workers : worker'[v].turn) <=> (\E v \in Workers : worker[v].turn)
    BY <1>2
  <2>2. \A x, v \in Workers : worker'[v].turn /\ worker'[x].turn => v = x
    BY <1>2, <1>h DEF TurnHolds, TurnAccounted
  <2>3. sem = IF \E v \in Workers : worker[v].turn THEN 0 ELSE 1
    BY <1>h DEF TurnHolds, TurnAccounted
  <2> QED BY <2>1, <2>2, <2>3 DEF TurnAccounted
<1>4. \A v \in Workers : worker'[v] = worker[v] \/ worker'[v] = u
  BY <1>1
<1> QED BY <1>1, <1>3, <1>4, <1>h DEF TurnHolds, Fits, IInv, AccountsTypeOK

LEMMA TurnFreed ==
    ASSUME IInv, NEW w \in Workers, NEW u \in WorkerStates, worker' = [worker EXCEPT ![w] = u],
           NEW status, reg_release(w, status), u.turn = FALSE, u.at = "answer"
    PROVE  TurnHolds' /\ sem' \in {0, 1}
<1>1. worker'[w] = u /\ \A v \in Workers \ {w} : worker'[v] = worker[v]
  BY WorkerSet
<1>h. TurnHolds /\ TurnAccounted
  BY DEF IInv, TurnHolds
<1>f. Fits(u)
  BY DEF Fits, Talking
<1>2. CASE worker[w].turn
  <2>1. sem' = 1
    BY <1>2 DEF reg_release
  <2>2. \A v \in Workers : ~worker'[v].turn
    <3>1. \A v \in Workers \ {w} : ~worker[v].turn
      BY <1>2, <1>h DEF TurnAccounted
    <3> QED BY <1>1, <3>1
  <2>3. TurnAccounted'
    BY <2>1, <2>2 DEF TurnAccounted
  <2>4. \A v \in Workers : worker'[v] = worker[v] \/ worker'[v] = u
    BY <1>1
  <2> QED BY <1>f, <1>h, <2>1, <2>3, <2>4 DEF TurnHolds, Fits
<1>3. CASE ~worker[w].turn
  <2>1. worker[w].turn = FALSE
    <3>1. worker[w].turn \in BOOLEAN
      BY WorkerFields DEF IInv, AccountsTypeOK
    <3> QED BY <1>3, <3>1
  <2>2. sem' = sem
    BY <1>3 DEF reg_release
  <2> QED BY <1>f, <2>1, <2>2, TurnStays
<1> QED BY <1>2, <1>3

\* A worker that has no connection leaves the sessions and the table alone.
LEMMA IdleStep ==
    ASSUME IInv, NEW w \in Workers, NEW u, Leaves(w, u), worker[w].c = None,
           UNCHANGED <<conn, pages, opened>>, TurnHolds', sem' \in {0, 1}, TokensHold', AnswerHolds(w)'
    PROVE  IInv'
<1>0. u \in WorkerStates /\ u.c = None /\ u.at \notin Talking
  BY DEF Leaves
<1>1. /\ worker' \in [Workers -> WorkerStates] /\ worker'[w] = u
      /\ \A v \in Workers \ {w} : worker'[v] = worker[v]
  BY WorkerSet DEF Leaves
<1>2. AccountsTypeOK'
  BY <1>1 DEF IInv, AccountsTypeOK
<1>k. Rows' = Rows /\ Committed' = Committed /\ Live' = Live /\ RowsHold'
  BY PagesSame DEF Live
<1>3. OwnersHold'
  <2>h. OwnersHold
    BY DEF IInv
  <2>1. \A v \in Workers : worker'[v].c # None =>
          v # w /\ worker'[v] = worker[v] /\ Statement(v)' = Statement(v)
    BY <1>0, <1>1 DEF Statement
  <2>2. \A v \in Workers : worker[v].c # None => v # w /\ worker'[v] = worker[v]
    BY <1>1
  <2>3. \A v \in Workers : worker'[v].c # None <=> worker'[v].at \in Talking
    BY <1>0, <1>1, <2>h DEF OwnersHold
  <2>4. \A x, v \in Workers : worker'[v].c # None /\ worker'[x].c = worker'[v].c => x = v
    <3> SUFFICES ASSUME NEW x \in Workers, NEW v \in Workers, worker'[v].c # None, worker'[x].c = worker'[v].c
                 PROVE  x = v
      OBVIOUS
    <3>1. worker'[v] = worker[v]
      BY <2>1
    <3>2. worker'[x].c # None
      OBVIOUS
    <3>3. worker'[x] = worker[x]
      BY <2>1, <3>2
    <3>4. worker[v].c # None /\ worker[x].c = worker[v].c
      BY <3>1, <3>3
    <3> QED BY <2>h, <3>4 DEF OwnersHold
  <2>5. \A c \in Conns : conn[c].open => \E v \in Workers : worker'[v].c = c
    BY <2>2, <2>h, NoneIs, SMT DEF OwnersHold
  <2>6. \A v \in Workers : worker'[v].c # None => worker'[v].c \in 1..opened /\ conn[worker'[v].c].open
    BY <2>1, <2>h DEF OwnersHold
  <2>7. \A v \in Workers : worker'[v].c # None /\ conn[worker'[v].c].stmt # None =>
          conn[worker'[v].c].stmt = Statement(v)'
    <3> SUFFICES ASSUME NEW v \in Workers, worker'[v].c # None, conn[worker'[v].c].stmt # None
                 PROVE  conn[worker'[v].c].stmt = Statement(v)'
      OBVIOUS
    <3>1. worker'[v] = worker[v] /\ Statement(v)' = Statement(v)
      BY <2>1
    <3> QED BY <2>h, <3>1, SMT DEF OwnersHold
  <2>8. \A c \in Conns : c > opened => conn[c] = NoSession
    BY <2>h DEF OwnersHold
  <2> QED BY <2>3, <2>4, <2>5, <2>6, <2>7, <2>8 DEF OwnersHold
<1>4. LocksHold' /\ LiveUnique' /\ \A c \in Conns : SessionHolds(c)'
  <2>1. LocksHold'
    BY DEF IInv, LocksHold, Held
  <2>2. LiveUnique'
    BY <1>k DEF IInv, LiveUnique
  <2>3. \A c \in Conns : SessionHolds(c)'
    BY <1>k, SMT DEF IInv, SessionHolds, Held, Settled, Topped
  <2> QED BY <2>1, <2>2, <2>3
<1>5. ASSUME NEW v \in Workers PROVE AnswerHolds(v)' /\ (worker'[v].c # None => RegHolds(v)')
  <2>1. CASE v = w
    BY <1>0, <1>1, <2>1
  <2>2. CASE v # w
    <3>1. worker'[v] = worker[v]
      BY <1>1, <2>2
    <3>2. AnswerHolds(v)'
      BY <1>k, <3>1, AnswerStays DEF IInv
    <3>3. /\ Said(v)' = Said(v) /\ (Fine(v)' <=> Fine(v)) /\ Folded(v)' = Folded(v)
          /\ (Inserted(v)' <=> Inserted(v)) /\ \A r : IsOf(v, r)' <=> IsOf(v, r)
      BY <3>1 DEF Said, Fine, Folded, Inserted, IsOf, Matches
    <3>4. Registers(v) => Registers(v)'
      BY <1>k, <3>1, <3>3 DEF Registers
    <3>5. RegHolds(v) => RegHolds(v)'
      BY <1>k, <3>1, <3>3, <3>4 DEF RegHolds, Commits
    <3> QED BY <3>1, <3>2, <3>5 DEF IInv
  <2> QED BY <2>1, <2>2
<1> QED BY <1>2, <1>k, <1>3, <1>4, <1>5 DEF IInv

\* Worker w opens, uses or closes session c.
Uses(w, c) ==
  /\ \A v \in Workers \ {w} : worker'[v] = worker[v] /\ worker[v].c # c
  /\ \A d \in Conns \ {c} : conn'[d] = conn[d]
  /\ worker[w].c \in {None, c} /\ worker'[w].c \in {None, c}
  /\ worker'[w].c # None => worker'[w].at \in Talking
  /\ worker'[w].at \in Talking => worker'[w].c # None
  /\ worker'[w].c = c => conn'[c].open
  /\ conn'[c].open => worker'[w].c = c
  /\ worker'[w].c = c /\ conn'[c].stmt # None => conn'[c].stmt = Statement(w)'

LEMMA OwnersStep ==
    ASSUME IInv, NEW w \in Workers, NEW c \in Conns, opened' \in Nat, opened <= opened', c <= opened',
           Uses(w, c)
    PROVE  OwnersHold'
<1> USE DEF Uses
<1>h. OwnersHold /\ opened \in Nat
  BY AccountsAssumption, SMT DEF IInv, AccountsTypeOK
<1>n. c \in Nat \ {0} /\ c # None /\ c \in 1..opened'
  <2>1. c \in Nat \ {0}
    BY AccountsAssumption, SMT DEF Conns
  <2>2. c \in 1..opened'
    BY <2>1, SMT
  <2> QED BY <2>1, <2>2, NoneIs
<1>o. \A v \in Workers \ {w} : worker[v].c # None =>
        /\ worker[v].c \in Conns \ {c} /\ worker[v].c \in 1..opened' /\ Statement(v)' = Statement(v)
        /\ conn'[worker[v].c] = conn[worker[v].c]
  <2> SUFFICES ASSUME NEW v \in Workers \ {w}, worker[v].c # None
               PROVE  /\ worker[v].c \in Conns \ {c} /\ worker[v].c \in 1..opened'
                      /\ Statement(v)' = Statement(v)
                      /\ conn'[worker[v].c] = conn[worker[v].c]
    OBVIOUS
  <2>1. worker[v].c \in Conns \ {c}
    BY WorkerFields DEF IInv, AccountsTypeOK
  <2>2. worker[v].c \in 1..opened
    BY <1>h DEF OwnersHold
  <2>3. 1..opened \subseteq 1..opened'
    BY <1>h, SMT
  <2> QED BY <2>1, <2>2, <2>3 DEF Statement
<1>1. ASSUME NEW v \in Workers PROVE worker'[v].c # None <=> worker'[v].at \in Talking
  <2>1. CASE v = w
    BY <2>1
  <2>2. CASE v # w
    BY <1>h, <2>2 DEF OwnersHold
  <2> QED BY <2>1, <2>2
<1>2. ASSUME NEW v \in Workers, worker'[v].c # None
      PROVE  worker'[v].c \in 1..opened' /\ conn'[worker'[v].c].open
  <2>1. CASE v = w
    BY <1>2, <1>n, <2>1
  <2>2. CASE v # w
    <3>1. worker'[v] = worker[v] /\ worker[v].c # None
      BY <1>2, <2>2
    <3>2. conn[worker[v].c].open
      BY <1>h, <3>1 DEF OwnersHold
    <3> QED BY <1>o, <2>2, <3>1, <3>2
  <2> QED BY <2>1, <2>2
<1>3. ASSUME NEW x \in Workers, NEW v \in Workers, worker'[v].c # None, worker'[x].c = worker'[v].c
      PROVE  x = v
  <2>1. CASE v = w /\ x # w
    BY <1>3, <2>1
  <2>2. CASE v # w /\ x = w
    BY <1>3, <2>2
  <2>3. CASE v # w /\ x # w
    <3>1. worker[v].c # None /\ worker[x].c = worker[v].c
      BY <1>3, <2>3
    <3> QED BY <1>h, <3>1 DEF OwnersHold
  <2> QED BY <2>1, <2>2, <2>3
<1>4. ASSUME NEW d \in Conns, conn'[d].open PROVE \E v \in Workers : worker'[v].c = d
  <2>1. CASE d = c
    BY <1>4, <2>1
  <2>2. CASE d # c
    <3>1. conn[d].open
      BY <1>4, <2>2
    <3>2. PICK v \in Workers : worker[v].c = d
      BY <1>h, <3>1 DEF OwnersHold
    <3>3. v # w
      BY <2>2, <3>2, NoneIs
    <3> QED BY <3>2, <3>3
  <2> QED BY <2>1, <2>2
<1>5. ASSUME NEW d \in Conns, d > opened' PROVE conn'[d] = NoSession
  <2>1. d \in Nat
    BY NoneIs
  <2>2. d # c /\ d > opened
    BY <1>5, <1>h, <1>n, <2>1, SMT
  <2> QED BY <1>h, <2>2 DEF OwnersHold
<1>6. ASSUME NEW v \in Workers, worker'[v].c # None, conn'[worker'[v].c].stmt # None
      PROVE  conn'[worker'[v].c].stmt = Statement(v)'
  <2>1. CASE v = w
    BY <1>6, <2>1
  <2>2. CASE v # w
    <3>1. worker'[v] = worker[v] /\ worker[v].c # None
      BY <1>6, <2>2
    <3>2. conn'[worker[v].c] = conn[worker[v].c] /\ Statement(v)' = Statement(v)
      BY <1>o, <2>2, <3>1
    <3>3. conn[worker[v].c].stmt # None
      BY <1>6, <3>1, <3>2
    <3>4. conn[worker[v].c].stmt = Statement(v)
      BY <1>h, <3>1, <3>3 DEF OwnersHold
    <3> QED BY <3>1, <3>2, <3>4
  <2> QED BY <2>1, <2>2
<1> QED BY <1>1, <1>2, <1>3, <1>4, <1>5, <1>6 DEF OwnersHold

\* A session is the business of one worker only.
LEMMA OwnSession ==
    ASSUME IInv, NEW w \in Workers, worker[w].c # None
    PROVE  /\ worker[w].c \in Conns /\ worker[w].c <= opened /\ conn[worker[w].c].open
           /\ worker[w].at \in Talking /\ worker[w].ask \in Asks
           /\ \A v \in Workers \ {w} : worker[v].c # worker[w].c
<1>1. worker[w].c \in Conns
  BY WorkerFields DEF IInv, AccountsTypeOK
<1>2. worker[w].c \in 1..opened /\ conn[worker[w].c].open /\ worker[w].at \in Talking
  BY DEF IInv, OwnersHold
<1> DEFINE c == worker[w].c
<1>3. c \in 1..opened /\ opened \in Nat
  BY <1>2, AccountsAssumption, SMT DEF IInv, AccountsTypeOK
<1> HIDE DEF c
<1>4. c <= opened
  BY <1>3, SMT
<1>5. \A v \in Workers \ {w} : worker[v].c # worker[w].c
  BY DEF IInv, OwnersHold
<1>6. worker[w].ask \in Asks
  BY <1>2 DEF IInv, TurnHolds
<1> QED BY <1>1, <1>2, <1>4, <1>5, <1>6 DEF c

\* Only stmt, answer and open of c change: c locks what it locked.
LEMMA LocksStay ==
    ASSUME IInv, NEW c \in Conns, pages' = pages, \A d \in Conns \ {c} : conn'[d] = conn[d],
           conn'[c].rd = conn[c].rd, conn'[c].wr = conn[c].wr, conn'[c].txn = conn[c].txn
    PROVE  LocksHold'
<1>1. \A d \in Conns : conn'[d].rd = conn[d].rd /\ conn'[d].wr = conn[d].wr /\ conn'[d].txn = conn[d].txn
  OBVIOUS
<1>2. \A d \in Conns : Held(d)' = Held(d)
  BY <1>1 DEF Held
<1>3. \A p \in DOMAIN pages : \A r \in pages[p] : r.by # None => r.by \in Conns
  BY PageFields, RowFields DEF IInv, AccountsTypeOK
<1> QED BY <1>1, <1>2, <1>3 DEF IInv, LocksHold

\* A worker that has a connection leaves what it locked and wrote alone.
LEMMA UseStep ==
    ASSUME IInv, NEW w \in Workers, NEW c \in Conns, worker[w].c = c,
           NEW u \in WorkerStates, worker' = [worker EXCEPT ![w] = u],
           NEW s \in Sessions, conn' = [conn EXCEPT ![c] = s],
           s.rd = conn[c].rd, s.wr = conn[c].wr, s.txn = conn[c].txn,
           Uses(w, c), UNCHANGED <<pages, opened>>,
           TurnHolds', sem' \in {0, 1}, TokensHold', AnswerHolds(w)', SessionHolds(c)',
           worker'[w].c # None /\ Live' \subseteq Live => RegHolds(w)'
    PROVE  IInv'
<1>1. /\ worker' \in [Workers -> WorkerStates] /\ worker'[w] = u
      /\ \A v \in Workers \ {w} : worker'[v] = worker[v]
  BY WorkerSet
<1>c. c <= opened /\ c # None /\ conn[c].open /\ \A v \in Workers \ {w} : worker[v].c # c
  BY OwnSession, NoneIs
<1>3. conn' \in [Conns -> Sessions] /\ conn'[c] = s /\ \A d \in Conns \ {c} : conn'[d] = conn[d]
  BY SessionSet
<1>k. Rows' = Rows /\ Committed' = Committed
  BY PagesSame
<1>4. AccountsTypeOK'
  BY <1>1, <1>3 DEF IInv, AccountsTypeOK
<1>5. OwnersHold'
  <2>1. opened \in Nat
    BY AccountsAssumption, SMTT(20) DEF IInv, AccountsTypeOK
  <2>2. opened' \in Nat /\ opened <= opened' /\ c <= opened'
    BY <1>c, <2>1, SMT
  <2> QED BY <2>2, OwnersStep
<1>6. LocksHold'
  BY <1>3, LocksStay
<1>8. Live' \subseteq Live
  <2> SUFFICES ASSUME NEW r \in Live' PROVE r \in Live
    OBVIOUS
  <2>1. r \in Rows /\ r \in RowSet
    BY <1>k, RowsAre DEF Live, IInv, AccountsTypeOK
  <2>2. CASE r.by = None
    BY <2>1, <2>2 DEF Live
  <2>3. CASE r.by = c
    BY <1>c, <2>1, <2>3 DEF Live
  <2>4. CASE r.by \notin {None, c}
    <3>1. conn'[r.by] = conn[r.by]
      BY <1>3, <2>1, <2>4, RowFields
    <3> QED BY <2>1, <2>4, <3>1 DEF Live
  <2> QED BY <2>2, <2>3, <2>4
<1>9. worker'[w].c # None => RegHolds(w)'
  BY <1>8
<1> QED BY <1>1, <1>3, <1>4, <1>5, <1>6, <1>8, <1>9, <1>c, WorkerStep

\* The worker closes its connection; what the session was told to do it still does.
LEMMA CloseStep ==
    ASSUME IInv, NEW w \in Workers, NEW u, Leaves(w, u), NEW c \in Conns, worker[w].c = c,
           conn' = Closed(c), UNCHANGED <<pages, opened>>,
           TurnHolds', sem' \in {0, 1}, TokensHold', AnswerHolds(w)'
    PROVE  IInv'
<1> DEFINE x == conn[c]
           s == [x EXCEPT !.open = FALSE, !.answer = None]
<1>0. u \in WorkerStates /\ u.c = None /\ u.at \notin Talking /\ worker' = [worker EXCEPT ![w] = u]
  BY DEF Leaves
<1>1. worker'[w] = u /\ \A v \in Workers \ {w} : worker'[v] = worker[v]
  BY <1>0, WorkerSet
<1>c. c # None /\ \A v \in Workers \ {w} : worker[v].c # c
  BY OwnSession, NoneIs
<1>h. SessionHolds(c) /\ x \in Sessions
  BY DEF IInv, AccountsTypeOK
<1>s. /\ s \in Sessions /\ s.open = FALSE /\ s.stmt = x.stmt /\ s.pos = x.pos /\ s.seen = x.seen
      /\ s.answer = None /\ s.txn = x.txn /\ s.rd = x.rd /\ s.wr = x.wr
  <2> DEFINE no == FALSE
  <2>1. no \in BOOLEAN /\ s = [x EXCEPT !.open = no, !.answer = None]
    OBVIOUS
  <2> HIDE DEF x, no
  <2> QED BY <1>h, <2>1 DEF Sessions, no
<1>2. conn' = [conn EXCEPT ![c] = s]
  BY DEF Closed
<1> HIDE DEF s
<1>3. conn'[c] = s /\ \A d \in Conns \ {c} : conn'[d] = conn[d]
  BY <1>2, <1>s, SessionSet
<1>k. Rows' = Rows /\ Committed' = Committed
  BY PagesSame
<1>5. Uses(w, c)
  BY <1>0, <1>1, <1>3, <1>c, <1>s, SMTT(20) DEF Uses
<1>7. SessionHolds(c)'
  <2>1. Held(c)' = Held(c)
    BY <1>3, <1>s DEF Held
  <2>2. Settled(x.seen) => Settled(conn[c].seen)'
    BY <1>3, <1>k, <1>s DEF Settled, Topped
  <2> QED BY <1>3, <1>h, <1>k, <1>s, <2>1, <2>2, SMTT(20) DEF SessionHolds
<1>9. worker'[w].c = None
  BY <1>0, <1>1
<1> QED BY <1>0, <1>2, <1>5, <1>7, <1>9, <1>s, UseStep

-----------------------------------------------------------------------------
(* The steps of a worker. *)

\* Before the account operation the worker has no connection.
LEMMA NoConnection ==
    ASSUME IInv, NEW w \in Workers, worker[w].at \notin Talking
    PROVE  worker[w].c = None
  BY DEF IInv, OwnersHold

LEMMA TokensUnchanged ==
    ASSUME IInv, UNCHANGED <<pages, tokens>>
    PROVE  TokensHold'
  BY PagesSame DEF IInv, TokensHold

\* The request is screened: it is answered at once or goes on.
LEMMA ScreenedIs ==
    ASSUME NEW ask
    PROVE  /\ Screened(ask) \in {0, 200, 400, 401}
           /\ Screened(ask) = 401 => ask.method # "LOGIN"
           /\ Screened(ask) = 0 => ask.method \in {"LOGIN", "REGISTER"}
<1> DEFINE h == handle_guest_and_invalid_method(ask.method)
           p == auth_session_parser(ask)
<1>1. h \in {0, 200, 401} /\ (h = 401 => ask.method # "LOGIN") /\ (h = 0 => ask.method \in {"LOGIN", "REGISTER"})
  <2>1. CASE ask.method = "GUEST"
    BY <2>1, SMT DEF handle_guest_and_invalid_method
  <2>2. CASE ask.method \in {"LOGIN", "REGISTER"}
    BY <2>2, SMT DEF handle_guest_and_invalid_method
  <2>3. CASE ask.method \notin {"GUEST", "LOGIN", "REGISTER"}
    BY <2>3, SMT DEF handle_guest_and_invalid_method
  <2> QED BY <2>1, <2>2, <2>3
<1>2. p = 400 \/ p = h
  BY DEF auth_session_parser
<1>3. Screened(ask) \in {p, 400} /\ (Screened(ask) = 0 => p = 0)
  <2>1. Screened(ask) = p \/ Screened(ask) = 400 \/ (Screened(ask) = 0 /\ p = 0)
    BY DEF Screened
  <2> QED BY <2>1, SMT
<1> HIDE DEF h, p
<1> QED BY <1>1, <1>2, <1>3, SMT

LEMMA FreshIs == Fresh \in WorkerStates /\ Fresh.c = None
<1>1. 0 \in Nat
  BY SMT
<1> QED BY <1>1, SMT DEF Fresh, WorkerStates, Statuses, Names

\* A worker that leaves the gate keeps the turn if it had it.
LEMMA LeaveIs ==
    ASSUME IInv, NEW w \in Workers, NEW at \in {"in", "dropped", "killed"}, NEW name \in Names,
           Leave(w, at, name), sem' = sem
    PROVE  /\ \E u : Leaves(w, u) /\ worker'[w] = u
           /\ TurnHolds' /\ sem' \in {0, 1} /\ AnswerHolds(w)'
<1> DEFINE turn == worker[w].turn
           u == [Fresh EXCEPT !.at = at, !.name = name, !.turn = turn]
<1>1. turn \in BOOLEAN
  BY WorkerFields DEF IInv, AccountsTypeOK
<1>2. worker' = [worker EXCEPT ![w] = u]
  BY DEF Leave, Go
<1>3. u \in WorkerStates /\ u.at = at /\ u.turn = worker[w].turn /\ u.c = None
  <2> DEFINE f == Fresh
  <2>1. f \in WorkerStates /\ f.c = None
    BY FreshIs
  <2>2. u = [f EXCEPT !.at = at, !.name = name, !.turn = turn]
    OBVIOUS
  <2> HIDE DEF f, turn
  <2> QED BY <1>1, <2>1, <2>2 DEF WorkerStates, turn
<1> HIDE DEF u
<1>4. u.at \notin Talking \cup {"gate", "open", "turn", "answer"}
  BY <1>3 DEF Talking
<1>5. Fits(u)
  BY <1>4 DEF Fits
<1>6. TurnHolds' /\ sem' \in {0, 1}
  BY <1>2, <1>3, <1>5, TurnStays
<1>7. worker'[w] = u
  BY <1>2, <1>3, WorkerSet
<1>8. AnswerHolds(w)'
  BY <1>4, <1>7 DEF AnswerHolds
<1>9. Leaves(w, u)
  BY <1>2, <1>3, <1>4 DEF Leaves
<1> QED BY <1>6, <1>7, <1>8, <1>9

LEMMA NoneName == None \in Names /\ "" \in Names
  BY DEF Names

LEMMA GateKeeps ==
    ASSUME IInv, NEW w \in Workers, Hangup(w) \/ Dropped(w)
    PROVE  IInv'
<1>1. worker[w].at = "gate" /\ Leave(w, "dropped", None) /\ UNCHANGED <<sem, conn, pages, opened, tokens>>
  BY DEF Hangup, Dropped, db
<1>2. worker[w].c = None
  BY <1>1, NoConnection DEF Talking
<1>3. (\E u : Leaves(w, u)) /\ TurnHolds' /\ sem' \in {0, 1} /\ AnswerHolds(w)'
  BY <1>1, NoneName, LeaveIs
<1>4. TokensHold'
  BY <1>1, TokensUnchanged
<1> QED BY <1>1, <1>2, <1>3, <1>4, IdleStep

LEMMA KillKeeps ==
    ASSUME IInv, NEW w \in Workers, Kill(w)
    PROVE  IInv'
<1>1. Leave(w, "killed", None) /\ UNCHANGED <<sem, pages, opened, tokens>>
  BY DEF Kill
<1>3. (\E u : Leaves(w, u)) /\ TurnHolds' /\ sem' \in {0, 1} /\ AnswerHolds(w)'
  BY <1>1, NoneName, LeaveIs
<1>4. TokensHold'
  BY <1>1, TokensUnchanged
<1>5. CASE worker[w].c = None
  <2>1. UNCHANGED <<conn, pages, opened>>
    BY <1>1, <1>5 DEF Kill
  <2> QED BY <1>3, <1>4, <1>5, <2>1, IdleStep
<1>6. CASE worker[w].c # None
  <2>1. conn' = Closed(worker[w].c)
    BY <1>6 DEF Kill
  <2>2. worker[w].c \in Conns
    BY <1>6, OwnSession
  <2> QED BY <1>1, <1>3, <1>4, <2>1, <2>2, CloseStep
<1> QED BY <1>5, <1>6

\* The account operation is over: the worker answers and hands on the turn.
LEMMA DoneIs ==
    ASSUME IInv, NEW w \in Workers, NEW status \in Statuses, NEW name \in Names, NEW id \in Int \cup {None},
           Done(w, status, name, id)
    PROVE  /\ \E u : Leaves(w, u)
           /\ TurnHolds' /\ sem' \in {0, 1}
           /\ worker'[w].at = "answer" /\ worker'[w].status = status /\ worker'[w].name = name
           /\ worker'[w].next = id /\ worker'[w].ask = worker[w].ask /\ worker'[w].c = None
<1> DEFINE x == worker[w]
           at == "answer"
           no == FALSE
           zero == 0
           u == [x EXCEPT !.at = at, !.status = status, !.turn = no, !.attempt = zero,
                          !.c = None, !.name = name, !.next = id]
<1>1. worker' = [worker EXCEPT ![w] = u] /\ reg_release(w, status)
  BY DEF Done, Go
<1>2. x \in WorkerStates
  BY DEF IInv, AccountsTypeOK
<1>3. zero \in Nat
  BY SMT
<1>4. /\ u \in WorkerStates /\ u.at = at /\ u.status = status /\ u.turn = no /\ u.c = None
      /\ u.name = name /\ u.next = id /\ u.ask = x.ask
  <2>1. no \in BOOLEAN
    OBVIOUS
  <2>2. at \in Talking \cup {"gate", "turn", "open", "answer", "in", "dropped", "killed"}
    OBVIOUS
  <2> HIDE DEF x, at, no, zero
  <2>3. u \in WorkerStates
    BY <1>2, <1>3, <2>1, <2>2, ZenonT(60) DEF WorkerStates
  <2>4. /\ u.at = at /\ u.status = status /\ u.turn = no /\ u.c = None
        /\ u.name = name /\ u.next = id /\ u.ask = x.ask
    BY <1>2 DEF WorkerStates
  <2> QED BY <2>3, <2>4
<1> HIDE DEF u
<1>5. TurnHolds' /\ sem' \in {0, 1}
  BY <1>1, <1>4, TurnFreed
<1>6. worker'[w] = u
  BY <1>1, <1>4, WorkerSet
<1>7. Leaves(w, u)
  BY <1>1, <1>4 DEF Leaves, Talking
<1> QED BY <1>4, <1>5, <1>6, <1>7

\* An answer is about the same accounts before and after it is decided.
LEMMA SameAccounts ==
    ASSUME NEW w \in Workers, IInv, pages' = pages, worker'[w].ask = worker[w].ask
    PROVE  /\ AccountsOf(w)' = AccountsOf(w) /\ Folded(w)' = Folded(w)
           /\ \A r : Matches(w, r)' <=> Matches(w, r)
<1>1. Committed' = Committed
  BY PagesSame
<1> QED BY <1>1 DEF AccountsOf, Folded, Matches

LEMMA FailedLeaves ==
    ASSUME IInv, NEW w \in Workers, NEW status \in Statuses, Failed(w, status)
    PROVE  /\ \E u : Leaves(w, u)
           /\ TurnHolds' /\ sem' \in {0, 1} /\ worker'[w].c = None
           /\ worker'[w].status = status /\ worker'[w].ask = worker[w].ask
<1>1. Done(w, status, None, None)
  BY DEF Failed
<1> QED BY <1>1, NoneName, DoneIs

LEMMA FailedIs ==
    ASSUME IInv, NEW w \in Workers, NEW status \in Statuses, status # 200, Failed(w, status), pages' = pages,
           status = 409 => AccountsOf(w) # {},
           status = 401 /\ worker[w].ask.method = "LOGIN" => \E r \in AccountsOf(w) : ~Matches(w, r)
    PROVE  /\ \E u : Leaves(w, u)
           /\ TurnHolds' /\ sem' \in {0, 1} /\ AnswerHolds(w)' /\ worker'[w].c = None
<1>2. /\ \E u : Leaves(w, u)
      /\ TurnHolds' /\ sem' \in {0, 1} /\ worker'[w].c = None
      /\ worker'[w].status = status /\ worker'[w].ask = worker[w].ask
  BY FailedLeaves, SMT
<1>3. AccountsOf(w)' = AccountsOf(w) /\ \A r : Matches(w, r)' <=> Matches(w, r)
  BY <1>2, SameAccounts, SMT
<1>4. AnswerHolds(w)'
  <2>1. status = 409 => AccountsOf(w)' # {}
    BY <1>3, SMT
  <2>2. status = 401 /\ worker[w].ask.method = "LOGIN" => \E r \in AccountsOf(w)' : ~Matches(w, r)'
    BY <1>3, SMT
  <2>3. Backed(w)'
    BY <1>2, <2>1, <2>2 DEF Backed
  <2> QED BY <1>2, <2>3 DEF AnswerHolds
<1> QED BY <1>2, <1>4

LEMMA Failed500 ==
    ASSUME IInv, NEW w \in Workers, Failed(w, 500), pages' = pages
    PROVE  /\ \E u : Leaves(w, u)
           /\ TurnHolds' /\ sem' \in {0, 1} /\ AnswerHolds(w)' /\ worker'[w].c = None
<1>1. 500 # 200 /\ 500 # 409 /\ 500 # 401
  BY SMT
<1>2. 500 \in Statuses
  BY SMT DEF Statuses
<1> DEFINE n == 500
<1>3. n \in Statuses /\ n # 200 /\ n # 409 /\ n # 401 /\ Failed(w, n)
  BY <1>1, <1>2, SMT
<1> HIDE DEF n
<1> QED BY <1>3, FailedIs, SMT

\* The name is taken: the worker rolled back because it found a committed row.
LEMMA Failed409 ==
    ASSUME IInv, NEW w \in Workers, Failed(w, 409), pages' = pages, worker[w].at = "rollback"
    PROVE  /\ \E u : Leaves(w, u)
           /\ TurnHolds' /\ sem' \in {0, 1} /\ AnswerHolds(w)' /\ worker'[w].c = None
<1>1. 409 # 200 /\ 409 # 401 /\ 409 \in Statuses
  BY SMT DEF Statuses
<1>2. AccountsOf(w) # {}
  <2>1. worker[w].c # None
    BY DEF IInv, OwnersHold, Talking
  <2>2. \E r \in Committed : r.name = Folded(w)
    BY <2>1 DEF IInv, RegHolds
  <2> QED BY <2>2 DEF AccountsOf, Folded
<1> DEFINE n == 409
<1>3. n \in Statuses /\ n # 200 /\ n # 401 /\ Failed(w, n)
  BY <1>1, SMT
<1> HIDE DEF n
<1> QED BY <1>2, <1>3, FailedIs, SMTT(20)

LEMMA TimeoutKeeps ==
    ASSUME IInv, NEW w \in Workers, Timeout(w)
    PROVE  IInv'
<1>1. worker[w].c # None /\ conn' = Closed(worker[w].c) /\ UNCHANGED <<pages, opened, tokens>>
  BY DEF Timeout
<1>2. worker[w].c \in Conns
  BY <1>1, OwnSession
<1>3. (\E u : Leaves(w, u)) /\ TurnHolds' /\ sem' \in {0, 1} /\ AnswerHolds(w)'
  <2>1. CASE worker[w].at = "rollback"
    <3>1. Failed(w, 409)
      BY <2>1 DEF Timeout
    <3> QED BY <1>1, <2>1, <3>1, Failed409
  <2>2. CASE worker[w].at # "rollback"
    <3>1. Failed(w, 500)
      BY <2>2 DEF Timeout
    <3> QED BY <1>1, <3>1, Failed500, SMT
  <2> QED BY <2>1, <2>2
<1>4. TokensHold'
  BY <1>1, TokensUnchanged
<1> QED BY <1>1, <1>2, <1>3, <1>4, CloseStep

\* A worker without a connection goes on to another place outside the account operation.
LEMMA QuietMove ==
    ASSUME IInv, NEW w \in Workers, NEW u \in WorkerStates, worker' = [worker EXCEPT ![w] = u],
           worker[w].c = None, u.c = None, u.at \notin Talking, u.turn = worker[w].turn, Fits(u),
           UNCHANGED <<sem, conn, pages, opened>>, TokensHold', AnswerHolds(w)'
    PROVE  IInv'
<1>1. Leaves(w, u)
  BY DEF Leaves
<1>2. TurnHolds' /\ sem' \in {0, 1}
  BY TurnStays
<1> QED BY <1>1, <1>2, IdleStep

\* A request is taken in: it is refused, let in as a guest or goes on.
LEMMA HandlerKeeps ==
    ASSUME IInv, NEW w \in Workers, auth_handler(w)
    PROVE  IInv'
<1>1. worker[w].at = "gate" /\ UNCHANGED <<sem, conn, pages, opened, tokens>>
  BY DEF auth_handler, db
<1>2. worker[w].c = None
  BY <1>1, NoConnection DEF Talking
<1>3. TokensHold'
  BY <1>1, TokensUnchanged
<1> DEFINE x == worker[w]
           loads(ask) == x.frozen \/ ask.method \in {"LOGIN", "REGISTER"}
           mine(ask) == [x EXCEPT !.ask = ask, !.frozen = loads(ask)]
           said(ask) == IF Screened(ask) = 200 THEN "" ELSE None
           goes(ask) == IF ask.method = "LOGIN" THEN "open" ELSE "turn"
<1>4. x \in WorkerStates /\ x.c = None
  BY <1>2 DEF IInv, AccountsTypeOK
<1>t. ~x.turn
  BY <1>1 DEF IInv, TurnHolds
<1>5. PICK ask \in Asks :
        \/ /\ Screened(ask) # 0
           /\ worker' = [worker EXCEPT ![w] =
                [mine(ask) EXCEPT !.at = "answer", !.status = Screened(ask), !.name = said(ask)]]
        \/ /\ Screened(ask) = 0
           /\ worker' = [worker EXCEPT ![w] = [mine(ask) EXCEPT !.at = goes(ask), !.attempt = 0]]
  BY DEF auth_handler, Go
<1>s. /\ Screened(ask) \in {0, 200, 400, 401}
      /\ Screened(ask) = 401 => ask.method # "LOGIN"
      /\ Screened(ask) = 0 => ask.method \in {"LOGIN", "REGISTER"}
  BY ScreenedIs, SMT
<1> DEFINE m == mine(ask)
           status == Screened(ask)
           name == said(ask)
<1>m. m \in WorkerStates /\ m.c = None /\ m.ask = ask /\ m.turn = x.turn
  <2> DEFINE l == loads(ask)
  <2>1. l \in BOOLEAN
    <3>1. x.frozen \in BOOLEAN
      BY <1>4, WorkerFields
    <3> QED BY <3>1
  <2> HIDE DEF x, l
  <2> SUFFICES LET n == [x EXCEPT !.ask = ask, !.frozen = l]
               IN  n \in WorkerStates /\ n.c = None /\ n.ask = ask /\ n.turn = x.turn
    BY DEF l
  <2> QED BY <1>4, <2>1 DEF WorkerStates
<1> HIDE DEF m
<1>6. CASE status # 0 /\ worker' = [worker EXCEPT ![w] =
             [m EXCEPT !.at = "answer", !.status = status, !.name = name]]
  <2> DEFINE at == "answer"
             u == [m EXCEPT !.at = at, !.status = status, !.name = name]
  <2>1. status \in Statuses
    BY <1>6, <1>s, SMTT(20) DEF Statuses
  <2>2. name \in Names /\ (status = 200 => name = "")
    BY NoneName
  <2>3. /\ u \in WorkerStates /\ u.at = at /\ u.c = None /\ u.ask = ask /\ u.turn = x.turn
        /\ u.status = status /\ u.name = name
    <3>1. at \in Talking \cup {"gate", "turn", "open", "answer", "in", "dropped", "killed"}
      OBVIOUS
    <3> HIDE DEF at, status, name, x
    <3> QED BY <1>m, <2>1, <2>2, <3>1 DEF WorkerStates
  <2>4. worker' = [worker EXCEPT ![w] = u]
    BY <1>6
  <2> HIDE DEF u
  <2>5. worker'[w] = u
    BY <2>3, <2>4, WorkerSet
  <2>6. AnswerHolds(w)'
    <3>1. worker'[w].status = status /\ worker'[w].name = name /\ worker'[w].ask = ask
      BY <2>3, <2>5
    <3>2. status \in {200, 400, 401} /\ (status = 401 => ask.method # "LOGIN")
      BY <1>6, <1>s, SMT
    <3> HIDE DEF status, name
    <3>3. status # 409
      BY <3>2, SMT
    <3>4. Backed(w)'
      BY <2>2, <3>1, <3>2, <3>3 DEF Backed
    <3> QED BY <2>2, <3>1, <3>4 DEF AnswerHolds
  <2>7. Fits(u) /\ u.at \notin Talking
    BY <1>t, <2>3 DEF Fits, Talking
  <2> QED BY <1>1, <1>2, <1>3, <2>3, <2>4, <2>6, <2>7, QuietMove
<1>7. CASE status = 0 /\ worker' = [worker EXCEPT ![w] = [m EXCEPT !.at = goes(ask), !.attempt = 0]]
  <2> DEFINE at == goes(ask)
             zero == 0
             u == [m EXCEPT !.at = at, !.attempt = zero]
  <2>1. zero \in Nat
    BY SMT
  <2>2. at \in {"open", "turn"} /\ (at = "open" => ask.method = "LOGIN")
    OBVIOUS
  <2>3. u \in WorkerStates /\ u.at = at /\ u.c = None /\ u.ask = ask /\ u.turn = x.turn
    <3>1. at \in Talking \cup {"gate", "turn", "open", "answer", "in", "dropped", "killed"}
      BY <2>2
    <3> HIDE DEF at, zero, x
    <3> QED BY <1>m, <2>1, <3>1 DEF WorkerStates
  <2>4. worker' = [worker EXCEPT ![w] = u]
    BY <1>7
  <2> HIDE DEF u, at
  <2>5. worker'[w] = u
    BY <2>3, <2>4, WorkerSet
  <2>6. u.at \notin Talking /\ u.at # "answer" /\ u.at # "gate"
    BY <2>2, <2>3 DEF Talking
  <2>7. AnswerHolds(w)'
    BY <2>5, <2>6 DEF AnswerHolds
  <2>8. Fits(u)
    BY <1>t, <2>2, <2>3, <2>6 DEF Fits
  <2> QED BY <1>1, <1>2, <1>3, <2>3, <2>4, <2>6, <2>7, <2>8, QuietMove
<1> QED BY <1>5, <1>6, <1>7 DEF m

\* The turn is taken when nobody has it, or the wait for it is given up.
LEMMA AcquireKeeps ==
    ASSUME IInv, NEW w \in Workers, reg_acquire(w)
    PROVE  IInv'
<1>1. worker[w].at = "turn" /\ UNCHANGED <<conn, pages, opened, tokens>>
  BY DEF reg_acquire, db
<1>2. worker[w].c = None
  BY <1>1, NoConnection DEF Talking
<1>3. TokensHold'
  BY <1>1, TokensUnchanged
<1> DEFINE x == worker[w]
<1>4. x \in WorkerStates /\ x.c = None
  BY <1>2 DEF IInv, AccountsTypeOK
<1>t. ~x.turn /\ x.ask \in Asks
  BY <1>1 DEF IInv, TurnHolds
<1>5. CASE sem = 1 /\ sem' = 0 /\ Go(w, [x EXCEPT !.at = "open", !.turn = TRUE])
  <2> DEFINE at == "open"
             yes == TRUE
             u == [x EXCEPT !.at = at, !.turn = yes]
  <2>1. worker' = [worker EXCEPT ![w] = u]
    BY <1>5 DEF Go
  <2>2. u \in WorkerStates /\ u.at = at /\ u.c = None /\ u.turn = yes /\ u.ask = x.ask
    <3>1. at \in Talking \cup {"gate", "turn", "open", "answer", "in", "dropped", "killed"} /\ yes \in BOOLEAN
      OBVIOUS
    <3> HIDE DEF at, yes, x
    <3> QED BY <1>4, <3>1 DEF WorkerStates
  <2> HIDE DEF u
  <2>3. worker'[w] = u /\ \A v \in Workers \ {w} : worker'[v] = worker[v]
    BY <2>1, <2>2, WorkerSet
  <2>4. \A v \in Workers : ~worker[v].turn
    <3>1. 1 # 0
      BY SMT
    <3> QED BY <1>5, <3>1 DEF IInv, TurnHolds, TurnAccounted
  <2>5. TurnAccounted'
    BY <1>5, <2>2, <2>3, <2>4 DEF TurnAccounted
  <2>6. TurnHolds'
    <3>1. Fits(u)
      BY <1>t, <2>2 DEF Fits, Talking
    <3>2. \A v \in Workers : worker'[v] = worker[v] \/ worker'[v] = u
      BY <2>3
    <3> QED BY <2>5, <3>1, <3>2 DEF IInv, TurnHolds, Fits
  <2>7. AnswerHolds(w)'
    BY <2>2, <2>3 DEF AnswerHolds
  <2>8. Leaves(w, u)
    BY <2>1, <2>2 DEF Leaves, Talking
  <2>9. sem' \in {0, 1}
    BY <1>5
  <2> QED BY <1>1, <1>2, <1>3, <2>6, <2>7, <2>8, <2>9, IdleStep
<1>6. CASE Go(w, [x EXCEPT !.at = "answer", !.status = 500]) /\ sem' = sem
  <2> DEFINE at == "answer"
             status == 500
             u == [x EXCEPT !.at = at, !.status = status]
  <2>1. worker' = [worker EXCEPT ![w] = u]
    BY <1>6 DEF Go
  <2>n. status \in Statuses /\ status # 200 /\ status # 401 /\ status # 409
    BY SMT DEF Statuses
  <2> HIDE DEF status
  <2>2. u \in WorkerStates /\ u.at = at /\ u.c = None /\ u.turn = x.turn /\ u.status = status
    <3>1. at \in Talking \cup {"gate", "turn", "open", "answer", "in", "dropped", "killed"}
      OBVIOUS
    <3> HIDE DEF at, x
    <3> QED BY <1>4, <2>n, <3>1 DEF WorkerStates
  <2> HIDE DEF u
  <2>3. worker'[w] = u
    BY <2>1, <2>2, WorkerSet
  <2>4. AnswerHolds(w)'
    <3>1. worker'[w].status = status
      BY <2>2, <2>3
    <3> QED BY <2>n, <3>1 DEF AnswerHolds, Backed
  <2>5. Fits(u) /\ u.at \notin Talking
    BY <1>t, <2>2 DEF Fits, Talking
  <2> QED BY <1>1, <1>2, <1>3, <1>6, <2>1, <2>2, <2>4, <2>5, QuietMove
<1> QED BY <1>5, <1>6 DEF reg_acquire

\* The answer is sent: the worker is let in, with a token for the account, or tries again.
LEMMA RetryKeeps ==
    ASSUME IInv, NEW w \in Workers, auth_retry_handler(w)
    PROVE  IInv'
<1>1. worker[w].at = "answer" /\ UNCHANGED <<sem, conn, pages, opened>>
  BY DEF auth_retry_handler, db
<1>2. worker[w].c = None
  BY <1>1, NoConnection DEF Talking
<1> DEFINE x == worker[w]
<1>4. x \in WorkerStates /\ x.c = None /\ x.tries \in Nat /\ x.name \in Names
  BY <1>2, WorkerFields DEF IInv, AccountsTypeOK
<1>t. ~x.turn /\ AnswerHolds(w)
  BY <1>1 DEF IInv, TurnHolds
<1>5. ASSUME tokens' = tokens, NEW n \in Nat,
             \/ Go(w, [x EXCEPT !.at = "gate", !.tries = n, !.next = None, !.name = None,
                                !.status = None, !.ask = None])
             \/ Go(w, [x EXCEPT !.at = "gate", !.tries = n, !.status = None, !.ask = None])
      PROVE  IInv'
  <2> DEFINE at == "gate"
             none == None
             u1 == [x EXCEPT !.at = at, !.tries = n, !.next = none, !.name = none, !.status = none, !.ask = none]
             u2 == [x EXCEPT !.at = at, !.tries = n, !.status = none, !.ask = none]
  <2>1. /\ at \in Talking \cup {"gate", "turn", "open", "answer", "in", "dropped", "killed"}
        /\ none \in Names /\ none \in Statuses /\ none \in Int \cup {None} /\ none \in Asks \cup {None}
    BY SMT DEF Names, Statuses
  <2>2. u1 \in WorkerStates /\ u1.at = at /\ u1.c = None /\ u1.turn = x.turn
    <3> HIDE DEF at, none, x
    <3>1. u1 \in WorkerStates
      BY <1>4, <2>1, ZenonT(60) DEF WorkerStates
    <3> QED BY <1>4, <3>1 DEF WorkerStates
  <2>3. u2 \in WorkerStates /\ u2.at = at /\ u2.c = None /\ u2.turn = x.turn
    <3> HIDE DEF at, none, x
    <3> QED BY <1>4, <2>1 DEF WorkerStates
  <2>4. worker' = [worker EXCEPT ![w] = u1] \/ worker' = [worker EXCEPT ![w] = u2]
    BY <1>5 DEF Go
  <2> HIDE DEF u1, u2
  <2>5. ASSUME NEW u \in WorkerStates, u.at = at, u.c = None, u.turn = x.turn,
               worker' = [worker EXCEPT ![w] = u]
        PROVE  IInv'
    <3>1. worker'[w] = u
      BY <2>5, WorkerSet
    <3>2. AnswerHolds(w)'
      BY <2>5, <3>1 DEF AnswerHolds
    <3>3. Fits(u) /\ u.at \notin Talking
      BY <1>t, <2>5 DEF Fits, Talking
    <3>4. TokensHold'
      BY <1>1, <1>5, TokensUnchanged
    <3> QED BY <1>1, <1>2, <2>5, <3>2, <3>3, <3>4, QuietMove
  <2> QED BY <2>2, <2>3, <2>4, <2>5
<1>6. ASSUME TokensHold', NEW name \in Names, Leave(w, "in", name) PROVE IInv'
  <2>1. (\E u : Leaves(w, u)) /\ TurnHolds' /\ sem' \in {0, 1} /\ AnswerHolds(w)'
    BY <1>1, <1>6, LeaveIs
  <2> QED BY <1>1, <1>2, <1>6, <2>1, IdleStep
<1>7. CASE x.status = 200 /\ x.name # "" /\ token_handler(w)
  <2>1. CASE tokens' = tokens \cup {claims(w)} /\ Leave(w, "in", x.name)
    <3>1. PICK r \in AccountsOf(w) : r.id = x.next
      BY <1>1, <1>7, <1>t DEF AnswerHolds, Backed
    <3>2. x.name = Folded(w)
      BY <1>1, <1>7, <1>t DEF AnswerHolds
    <3>3. r \in Committed /\ r.name = x.name
      BY <3>1, <3>2 DEF AccountsOf, Folded
    <3>4. Committed' = Committed
      BY <1>1, PagesSame
    <3>5. claims(w).sub = x.next /\ claims(w).name = x.name
      BY DEF claims
    <3>6. TokensHold'
      BY <2>1, <3>1, <3>3, <3>4, <3>5 DEF IInv, TokensHold
    <3> QED BY <1>4, <1>6, <2>1, <3>6
  <2>2. CASE tokens' = tokens /\ Go(w, [x EXCEPT !.at = "gate", !.tries = @ + 1, !.next = None,
                                                 !.name = None, !.status = None, !.ask = None])
    <3>1. x.tries + 1 \in Nat
      BY <1>4, SMT
    <3> QED BY <1>5, <2>2, <3>1
  <2> QED BY <1>7, <2>1, <2>2 DEF token_handler
<1>8. CASE Leave(w, "in", "") /\ tokens' = tokens
  <2>1. TokensHold'
    BY <1>1, <1>8, TokensUnchanged
  <2> QED BY <1>6, <1>8, <2>1, NoneName
<1>9. CASE /\ Go(w, [x EXCEPT !.at = "gate", !.tries = @ + spends(x.status), !.status = None, !.ask = None])
           /\ tokens' = tokens
  <2>1. x.tries + spends(x.status) \in Nat
    BY <1>4, SMT DEF spends
  <2> QED BY <1>5, <1>9, <2>1
<1> QED BY <1>7, <1>8, <1>9 DEF auth_retry_handler

\* A connection is opened: its session is new and has written nothing.
LEMMA OpenedKeeps ==
    ASSUME IInv, NEW w \in Workers, NEW c \in Conns, c = opened + 1, opened' = opened + 1,
           worker[w].at = "open",
           conn' = [conn EXCEPT ![c] = [NoSession EXCEPT !.open = TRUE]],
           Go(w, [worker[w] EXCEPT !.at = IF worker[w].ask.method = "LOGIN" THEN "find" ELSE "begin", !.c = c]),
           UNCHANGED <<sem, pages, tokens>>
    PROVE  IInv'
<1> DEFINE x == worker[w]
           at == IF x.ask.method = "LOGIN" THEN "find" ELSE "begin"
           u == [x EXCEPT !.at = at, !.c = c]
           s == [NoSession EXCEPT !.open = TRUE]
<1>0. opened \in Nat /\ opened' \in Nat /\ opened < c /\ opened <= opened' /\ c <= opened' /\ c \notin 1..opened
  BY AccountsAssumption, SMTT(20) DEF IInv, AccountsTypeOK
<1>o. opened' \in 0..MaxConns
  BY <1>0, AccountsAssumption, SMTT(20) DEF Conns
<1>g. c > opened
  BY <1>0, NoneIs, SMTT(20)
<1>1. worker[w].c = None /\ conn[c] = NoSession /\ c # None
  BY <1>g, NoConnection, NoneIs DEF Talking, IInv, OwnersHold
<1>2. \A v \in Workers : worker[v].c # c
  BY <1>0, <1>1 DEF IInv, OwnersHold
<1>3. x \in WorkerStates
  BY DEF IInv, AccountsTypeOK
<1>4. at \in {"find", "begin"} /\ (at = "begin" <=> x.ask.method # "LOGIN")
  OBVIOUS
<1>5. worker' = [worker EXCEPT ![w] = u]
  BY DEF Go
<1>6. u \in WorkerStates /\ u.at = at /\ u.c = c /\ u.turn = x.turn /\ u.ask = x.ask
  <2>1. at \in Talking \cup {"gate", "turn", "open", "answer", "in", "dropped", "killed"}
    BY <1>4 DEF Talking
  <2> HIDE DEF at, x
  <2> QED BY <1>3, <2>1 DEF WorkerStates
<1> HIDE DEF u, at
<1>7. /\ worker' \in [Workers -> WorkerStates] /\ worker'[w] = u
      /\ \A v \in Workers \ {w} : worker'[v] = worker[v]
  BY <1>5, <1>6, WorkerSet
<1>8. Fits(u) /\ u.at \in Talking
  <2>1. (x.ask.method # "LOGIN" => x.turn) /\ x.ask \in Asks
    BY DEF IInv, TurnHolds
  <2> QED BY <1>4, <1>6, <2>1 DEF Fits, Talking
<1>9. TurnHolds' /\ sem' \in {0, 1}
  BY <1>5, <1>6, <1>8, TurnStays
<1>10. /\ s \in Sessions /\ s.open /\ s.stmt = None /\ s.pos = 1 /\ s.seen = {} /\ s.answer = None
       /\ s.txn = conn[c].txn /\ s.rd = conn[c].rd /\ s.wr = conn[c].wr /\ s.rd = {} /\ s.wr = {} /\ s.txn = FALSE
  <2> DEFINE n == NoSession
             yes == TRUE
  <2>1. /\ n \in Sessions /\ n.stmt = None /\ n.pos = 1 /\ n.seen = {} /\ n.answer = None /\ n.txn = FALSE
        /\ n.rd = {} /\ n.wr = {} /\ conn[c] = n /\ yes \in BOOLEAN /\ yes
    BY <1>1, NoSessionIs
  <2>2. s = [n EXCEPT !.open = yes]
    OBVIOUS
  <2> HIDE DEF n, yes
  <2> QED BY <2>1, <2>2 DEF Sessions
<1> HIDE DEF s
<1>11. conn' \in [Conns -> Sessions] /\ conn'[c] = s /\ \A d \in Conns \ {c} : conn'[d] = conn[d]
  BY <1>10, SessionSet DEF s
<1>k. Rows' = Rows /\ Committed' = Committed
  BY PagesSame
<1>r. \A r \in Rows : r.by # c
  <2>1. ~conn[c].txn
    BY <1>10
  <2> QED BY <1>1, <2>1, RowsAre DEF IInv, LocksHold, AccountsTypeOK
<1>12. AccountsTypeOK'
  BY <1>7, <1>9, <1>11, <1>o DEF IInv, AccountsTypeOK
<1>13. OwnersHold'
  <2>1. Uses(w, c)
    BY <1>1, <1>2, <1>6, <1>7, <1>8, <1>10, <1>11 DEF Uses
  <2> QED BY <1>0, <2>1, OwnersStep
<1>14. LocksHold'
  BY <1>10, <1>11, LocksStay
<1>15. SessionHolds(c)'
  <2>1. Len(pages) \in Nat
    BY PageFields DEF IInv, AccountsTypeOK
  <2>2. conn'[c].pos <= Len(pages) + 1
    <3>1. conn'[c].pos = 1
      BY <1>10, <1>11
    <3> QED BY <2>1, <3>1, SMTT(20)
  <2>3. Settled(conn[c].seen)'
    BY <1>10, <1>11 DEF Settled, Topped
  <2> QED BY <1>10, <1>11, <2>2, <2>3 DEF SessionHolds, Held
<1>16. Live' \subseteq Live
  <2> SUFFICES ASSUME NEW r \in Live' PROVE r \in Live
    OBVIOUS
  <2>1. r \in Rows /\ r \in RowSet /\ r.by # c
    BY <1>k, <1>r, RowsAre DEF Live, IInv, AccountsTypeOK
  <2>2. CASE r.by = None
    BY <2>1, <2>2 DEF Live
  <2>3. CASE r.by # None
    <3>1. conn'[r.by] = conn[r.by]
      BY <1>11, <2>1, <2>3, RowFields
    <3> QED BY <2>1, <2>3, <3>1 DEF Live
  <2> QED BY <2>2, <2>3
<1>17. RegHolds(w)'
  <2>1. worker'[w].c = c /\ worker'[w].at = at /\ Said(w)' = None /\ worker'[w].ask = x.ask
    BY <1>6, <1>7, <1>10, <1>11 DEF Said
  <2>2. ~Fine(w)' /\ ~Inserted(w)'
    BY <2>1 DEF Fine, Inserted
  <2>3. worker'[w].ask.method # "LOGIN" => Registers(w)'
    BY <1>4, <2>1, <2>2 DEF Registers
  <2> QED BY <1>4, <1>k, <1>r, <2>1, <2>2, <2>3 DEF RegHolds, Commits
<1>18. TokensHold' /\ AnswerHolds(w)'
  BY <1>7, <1>8, TokensUnchanged DEF AnswerHolds, Talking
<1> QED BY <1>2, <1>7, <1>9, <1>11, <1>12, <1>13, <1>14, <1>15, <1>16, <1>17, <1>18, WorkerStep

LEMMA OpenKeeps ==
    ASSUME IInv, NEW w \in Workers, conn_open(w)
    PROVE  IInv'
<1>1. worker[w].at = "open" /\ UNCHANGED <<pages, tokens>>
  BY DEF conn_open
<1>2. CASE Failed(w, 500) /\ UNCHANGED <<conn, opened>>
  <2>1. (\E u : Leaves(w, u)) /\ TurnHolds' /\ sem' \in {0, 1} /\ AnswerHolds(w)'
    BY <1>1, <1>2, Failed500, SMTT(20)
  <2>2. worker[w].c = None
    BY <1>1, NoConnection DEF Talking
  <2>3. TokensHold'
    BY <1>1, TokensUnchanged
  <2> QED BY <1>1, <1>2, <2>1, <2>2, <2>3, IdleStep
<1>3. CASE /\ opened < MaxConns /\ opened' = opened + 1
           /\ conn' = [conn EXCEPT ![opened + 1] = [NoSession EXCEPT !.open = TRUE]]
           /\ Go(w, [worker[w] EXCEPT !.at = IF worker[w].ask.method = "LOGIN" THEN "find" ELSE "begin",
                                      !.c = opened + 1])
           /\ UNCHANGED <<sem, faults>>
  <2>1. PICK c \in Conns : c = opened + 1
    <3>1. opened + 1 \in Conns
      BY <1>3, AccountsAssumption, SMTT(20) DEF IInv, AccountsTypeOK, Conns
    <3> QED BY <3>1
  <2> QED BY <1>1, <1>3, <2>1, OpenedKeeps
<1> QED BY <1>2, <1>3 DEF conn_open

\* The row a registration inserts.
LEMMA NewRowIs ==
    ASSUME NEW w \in Workers, NEW ask \in Asks, NEW id \in Int
    PROVE  [id |-> id, name |-> user_name_fold(ask.user), salt |-> gen_new_salt(w),
            digest |-> password_hash(ask.pass, gen_new_salt(w)), by |-> None] \in RowSet
<1>1. user_name_fold(ask.user) \in Names
  BY DEF user_name_fold, user_name_ok, Names
<1>2. gen_new_salt(w) \in Salts
  BY DEF gen_new_salt, Salts
<1>3. password_hash(ask.pass, gen_new_salt(w)) \in Digests
  BY SMT DEF gen_new_salt, Digests
<1> QED BY <1>1, <1>2, <1>3 DEF RowSet

LEMMA StatementIs ==
    ASSUME IInv, NEW w \in Workers, worker[w].c # None
    PROVE  /\ Statement(w) \in Statements /\ Statement(w) # None
           /\ Statement(w).op = IF worker[w].at \in {"maxid", "find"} THEN "select" ELSE worker[w].at
           /\ worker[w].at = "insert" => Statement(w).row \in RowSet
<1> DEFINE op == IF worker[w].at \in {"maxid", "find"} THEN "select" ELSE worker[w].at
           row == IF worker[w].at = "insert"
                  THEN [id |-> worker[w].next, name |-> user_name_fold(worker[w].ask.user),
                        salt |-> gen_new_salt(w),
                        digest |-> password_hash(worker[w].ask.pass, gen_new_salt(w)), by |-> None]
                  ELSE None
<1>1. worker[w].at \in Talking /\ worker[w].ask \in Asks
  BY OwnSession
<1>2. op \in {"begin", "select", "insert", "commit", "rollback"}
  BY <1>1 DEF Talking
<1>3. CASE worker[w].at = "insert"
  <2>1. worker[w].next \in Int
    BY <1>3 DEF IInv, RegHolds, Registers, TurnHolds, Talking
  <2>2. row \in RowSet
    BY <1>1, <1>3, <2>1, NewRowIs
  <2>3. Statement(w) = [op |-> op, row |-> row]
    BY DEF Statement
  <2> HIDE DEF op, row
  <2>4. Statement(w) \in Statements /\ Statement(w).op = op /\ Statement(w).row = row
    BY <1>2, <2>2, <2>3, SMT DEF Statements
  <2> QED BY <2>2, <2>4, AccountsAssumption DEF op
<1>4. CASE worker[w].at # "insert"
  <2>2. row = None
    BY <1>4
  <2>3. Statement(w) = [op |-> op, row |-> row]
    BY DEF Statement
  <2> HIDE DEF op, row
  <2>4. Statement(w) \in Statements /\ Statement(w).op = op
    BY <1>2, <2>2, <2>3, SMT DEF Statements
  <2> QED BY <1>4, <2>4, AccountsAssumption DEF op
<1> QED BY <1>3, <1>4

LEMMA SendKeeps ==
    ASSUME IInv, NEW w \in Workers, Send(w)
    PROVE  IInv'
<1>1. PICK c \in Conns : c = worker[w].c
  <2>1. worker[w].c # None
    BY DEF Send, IInv, OwnersHold, Talking
  <2> QED BY <2>1, OwnSession
<1> DEFINE x == conn[c]
           st == Statement(w)
           s == [x EXCEPT !.stmt = st]
<1>2. /\ x.stmt = None /\ x.answer = None /\ conn' = [conn EXCEPT ![c] = s]
      /\ UNCHANGED <<worker, sem, pages, opened, tokens>>
  BY <1>1 DEF Send
<1>3. x \in Sessions /\ SessionHolds(c) /\ RegHolds(w) /\ c # None /\ x.open /\ worker[w].at \in Talking
  BY <1>1, NoneIs, OwnSession DEF IInv, AccountsTypeOK
<1>4. /\ st \in Statements /\ st # None
      /\ st.op = IF worker[w].at \in {"maxid", "find"} THEN "select" ELSE worker[w].at
      /\ worker[w].at = "insert" => st.row \in RowSet
  BY <1>1, <1>3, StatementIs
<1>5. /\ s \in Sessions /\ s.open = x.open /\ s.stmt = st /\ s.pos = x.pos /\ s.seen = x.seen
      /\ s.answer = x.answer /\ s.txn = x.txn /\ s.rd = x.rd /\ s.wr = x.wr
  <2> HIDE DEF x, st
  <2> QED BY <1>3, <1>4 DEF Sessions
<1> HIDE DEF s
<1>6. conn'[c] = s /\ \A d \in Conns \ {c} : conn'[d] = conn[d]
  BY <1>2, <1>5, SessionSet
<1> DEFINE u == worker[w]
<1>7. u \in WorkerStates /\ worker' = [worker EXCEPT ![w] = u]
  BY <1>2 DEF IInv, AccountsTypeOK
<1>8. Uses(w, c)
  <2>1. \A v \in Workers \ {w} : worker[v].c # c
    BY <1>1, <1>3, OwnSession
  <2>2. Statement(w)' = st
    BY <1>2 DEF Statement
  <2> HIDE DEF st
  <2> QED BY <1>1, <1>2, <1>3, <1>5, <1>6, <2>1, <2>2 DEF Uses
<1>k. Rows' = Rows /\ Committed' = Committed
  BY <1>2, PagesSame
<1>9. SessionHolds(c)'
  <2>1. x.pos = 1 /\ x.seen = {}
    BY <1>2, <1>3 DEF SessionHolds
  <2>2. Held(c)' \subseteq DOMAIN pages' /\ conn'[c].pos <= Len(pages') + 1
    BY <1>2, <1>3, <1>5, <1>6 DEF SessionHolds, Held
  <2>3. Settled(conn[c].seen)'
    BY <1>5, <1>6, <2>1 DEF Settled, Topped
  <2>4. ~Inserted(w) /\ Said(w) = None
    BY <1>1, <1>2 DEF Inserted, Fine, Said
  <2>5. st.op \in {"select", "insert"} => worker[w].at # "commit"
    BY <1>4
  <2>6. st.op \in {"select", "insert"} => \A r \in Rows : r.by # c
    BY <1>1, <1>3, <2>4, <2>5 DEF RegHolds, Commits
  <2>7. st.op = "insert" => x.txn /\ st.row \in RowSet
    <3> SUFFICES ASSUME st.op = "insert" PROVE x.txn /\ st.row \in RowSet
      OBVIOUS
    <3>1. worker[w].at = "insert"
      BY <1>4
    <3>2. worker[w].ask.method # "LOGIN"
      BY <3>1 DEF IInv, TurnHolds, Talking
    <3> QED BY <1>1, <1>3, <1>4, <2>4, <3>1, <3>2 DEF RegHolds, Registers
  <2>8. 1..x.pos - 1 = {}
    BY <2>1, SMT
  <2> HIDE DEF st
  <2> QED BY <1>2, <1>4, <1>5, <1>6, <1>k, <2>1, <2>2, <2>3, <2>6, <2>7, <2>8 DEF SessionHolds
<1>10. Live' \subseteq Live => RegHolds(w)'
  BY <1>1, <1>2, <1>5, <1>6, SameReg
<1>11. TokensHold' /\ AnswerHolds(w)' /\ TurnHolds' /\ sem' \in {0, 1}
  <2>1. TokensHold'
    BY <1>2, TokensUnchanged
  <2>2. AnswerHolds(w)'
    BY <1>2, <1>3 DEF AnswerHolds, Talking
  <2>3. TurnHolds' /\ sem' \in {0, 1}
    BY <1>2 DEF IInv, TurnHolds, TurnAccounted, AccountsTypeOK
  <2> QED BY <2>1, <2>2, <2>3
<1> HIDE DEF u
<1> QED BY <1>1, <1>2, <1>5, <1>7, <1>8, <1>9, <1>10, <1>11, UseStep

\* What a worker knows when it goes on to the next statement.
GoesOn(w, u, c) ==
  /\ u \in WorkerStates /\ u.c = c /\ u.at \in Talking
  /\ u.turn = worker[w].turn /\ u.ask = worker[w].ask /\ Fits(u)
  /\ u.ask.method # "LOGIN" /\ u.at \in {"maxid", "find", "insert", "commit"} => conn[c].txn
  /\ u.ask.method # "LOGIN" /\ u.at \in {"find", "insert"} =>
       u.next \in Int /\ \A r \in Live : r.id < u.next
  /\ u.at = "insert" => \A r \in Live : r.name # Folded(w)
  /\ \A r \in Rows : r.by = c => u.at = "commit" /\ IsOf(w, r)
  /\ u.at = "commit" => u.next = worker[w].next /\ \E r \in Rows : r.by = c
  /\ u.at = "rollback" => \E r \in Committed : r.name = Folded(w)

LEMMA ReadOn ==
    ASSUME IInv, NEW w \in Workers, NEW c \in Conns, worker[w].c = c, conn[c].answer # None,
           NEW u, GoesOn(w, u, c), Go(w, u), sem' = sem,
           conn' = [conn EXCEPT ![c] = [conn[c] EXCEPT !.answer = None]],
           UNCHANGED <<pages, opened, tokens>>
    PROVE  IInv'
<1> DEFINE x == conn[c]
           s == [x EXCEPT !.answer = None]
<1>0. u \in WorkerStates /\ u.c = c /\ u.at \in Talking /\ u.ask = worker[w].ask
  BY DEF GoesOn
<1>1. worker' = [worker EXCEPT ![w] = u]
  BY DEF Go
<1>2. worker'[w] = u /\ \A v \in Workers \ {w} : worker'[v] = worker[v]
  BY <1>0, <1>1, WorkerSet
<1>3. x \in Sessions /\ SessionHolds(c) /\ c # None /\ x.open /\ \A v \in Workers \ {w} : worker[v].c # c
  BY NoneIs, OwnSession DEF IInv, AccountsTypeOK
<1>4. x.stmt = None
  BY <1>3 DEF SessionHolds
<1>5. /\ s \in Sessions /\ s.open = x.open /\ s.stmt = x.stmt /\ s.pos = x.pos /\ s.seen = x.seen
      /\ s.answer = None /\ s.txn = x.txn /\ s.rd = x.rd /\ s.wr = x.wr
  <2> HIDE DEF x
  <2> QED BY <1>3 DEF Sessions
<1> HIDE DEF s
<1>6. conn' = [conn EXCEPT ![c] = s] /\ conn'[c] = s /\ \A d \in Conns \ {c} : conn'[d] = conn[d]
  <2>1. conn' = [conn EXCEPT ![c] = s]
    BY DEF s
  <2> QED BY <1>5, <2>1, SessionSet
<1>7. Uses(w, c)
  BY <1>0, <1>2, <1>3, <1>4, <1>5, <1>6 DEF Uses
<1>k. Rows' = Rows /\ Committed' = Committed
  BY PagesSame
<1>8. SessionHolds(c)'
  <2>1. Held(c)' = Held(c)
    BY <1>5, <1>6 DEF Held
  <2>2. Settled(x.seen) => Settled(conn[c].seen)'
    BY <1>5, <1>6, <1>k DEF Settled, Topped
  <2> QED BY <1>3, <1>4, <1>5, <1>6, <1>k, <2>1, <2>2 DEF SessionHolds
<1>9. TurnHolds' /\ sem' \in {0, 1}
  BY <1>1, TurnStays DEF GoesOn
<1>10. ASSUME Live' \subseteq Live PROVE RegHolds(w)'
  <2>1. Said(w)' = None /\ ~Fine(w)' /\ ~Inserted(w)' /\ Folded(w)' = Folded(w)
    BY <1>0, <1>2, <1>5, <1>6 DEF Said, Fine, Inserted, Folded
  <2>2. u.at = "commit" => \A r : IsOf(w, r) => IsOf(w, r)'
    BY <1>0, <1>2, <2>1 DEF IsOf, Matches, GoesOn
  <2>3. worker'[w].ask.method # "LOGIN" => Registers(w)'
    <3> SUFFICES ASSUME u.ask.method # "LOGIN" PROVE Registers(w)'
      BY <1>2
    <3>1. u.at \in {"maxid", "find", "insert", "commit"} => conn'[c].txn
      BY <1>5, <1>6 DEF GoesOn
    <3>2. u.at \in {"find", "insert"} => u.next \in Int /\ \A r \in Live' : r.id < u.next
      BY <1>10 DEF GoesOn
    <3>3. u.at = "insert" => \A r \in Live' : r.name # Folded(w)'
      BY <1>10, <2>1 DEF GoesOn
    <3> QED BY <1>0, <1>2, <2>1, <3>1, <3>2, <3>3 DEF Registers
  <2>4. \A r \in Rows : r.by = c => IsOf(w, r)' /\ u.at = "commit"
    BY <2>2 DEF GoesOn
  <2>5. u.at = "commit" => \E r \in Rows : r.by = c
    BY DEF GoesOn
  <2>6. u.at = "rollback" => \E r \in Committed : r.name = Folded(w)
    BY DEF GoesOn
  <2> QED BY <1>0, <1>2, <1>k, <2>1, <2>3, <2>4, <2>5, <2>6 DEF RegHolds, Commits
<1>11. TokensHold' /\ AnswerHolds(w)'
  BY <1>0, <1>2, TokensUnchanged DEF AnswerHolds, Talking
<1> QED BY <1>0, <1>1, <1>5, <1>6, <1>7, <1>8, <1>9, <1>10, <1>11, UseStep

\* The next id is larger than every id that was read.
LEMMA NextIdIs ==
    ASSUME NEW rows \in SUBSET RowSet, Topped(rows)
    PROVE  db_next_id(rows) \in Int /\ \A r \in rows : r.id < db_next_id(rows)
<1>1. CASE rows = {}
  BY <1>1, SMTT(20) DEF db_next_id
<1>2. CASE rows # {}
  <2> DEFINE S == {r.id : r \in rows}
             m == Max(S)
  <2>1. PICK top \in rows : \A r \in rows : top.id >= r.id
    BY <1>2 DEF Topped
  <2>2. top.id \in S /\ \A n \in S : top.id >= n
    BY <2>1
  <2>3. m \in S /\ \A n \in S : m >= n
    <3>1. \E t \in S : \A n \in S : t >= n
      BY <2>2
    <3> QED BY <3>1 DEF Max
  <2>4. \A r \in rows : r.id \in Int /\ r.id \in S
    BY RowFields
  <2>5. m \in Int
    BY <2>3, <2>4
  <2>6. db_next_id(rows) = m + 1
    BY <1>2 DEF db_next_id
  <2> HIDE DEF m, S
  <2>7. \A r \in rows : r.id \in Int /\ m >= r.id
    BY <2>3, <2>4
  <2>8. m + 1 \in Int /\ \A n \in Int : m >= n => n < m + 1
    BY <2>5, SMT
  <2> QED BY <2>6, <2>7, <2>8
<1> QED BY <1>1, <1>2

\* What a worker has in hand when it reads an answer.
LEMMA ReadIs ==
    ASSUME IInv, NEW w \in Workers, NEW c \in Conns, worker[w].c = c, conn[c].answer # None
    PROVE  /\ worker[w] \in WorkerStates /\ worker[w].at \in Talking /\ worker[w].ask \in Asks
           /\ conn[c].answer \in Answers /\ Settled(conn[c].answer.rows) /\ RegHolds(w)
           /\ Said(w) = conn[c].answer
           /\ Fits(worker[w])
<1>1. c # None /\ conn[c] \in Sessions
  BY NoneIs DEF IInv, AccountsTypeOK
<1>2. worker[w] \in WorkerStates /\ worker[w].at \in Talking /\ worker[w].ask \in Asks
  BY <1>1, OwnSession DEF IInv, AccountsTypeOK
<1>3. conn[c].answer \in Answers
  BY <1>1, SessionFields
<1>4. Settled(conn[c].answer.rows) /\ RegHolds(w)
  BY <1>1 DEF IInv, SessionHolds
<1>5. Fits(worker[w])
  BY DEF Fits, IInv, TurnHolds
<1> QED BY <1>2, <1>3, <1>4, <1>5 DEF Said

\* A LOGIN is tried once more; a registration starts again.
LEMMA AgainGoesOn ==
    ASSUME IInv, NEW w \in Workers, NEW c \in Conns, worker[w].c = c, conn[c].answer # None,
           conn[c].answer.st # "ok", NEW u \in WorkerStates, u.c = c,
           u.turn = worker[w].turn, u.ask = worker[w].ask,
           (worker[w].ask.method = "LOGIN" /\ u.at = "find") \/ (worker[w].ask.method # "LOGIN" /\ u.at = "begin")
    PROVE  GoesOn(w, u, c)
<1>1. /\ RegHolds(w) /\ ~Fine(w) /\ Said(w) # None /\ Fits(worker[w]) /\ worker[w].at \in Talking
      /\ worker[w].ask \in Asks
  BY ReadIs DEF Fine
<1>2. \A r \in Rows : r.by # c
  BY <1>1 DEF RegHolds, Inserted, Commits
<1>3. Fits(u)
  BY <1>1 DEF Fits, Talking
<1> QED BY <1>2, <1>3 DEF GoesOn, Talking

\* A registration goes on to its next statement.
LEMMA FollowingGoesOn ==
    ASSUME IInv, NEW w \in Workers, NEW c \in Conns, worker[w].c = c, conn[c].answer # None,
           conn[c].answer.st = "ok", worker[w].ask.method # "LOGIN",
           worker[w].at # "rollback", worker[w].at # "commit"
    PROVE  GoesOn(w, Following(w, conn[c].answer.rows), c)
<1> DEFINE x == worker[w]
           rows == conn[c].answer.rows
<1>1. /\ x \in WorkerStates /\ x.at \in Talking /\ x.ask \in Asks /\ RegHolds(w) /\ Registers(w)
      /\ Said(w) = conn[c].answer /\ Fine(w) /\ Fits(x) /\ x.turn /\ x.c = c
  <2>1. /\ x \in WorkerStates /\ x.at \in Talking /\ x.ask \in Asks /\ RegHolds(w)
        /\ Said(w) = conn[c].answer /\ Fits(x)
    BY ReadIs
  <2>2. x.turn
    BY <2>1 DEF Fits
  <2>3. Fine(w) /\ Registers(w)
    BY <2>1 DEF Fine, RegHolds
  <2> QED BY <2>1, <2>2, <2>3
<1>2. rows \subseteq RowSet /\ rows \subseteq Committed /\ Topped(rows)
  BY ReadIs, AnswerFields DEF Settled
<1>3. x.at = "begin" \/ x.at = "maxid" \/ x.at = "find" \/ x.at = "insert"
  BY <1>1 DEF Talking
<1>4. conn[c].txn
  BY <1>1, <1>3 DEF Registers
<1>5. x.at # "insert" => \A r \in Rows : r.by # c
  BY <1>1, <1>3 DEF RegHolds, Inserted, Commits
<1> HIDE DEF rows, x
<1>6. CASE x.at = "begin"
  <2> DEFINE at == "maxid"
             u == [x EXCEPT !.at = at]
  <2>1. Following(w, rows) = u
    BY <1>6 DEF Following, x
  <2>2. u \in WorkerStates /\ u.at = at /\ u.c = c /\ u.turn = x.turn /\ u.ask = x.ask
    <3>1. at \in Talking \cup {"gate", "turn", "open", "answer", "in", "dropped", "killed"}
      BY DEF Talking
    <3> HIDE DEF at
    <3> QED BY <1>1, <3>1 DEF WorkerStates
  <2> HIDE DEF u
  <2>3. Fits(u)
    BY <1>1, <2>2 DEF Fits, Talking, x
  <2>4. GoesOn(w, u, c)
    BY <1>1, <1>4, <1>5, <1>6, <2>2, <2>3, SMTT(20) DEF GoesOn, Talking, x
  <2> QED BY <2>1, <2>4 DEF rows
<1>7. CASE x.at = "maxid"
  <2> DEFINE at == "find"
             n == db_next_id(rows)
             u == [x EXCEPT !.at = at, !.next = n]
  <2>1. Following(w, rows) = u
    BY <1>7 DEF Following, x
  <2>n. n \in Int /\ \A r \in rows : r.id < n
    BY <1>2, NextIdIs
  <2> HIDE DEF n
  <2>2. u \in WorkerStates /\ u.at = at /\ u.c = c /\ u.turn = x.turn /\ u.ask = x.ask /\ u.next = n
    <3>1. at \in Talking \cup {"gate", "turn", "open", "answer", "in", "dropped", "killed"}
      BY DEF Talking
    <3> HIDE DEF at
    <3> QED BY <1>1, <2>n, <3>1 DEF WorkerStates
  <2> HIDE DEF u
  <2>3. Fits(u)
    BY <1>1, <2>2 DEF Fits, Talking, x
  <2>4. Live \subseteq rows
    BY <1>1, <1>7 DEF Registers, rows, x
  <2>5. GoesOn(w, u, c)
    BY <1>1, <1>4, <1>5, <1>7, <2>2, <2>3, <2>4, <2>n DEF GoesOn, Talking, x
  <2> QED BY <2>1, <2>5 DEF rows
<1>8. CASE x.at = "find"
  <2> DEFINE at == IF taken(w, rows) THEN "rollback" ELSE "insert"
             u == [x EXCEPT !.at = at]
  <2>1. Following(w, rows) = u
    BY <1>8 DEF Following, x
  <2>a. (at = "rollback" /\ taken(w, rows)) \/ (at = "insert" /\ ~taken(w, rows))
    OBVIOUS
  <2> HIDE DEF at
  <2>2. u \in WorkerStates /\ u.at = at /\ u.c = c /\ u.turn = x.turn /\ u.ask = x.ask /\ u.next = x.next
    <3>1. at \in Talking \cup {"gate", "turn", "open", "answer", "in", "dropped", "killed"}
      BY <2>a DEF Talking
    <3> QED BY <1>1, <3>1 DEF WorkerStates
  <2> HIDE DEF u
  <2>3. Fits(u)
    BY <1>1, <2>2, <2>a DEF Fits, Talking, x
  <2>4. Live \subseteq rows /\ x.next \in Int /\ \A r \in Live : r.id < x.next
    BY <1>1, <1>8 DEF Registers, rows, x, Inserted
  <2>5. ~taken(w, rows) => \A r \in Live : r.name # Folded(w)
    BY <2>4 DEF taken, Named, Folded
  <2>6. taken(w, rows) => \E r \in Committed : r.name = Folded(w)
    BY <1>2 DEF taken, Named, Folded
  <2>7. GoesOn(w, u, c)
    BY <1>1, <1>4, <1>5, <1>8, <2>2, <2>3, <2>4, <2>5, <2>6, <2>a DEF GoesOn, Talking, x
  <2> QED BY <2>1, <2>7 DEF rows
<1>9. CASE x.at = "insert"
  <2> DEFINE at == "commit"
             u == [x EXCEPT !.at = at]
  <2>1. Following(w, rows) = u
    BY <1>9 DEF Following, x
  <2>2. u \in WorkerStates /\ u.at = at /\ u.c = c /\ u.turn = x.turn /\ u.ask = x.ask /\ u.next = x.next
    <3>1. at \in Talking \cup {"gate", "turn", "open", "answer", "in", "dropped", "killed"}
      BY DEF Talking
    <3> HIDE DEF at
    <3> QED BY <1>1, <3>1 DEF WorkerStates
  <2> HIDE DEF u
  <2>3. Fits(u)
    BY <1>1, <2>2 DEF Fits, Talking, x
  <2>4. (\E r \in Rows : r.by = c) /\ \A r \in Rows : r.by = c => IsOf(w, r)
    BY <1>1, <1>9 DEF RegHolds, Inserted, x
  <2>5. GoesOn(w, u, c)
    BY <1>1, <1>4, <2>2, <2>3, <2>4 DEF GoesOn, Talking, x
  <2> QED BY <2>1, <2>5 DEF rows
<1> QED BY <1>3, <1>6, <1>7, <1>8, <1>9

\* The client is told of an account that is there.
LEMMA SuccessIs ==
    ASSUME IInv, NEW w \in Workers, NEW r \in AccountsOf(w), Matches(w, r),
           Done(w, 200, user_name_fold(worker[w].ask.user), r.id), pages' = pages
    PROVE  /\ \E u : Leaves(w, u)
           /\ TurnHolds' /\ sem' \in {0, 1} /\ AnswerHolds(w)' /\ worker'[w].c = None
<1> DEFINE n == 200
           name == user_name_fold(worker[w].ask.user)
           id == r.id
<1>1. n \in Statuses /\ n # 401 /\ n # 409
  BY SMT DEF Statuses
<1>2. name \in Names
  BY DEF user_name_fold, user_name_ok, Names
<1>3. id \in Int \cup {None}
  <2>1. r \in RowSet
    BY RowsAre DEF AccountsOf, IInv, AccountsTypeOK
  <2> QED BY <2>1, RowFields
<1>4. Done(w, n, name, id) /\ name = Folded(w)
  BY DEF Folded
<1>s. n = 200
  OBVIOUS
<1> HIDE DEF n, name, id
<1>5. /\ \E u : Leaves(w, u)
      /\ TurnHolds' /\ sem' \in {0, 1} /\ worker'[w].c = None
      /\ worker'[w].status = n /\ worker'[w].name = name /\ worker'[w].next = id
      /\ worker'[w].ask = worker[w].ask
  BY <1>1, <1>2, <1>3, <1>4, DoneIs, SMTT(20)
<1>6. /\ AccountsOf(w)' = AccountsOf(w) /\ Folded(w)' = Folded(w)
      /\ \A q : Matches(w, q)' <=> Matches(w, q)
  BY <1>5, SameAccounts
<1>7. \E q \in AccountsOf(w)' : q.id = worker'[w].next /\ Matches(w, q)'
  BY <1>5, <1>6 DEF id
<1>8. Backed(w)'
  BY <1>1, <1>5, <1>7 DEF Backed
<1>9. AnswerHolds(w)'
  BY <1>4, <1>5, <1>6, <1>8 DEF AnswerHolds
<1> QED BY <1>5, <1>9

\* An answer to a LOGIN is read: what it says of the account is so.
LEMMA LoginEnds ==
    ASSUME IInv, NEW w \in Workers, NEW c \in Conns, worker[w].c = c, conn[c].answer # None,
           conn[c].answer.st = "ok", LoginAnswer(w, conn[c].answer), pages' = pages
    PROVE  /\ \E u : Leaves(w, u)
           /\ TurnHolds' /\ sem' \in {0, 1} /\ AnswerHolds(w)' /\ worker'[w].c = None
<1> DEFINE rows == conn[c].answer.rows
           row == CHOOSE r \in Named(w, rows) : TRUE
           status == parse_login_db_result(w, rows)
<1>1. rows \subseteq Committed
  BY ReadIs DEF Settled
<1>2. Named(w, rows) \subseteq AccountsOf(w)
  BY <1>1 DEF Named, AccountsOf
<1>3. \/ status # 200 /\ Failed(w, status)
      \/ status = 200 /\ Done(w, 200, user_name_fold(worker[w].ask.user), row.id)
  BY SMT DEF LoginAnswer
<1>n. 404 # 200 /\ 401 # 200 /\ 404 # 401 /\ 404 # 409 /\ 401 # 409 /\ 404 \in Statuses /\ 401 \in Statuses
  BY SMT DEF Statuses
<1>4. \/ status = 404 /\ Named(w, rows) = {}
      \/ /\ row \in Named(w, rows)
         /\ (status = 200 /\ Matches(w, row)) \/ (status = 401 /\ ~Matches(w, row))
  <2>1. CASE Named(w, rows) = {}
    BY <2>1, SMTT(20) DEF parse_login_db_result
  <2>2. CASE Named(w, rows) # {}
    <3>1. row \in Named(w, rows)
      BY <2>2
    <3>2. status = IF password_hash(worker[w].ask.pass, row.salt) = row.digest THEN 200 ELSE 401
      BY <2>2 DEF parse_login_db_result
    <3> HIDE DEF row, status
    <3> QED BY <3>1, <3>2, SMTT(20) DEF Matches
  <2> QED BY <2>1, <2>2
<1> HIDE DEF row, status, rows
<1>5. CASE status = 404
  <2>1. status # 200 /\ status # 409 /\ status # 401 /\ status \in Statuses
    BY <1>5, <1>n, SMTT(20)
  <2>2. Failed(w, status)
    BY <1>3, <2>1
  <2> QED BY <2>1, <2>2, FailedIs, SMTT(20)
<1>6. CASE status = 401 /\ row \in Named(w, rows) /\ ~Matches(w, row)
  <2>1. status # 200 /\ status # 409 /\ status \in Statuses
    BY <1>6, <1>n, SMTT(20)
  <2>2. Failed(w, status)
    BY <1>3, <2>1
  <2>3. \E r \in AccountsOf(w) : ~Matches(w, r)
    BY <1>2, <1>6
  <2> QED BY <2>1, <2>2, <2>3, FailedIs, SMTT(20)
<1>7. CASE status = 200 /\ row \in Named(w, rows) /\ Matches(w, row)
  <2>1. Done(w, 200, user_name_fold(worker[w].ask.user), row.id)
    BY <1>3, <1>7
  <2>2. row \in AccountsOf(w)
    BY <1>2, <1>7
  <2> QED BY <1>7, <2>1, <2>2, SuccessIs
<1> QED BY <1>4, <1>5, <1>6, <1>7, SMTT(20)

\* The answer to a commit is read: the account is there.
LEMMA CommitEnds ==
    ASSUME IInv, NEW w \in Workers, NEW c \in Conns, worker[w].c = c, conn[c].answer # None,
           conn[c].answer.st = "ok", worker[w].at = "commit",
           Done(w, 200, user_name_fold(worker[w].ask.user), worker[w].next), pages' = pages
    PROVE  /\ \E u : Leaves(w, u)
           /\ TurnHolds' /\ sem' \in {0, 1} /\ AnswerHolds(w)' /\ worker'[w].c = None
<1>1. RegHolds(w) /\ Fine(w)
  BY ReadIs DEF Fine
<1>2. PICK r \in Committed : IsOf(w, r)
  BY <1>1 DEF RegHolds
<1>3. r \in AccountsOf(w) /\ Matches(w, r) /\ r.id = worker[w].next
  BY <1>2 DEF IsOf, AccountsOf, Folded
<1> QED BY <1>3, SuccessIs

LEMMA AnsweredKeeps ==
    ASSUME IInv, NEW w \in Workers, Answered(w)
    PROVE  IInv'
<1>1. PICK c \in Conns : worker[w].c = c
  BY OwnSession DEF Answered
<1> DEFINE x == worker[w]
           a == conn[c].answer
<1>2. /\ a # None /\ UNCHANGED <<pages, opened, tokens>>
      /\ IF x.ask.method = "LOGIN" THEN LoginAnswer(w, a) ELSE RegisterAnswer(w, a)
      /\ conn' = IF worker'[w].c = None THEN Closed(c)
                 ELSE [conn EXCEPT ![c] = [conn[c] EXCEPT !.answer = None]]
  BY <1>1 DEF Answered
<1>3. x \in WorkerStates /\ x.at \in Talking /\ x.c = c /\ c # None /\ a \in Answers
  BY <1>1, <1>2, ReadIs, NoneIs
<1>t. TokensHold'
  BY <1>2, TokensUnchanged
<1>4. ASSUME (\E u : Leaves(w, u)) /\ TurnHolds' /\ sem' \in {0, 1} /\ AnswerHolds(w)' /\ worker'[w].c = None
      PROVE  IInv'
  <2>1. conn' = Closed(c)
    BY <1>2, <1>4
  <2> QED BY <1>1, <1>2, <1>4, <1>t, <2>1, CloseStep
<1>5. ASSUME NEW u, GoesOn(w, u, c), Go(w, u), sem' = sem PROVE IInv'
  <2>1. u \in WorkerStates /\ u.c = c
    BY <1>5 DEF GoesOn
  <2>2. worker'[w] = u
    BY <1>5, <2>1, WorkerSet DEF Go
  <2>3. conn' = [conn EXCEPT ![c] = [conn[c] EXCEPT !.answer = None]]
    BY <1>2, <1>3, <2>1, <2>2
  <2> QED BY <1>1, <1>2, <1>5, <2>3, ReadOn
<1>6. CASE Failed(w, 500)
  BY <1>2, <1>4, <1>6, Failed500
<1>7. CASE x.ask.method = "LOGIN"
  <2>1. LoginAnswer(w, a)
    BY <1>2, <1>7
  <2>2. CASE a.st = "ok"
    BY <1>1, <1>2, <1>4, <2>1, <2>2, LoginEnds
  <2>3. CASE a.st = "retry" /\ Go(w, [x EXCEPT !.attempt = 1]) /\ sem' = sem
    <3> DEFINE one == 1
               u == [x EXCEPT !.attempt = one]
    <3>1. one \in Nat
      BY SMT
    <3>2. u \in WorkerStates /\ u.c = c /\ u.turn = x.turn /\ u.ask = x.ask /\ u.at = x.at
      <4> HIDE DEF x, one
      <4> QED BY <1>3, <3>1 DEF WorkerStates
    <3>3. x.at = "find"
      BY <1>3, <1>7 DEF IInv, TurnHolds
    <3>4. Go(w, u)
      BY <2>3
    <3> HIDE DEF u
    <3>5. GoesOn(w, u, c)
      BY <1>1, <1>2, <1>7, <2>3, <3>2, <3>3, AgainGoesOn
    <3> QED BY <1>5, <2>3, <3>4, <3>5
  <2> QED BY <1>6, <2>1, <2>2, <2>3 DEF LoginAnswer
<1>8. CASE x.ask.method # "LOGIN"
  <2>1. RegisterAnswer(w, a)
    BY <1>2, <1>8
  <2>2. CASE x.at = "rollback"
    <3>1. Failed(w, 409)
      BY <2>1, <2>2 DEF RegisterAnswer
    <3> QED BY <1>2, <1>4, <2>2, <3>1, Failed409
  <2>3. CASE /\ a.st = "retry" /\ sem' = sem
             /\ Go(w, [x EXCEPT !.at = "begin", !.attempt = @ + 1, !.next = None])
    <3> DEFINE at == "begin"
               n == x.attempt + 1
               u == [x EXCEPT !.at = at, !.attempt = n, !.next = None]
    <3>1. n \in Nat
      <4>1. x.attempt \in Nat
        BY <1>3, WorkerFields
      <4> QED BY <4>1, SMTT(20)
    <3>2. u \in WorkerStates /\ u.c = c /\ u.turn = x.turn /\ u.ask = x.ask /\ u.at = at
      <4>1. at \in Talking \cup {"gate", "turn", "open", "answer", "in", "dropped", "killed"}
        BY DEF Talking
      <4> HIDE DEF x, n, at
      <4> QED BY <1>3, <3>1, <4>1 DEF WorkerStates
    <3>4. Go(w, u)
      BY <2>3
    <3> HIDE DEF u
    <3>5. GoesOn(w, u, c)
      BY <1>1, <1>2, <1>8, <2>3, <3>2, AgainGoesOn
    <3> QED BY <1>5, <2>3, <3>4, <3>5
  <2>4. CASE /\ x.at = "commit" /\ a.st = "ok"
             /\ Done(w, 200, user_name_fold(x.ask.user), x.next)
    BY <1>1, <1>2, <1>4, <2>4, CommitEnds
  <2>5. CASE /\ x.at # "rollback" /\ x.at # "commit" /\ a.st = "ok"
             /\ Go(w, Following(w, a.rows)) /\ sem' = sem
    <3>1. GoesOn(w, Following(w, a.rows), c)
      BY <1>1, <1>2, <1>8, <2>5, FollowingGoesOn
    <3> QED BY <1>5, <2>5, <3>1
  <2> QED BY <1>6, <2>1, <2>2, <2>3, <2>4, <2>5, SMTT(20) DEF RegisterAnswer
<1> QED BY <1>7, <1>8

-----------------------------------------------------------------------------
(* The invariant is inductive. *)

LEMMA InitHolds == Init => IInv
<1> SUFFICES ASSUME Init PROVE IInv
  OBVIOUS
<1>1. /\ worker = [w \in Workers |-> Fresh] /\ sem = 1 /\ conn = [c \in Conns |-> NoSession]
      /\ opened = 0 /\ tokens = {}
      /\ pages = << {} >> \/ pages = << {Earlier} >>
  BY DEF Init
<1>2. /\ \A w \in Workers : worker[w] = Fresh
      /\ \A c \in Conns : conn[c] = NoSession
  BY <1>1
<1>3. Fresh.c = None /\ Fresh.at = "gate" /\ Fresh.turn = FALSE
  BY DEF Fresh
<1>p. pages \in Seq(SUBSET RowSet) /\ Len(pages) = 1 /\ DOMAIN pages = {1} /\ pages[1] \subseteq {Earlier}
  <2>1. CASE pages = << {} >>
    BY <2>1, SMTT(20)
  <2>2. CASE pages = << {Earlier} >>
    BY <2>2, AccountsAssumption, SMTT(20)
  <2> QED BY <1>1, <2>1, <2>2
<1>r. Rows \subseteq {Earlier} /\ Earlier.by = None
  BY <1>p, AccountsAssumption DEF Rows
<1>4. AccountsTypeOK
  <2>1. opened \in 0..MaxConns /\ sem \in {0, 1}
    BY <1>1, AccountsAssumption, SMTT(20)
  <2> QED BY <1>1, <1>p, <2>1, FreshIs, NoSessionIs DEF AccountsTypeOK
<1>5. TurnHolds
  <2>1. TurnAccounted
    BY <1>1, <1>2, <1>3 DEF TurnAccounted
  <2> QED BY <1>2, <1>3, <2>1 DEF TurnHolds, Talking
<1>6. OwnersHold
  BY <1>2, <1>3, NoSessionIs DEF OwnersHold, Talking
<1>7. LocksHold
  <2>1. \A c \in Conns : conn[c].wr = {}
    BY <1>2, NoSessionIs
  <2> QED BY <1>p, <1>r, <2>1 DEF LocksHold
<1>8. RowsHold
  <2>1. \A r, s \in Rows : r.by # None /\ s.by = r.by => r = s
    BY <1>r
  <2>2. \A p \in DOMAIN pages : Topped({r \in pages[p] : r.by = None})
    <3> SUFFICES ASSUME NEW p \in DOMAIN pages PROVE Topped({r \in pages[p] : r.by = None})
      OBVIOUS
    <3> DEFINE S == {r \in pages[p] : r.by = None}
    <3>1. S \subseteq {Earlier}
      BY <1>p
    <3>2. Earlier.id >= Earlier.id
      <4>1. Earlier.id \in Int
        BY AccountsAssumption, RowFields
      <4> QED BY <4>1, SMTT(20)
    <3> HIDE DEF S
    <3>3. Topped(S)
      BY <3>1, <3>2 DEF Topped
    <3> QED BY <3>3 DEF S
  <2> QED BY <2>1, <2>2 DEF RowsHold
<1>9. LiveUnique /\ TokensHold
  <2>1. LiveUnique
    BY <1>r DEF LiveUnique, Live
  <2> QED BY <1>1, <2>1 DEF TokensHold
<1>10. ASSUME NEW c \in Conns PROVE SessionHolds(c)
  <2>1. /\ conn[c].stmt = None /\ conn[c].pos = 1 /\ conn[c].seen = {} /\ conn[c].answer = None
        /\ Held(c) = {}
    BY <1>2, NoSessionIs DEF Held
  <2>2. conn[c].pos <= Len(pages) + 1
    BY <1>p, <2>1, SMTT(20)
  <2> QED BY <2>1, <2>2, RowsEmpty DEF SessionHolds
<1>11. \A w \in Workers : AnswerHolds(w) /\ worker[w].c = None
  BY <1>2, <1>3 DEF AnswerHolds
<1> QED BY <1>4, <1>5, <1>6, <1>7, <1>8, <1>9, <1>10, <1>11 DEF IInv

LEMMA StepHolds == IInv /\ [Next]_vars => IInv'
<1> SUFFICES ASSUME IInv, [Next]_vars PROVE IInv'
  OBVIOUS
<1>1. ASSUME NEW w \in Workers,
             auth_handler(w) \/ Hangup(w) \/ reg_acquire(w) \/ conn_open(w) \/ Send(w) \/ Timeout(w)
             \/ Answered(w) \/ auth_retry_handler(w) \/ Dropped(w) \/ Kill(w)
      PROVE  IInv'
  BY <1>1, HandlerKeeps, GateKeeps, AcquireKeeps, OpenKeeps, SendKeeps, TimeoutKeeps, AnsweredKeeps,
     RetryKeeps, KillKeeps
<1>2. ASSUME NEW c \in Conns, Serve(c) \/ Refused(c) PROVE IInv'
  BY <1>2, ServeKeeps, RefusedKeeps
<1>3. CASE UNCHANGED vars
  <2>1. UNCHANGED <<worker, sem, conn, pages, opened, tokens>>
    BY <1>3 DEF vars
  <2>k. Rows' = Rows /\ Committed' = Committed
    BY <2>1, PagesSame
  <2>l. Live' = Live
    BY <2>1, <2>k DEF Live
  <2>2. AccountsTypeOK' /\ TurnHolds' /\ TokensHold'
    BY <2>1, TokensUnchanged DEF IInv, AccountsTypeOK, TurnHolds, TurnAccounted
  <2>3. OwnersHold'
    BY <2>1 DEF IInv, OwnersHold, Statement
  <2>4. LocksHold' /\ RowsHold' /\ LiveUnique'
    BY <2>1, <2>k, <2>l DEF IInv, LocksHold, Held, RowsHold, LiveUnique, Topped
  <2>5. ASSUME NEW c \in Conns PROVE SessionHolds(c)'
    BY <2>1, <2>k DEF IInv, SessionHolds, Held, Settled, Topped
  <2>6. ASSUME NEW w \in Workers PROVE AnswerHolds(w)'
    BY <2>1, <2>k, AnswerStays DEF IInv
  <2>7. ASSUME NEW w \in Workers, worker[w].c # None PROVE RegHolds(w)'
    <3>1. worker[w].c \in Conns
      BY <2>7, OwnSession
    <3> QED BY <2>1, <2>l, <3>1, SameReg
  <2> QED BY <2>1, <2>2, <2>3, <2>4, <2>5, <2>6, <2>7 DEF IInv
<1> QED BY <1>1, <1>2, <1>3 DEF Next

-----------------------------------------------------------------------------
(* What is promised. *)

\* The inductive invariant holds of every reachable state.
THEOREM AccountsInvariant == Spec => []IInv
<1>1. Init => IInv
  BY InitHolds
<1>2. IInv /\ [Next]_vars => IInv'
  BY StepHolds
<1> QED BY <1>1, <1>2, PTL DEF Spec

\* No two accounts share an id or a name, and no two tokens say one account under
\* two names or one name for two accounts, whatever times out, is killed or commits
\* after its client gave up (account_register, register_txn, token_handler).
THEOREM AccountsUnique == Spec => []UniqueAccounts
<1>1. IInv => UniqueAccounts
  <2> SUFFICES ASSUME IInv PROVE UniqueAccounts
    OBVIOUS
  <2>1. \A r, s \in Committed : r.id = s.id \/ r.name = s.name => r = s
    <3>1. Committed \subseteq Live
      BY DEF Committed, Live
    <3> QED BY <3>1 DEF IInv, LiveUnique
  <2>2. \A t, u \in tokens : t.sub = u.sub <=> t.name = u.name
    <3> SUFFICES ASSUME NEW t \in tokens, NEW u \in tokens PROVE t.sub = u.sub <=> t.name = u.name
      OBVIOUS
    <3>1. PICK r \in Committed : r.id = t.sub /\ r.name = t.name
      BY DEF IInv, TokensHold
    <3>2. PICK s \in Committed : s.id = u.sub /\ s.name = u.name
      BY DEF IInv, TokensHold
    <3> QED BY <2>1, <3>1, <3>2
  <2> QED BY <2>1, <2>2 DEF UniqueAccounts
<1> QED BY <1>1, AccountsInvariant, PTL

\* A 200 is only said of a committed account with that id and password, a 409 only of
\* a name that is taken, a 401 to a LOGIN only when the account has another password
\* (account_login, account_register).
THEOREM AnswersTrue == Spec => []AnswerTrue
<1>1. IInv => AnswerTrue
  BY DEF IInv, AnswerHolds, AnswerTrue
<1> QED BY <1>1, AccountsInvariant, PTL
=============================================================================
