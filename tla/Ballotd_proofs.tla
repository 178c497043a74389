--------------------------- MODULE Ballotd_proofs ---------------------------
(***************************************************************************)
(* Proofs that ballotd accounts for every worker it has forked and that    *)
(* voters act under their own names only, for any number of voters,        *)
(* operators, slots of the worker table, requests and failing calls.       *)
(***************************************************************************)
EXTENDS BallotdProps, TLAPS

\* A leaf is for Zenon, unless it names another prover.
USE ZenonT(40)

----------------------------------------------------------------------------
(* The worker table and the pipe as sequences without repetitions.          *)

\* The elements of a sequence.
LEMMA RangeIn == ASSUME NEW S, NEW s \in Seq(S) PROVE Range(s) \subseteq S
<1>1. \A i \in DOMAIN s : s[i] \in S
  BY SMT
<1> QED BY <1>1 DEF Range

\* Append adds one element.
LEMMA RangeAppend ==
    ASSUME NEW s \in Seq(Voters), NEW x \in Voters, IsInjective(s), x \notin Range(s)
    PROVE  /\ Append(s, x) \in Seq(Voters) /\ IsInjective(Append(s, x))
           /\ Range(Append(s, x)) = Range(s) \cup {x}
<1> DEFINE t == Append(s, x)
<1>1. /\ t \in Seq(Voters) /\ DOMAIN t = 1..Len(s) + 1
      /\ \A i \in 1..Len(s) : t[i] = s[i]
      /\ t[Len(s) + 1] = x /\ DOMAIN s = 1..Len(s) /\ Len(s) \in Nat
  BY SMT
<1> HIDE DEF t
<1>2. \A i \in DOMAIN t : i \in DOMAIN s \/ i = Len(s) + 1
  BY <1>1, SMT
<1>3. DOMAIN s \subseteq DOMAIN t /\ Len(s) + 1 \in DOMAIN t
  BY <1>1, SMT
<1>4. IsInjective(t)
  BY <1>1, <1>2 DEF IsInjective, Range
<1>5. Range(t) = Range(s) \cup {x}
  BY <1>1, <1>2, <1>3 DEF Range
<1> QED BY <1>1, <1>4, <1>5 DEF t

\* Tail takes the head away.
LEMMA RangeTail ==
    ASSUME NEW S, NEW s \in Seq(S), s # <<>>
    PROVE  /\ Tail(s) \in Seq(S) /\ Head(s) \in Range(s) /\ Head(s) \in S
           /\ Range(Tail(s)) \subseteq Range(s)
           /\ IsInjective(s) => /\ IsInjective(Tail(s))
                                /\ Range(Tail(s)) = Range(s) \ {Head(s)}
<1> DEFINE t == Tail(s)
<1>1. /\ t \in Seq(S) /\ DOMAIN t = 1..Len(s) - 1 /\ DOMAIN s = 1..Len(s)
      /\ \A i \in DOMAIN t : t[i] = s[i + 1]
      /\ Len(s) \in Nat \ {0} /\ Head(s) = s[1] /\ 1 \in DOMAIN s /\ s[1] \in S
  BY SMT
<1> HIDE DEF t
<1>2. \A i \in DOMAIN t : i + 1 \in DOMAIN s /\ i + 1 # 1
  BY <1>1, SMT
<1>3. \A i \in DOMAIN s : i # 1 => \E j \in DOMAIN t : i = j + 1
  <2> TAKE i \in DOMAIN s
  <2> HAVE i # 1
  <2>1. i - 1 \in DOMAIN t /\ i = (i - 1) + 1
    BY <1>1, SMT
  <2> QED BY <2>1
<1>4. \A i, j \in DOMAIN t : i + 1 = j + 1 => i = j
  BY <1>1, SMT
<1>5. Range(t) \subseteq Range(s)
  <2>1. ASSUME NEW i \in DOMAIN t PROVE t[i] \in Range(s)
    <3>1. t[i] = s[i + 1] /\ i + 1 \in DOMAIN s
      BY <1>1, <1>2
    <3> QED BY <3>1 DEF Range
  <2> QED BY <2>1 DEF Range
<1>6. ASSUME IsInjective(s)
      PROVE  IsInjective(t) /\ Range(t) = Range(s) \ {s[1]}
  <2>1. IsInjective(t)
    <3>1. ASSUME NEW i \in DOMAIN t, NEW j \in DOMAIN t, t[i] = t[j] PROVE i = j
      <4>1. s[i + 1] = s[j + 1] /\ i + 1 \in DOMAIN s /\ j + 1 \in DOMAIN s
        BY <1>1, <1>2, <3>1
      <4>2. i + 1 = j + 1
        BY <1>6, <4>1 DEF IsInjective
      <4> QED BY <1>4, <4>2
    <3> QED BY <3>1 DEF IsInjective
  <2>2. \A i \in DOMAIN t : t[i] # s[1]
    BY <1>1, <1>2, <1>6 DEF IsInjective
  <2>3. ASSUME NEW i \in DOMAIN s, s[i] # s[1]
        PROVE  s[i] \in Range(t)
    <3>1. PICK j \in DOMAIN t : i = j + 1
      BY <1>3, <2>3
    <3>2. t[j] = s[i]
      BY <1>1, <3>1
    <3> QED BY <3>2 DEF Range
  <2> QED BY <1>5, <2>1, <2>2, <2>3 DEF Range
<1> QED BY <1>1, <1>5, <1>6 DEF t, Range

\* Without its last element.
LEMMA RangeFront ==
    ASSUME NEW s \in Seq(Voters), s # <<>>, IsInjective(s)
    PROVE  LET t == SubSeq(s, 1, Len(s) - 1)
           IN  /\ t \in Seq(Voters) /\ s[Len(s)] \in Range(s) /\ IsInjective(t)
               /\ Range(t) = Range(s) \ {s[Len(s)]} /\ Len(t) = Len(s) - 1
<1> DEFINE t == SubSeq(s, 1, Len(s) - 1)
<1>0. Len(s) \in Nat \ {0} /\ DOMAIN s = 1..Len(s) /\ Len(s) \in DOMAIN s
  BY SMT
<1>1. /\ t \in Seq(Voters) /\ DOMAIN t = 1..Len(s) - 1 /\ Len(t) = Len(s) - 1
      /\ \A i \in 1..Len(s) - 1 : t[i] = s[i]
  BY <1>0, SMT
<1> HIDE DEF t
<1>2. \A i \in DOMAIN s : i \in DOMAIN t <=> i # Len(s)
  BY <1>0, <1>1, SMT
<1>3. DOMAIN t \subseteq DOMAIN s
  BY <1>0, <1>1, SMT
<1>4. IsInjective(t)
  BY <1>1, <1>3 DEF IsInjective
<1>5. \A i \in DOMAIN t : t[i] # s[Len(s)]
  BY <1>0, <1>1, <1>2, <1>3 DEF IsInjective
<1>6. Range(t) = Range(s) \ {s[Len(s)]}
  BY <1>1, <1>2, <1>3, <1>5 DEF Range
<1> QED BY <1>0, <1>1, <1>4, <1>6 DEF t, Range

\* drop_worker takes one slot's worker away.
LEMMA RangeDrop ==
    ASSUME table \in Seq(Voters), IsInjective(table), NEW k \in DOMAIN table
    PROVE  /\ drop_worker(k) \in Seq(Voters) /\ IsInjective(drop_worker(k))
           /\ Range(drop_worker(k)) = Range(table) \ {table[k]}
           /\ Len(drop_worker(k)) = Len(table) - 1
<1> DEFINE t == drop_worker(k)
           n == Len(table)
<1>1. /\ DOMAIN table = 1..n /\ n \in Nat \ {0} /\ k \in 1..n
      /\ [table EXCEPT ![k] = table[n]] \in Seq(Voters)
      /\ Len([table EXCEPT ![k] = table[n]]) = n
      /\ \A i \in 1..n : [table EXCEPT ![k] = table[n]][i] = IF i = k THEN table[n] ELSE table[i]
  BY SMT
<1>2. /\ t \in Seq(Voters) /\ DOMAIN t = 1..n - 1 /\ Len(t) = n - 1
      /\ \A i \in 1..n - 1 : t[i] = IF i = k THEN table[n] ELSE table[i]
  BY <1>1, SMT DEF drop_worker
<1> HIDE DEF t
<1>3. \A i \in DOMAIN t : i \in DOMAIN table /\ i # n
  BY <1>1, <1>2, SMT
<1>4. n \in DOMAIN table
  BY <1>1, SMT
<1>5. \A i \in DOMAIN table : i # n => i \in DOMAIN t
  BY <1>1, <1>2, SMT
<1>6. \A i \in DOMAIN t : t[i] = IF i = k THEN table[n] ELSE table[i]
  BY <1>2
<1> HIDE DEF n
<1>7. IsInjective(t)
  BY <1>3, <1>4, <1>6 DEF IsInjective
<1>8. \A x \in Range(t) : x \in Range(table) /\ x # table[k]
  BY <1>3, <1>4, <1>6 DEF IsInjective, Range
<1>9. \A x \in Range(table) : x # table[k] => x \in Range(t)
  <2> TAKE x \in Range(table)
  <2> HAVE x # table[k]
  <2>1. PICK i \in DOMAIN table : x = table[i]
    BY DEF Range
  <2>2. CASE i = n
    <3>1. k \in DOMAIN t /\ t[k] = table[n]
      BY <1>5, <1>6, <2>1, <2>2
    <3> QED BY <2>1, <2>2, <3>1 DEF Range
  <2>3. CASE i # n
    <3>1. i \in DOMAIN t /\ t[i] = table[i]
      BY <1>5, <1>6, <2>1, <2>3
    <3> QED BY <2>1, <3>1 DEF Range
  <2> QED BY <2>2, <2>3
<1> QED BY <1>2, <1>7, <1>8, <1>9 DEF t, n

\* The first n elements of one sequence join the other; the rest are told apart.
LEMMA RangeJoin ==
    ASSUME NEW s \in Seq(Voters), NEW r \in Seq(Voters), NEW n \in 0..Len(r),
           IsInjective(s), IsInjective(r), Range(s) \cap Range(r) = {}
    PROVE  LET t == s \o SubSeq(r, 1, n)
               shut == Range(SubSeq(r, n + 1, Len(r)))
           IN  /\ t \in Seq(Voters) /\ Len(t) = Len(s) + n /\ IsInjective(t)
               /\ Range(t) = Range(s) \cup (Range(r) \ shut) /\ shut \subseteq Range(r)
<1> DEFINE p == SubSeq(r, 1, n)
           q == SubSeq(r, n + 1, Len(r))
           t == s \o p
<1>1. /\ p \in Seq(Voters) /\ Len(p) = n /\ DOMAIN p = 1..n /\ \A i \in 1..n : p[i] = r[i]
  BY SMT
<1>2. /\ q \in Seq(Voters) /\ DOMAIN q = 1..Len(r) - n
      /\ \A i \in 1..Len(r) - n : q[i] = r[n + i]
  BY SMT
<1>3. Len(s) \in Nat /\ Len(r) \in Nat /\ DOMAIN s = 1..Len(s) /\ DOMAIN r = 1..Len(r) /\ n \in Nat
  BY SMT
<1> HIDE DEF p, q
<1>4. /\ t \in Seq(Voters) /\ Len(t) = Len(s) + n /\ DOMAIN t = 1..Len(s) + n
      /\ \A i \in 1..Len(s) : t[i] = s[i]
      /\ \A i \in 1..n : t[Len(s) + i] = p[i]
  BY <1>1, <1>3, SMT
<1> HIDE DEF t
<1>5. \A i \in DOMAIN t : \/ i \in DOMAIN s /\ t[i] = s[i]
                          \/ \E j \in 1..n : i = Len(s) + j /\ t[i] = r[j] /\ j \in DOMAIN r
  <2> TAKE i \in DOMAIN t
  <2>1. CASE i <= Len(s)
    BY <1>3, <1>4, <2>1, SMT
  <2>2. CASE i > Len(s)
    <3>1. i - Len(s) \in 1..n /\ i = Len(s) + (i - Len(s)) /\ i - Len(s) \in DOMAIN r
      BY <1>3, <1>4, <2>2, SMT
    <3> QED BY <1>1, <1>4, <3>1
  <2> QED BY <1>3, <1>4, <2>1, <2>2, SMT
<1>6. IsInjective(t)
  <2>1. \A i \in DOMAIN s, j \in DOMAIN r : s[i] # r[j]
    BY DEF Range
  <2> QED BY <1>5, <2>1 DEF IsInjective
<1>7. Range(q) \subseteq Range(r)
  <2>1. \A i \in DOMAIN q : n + i \in DOMAIN r
    BY <1>2, <1>3, SMT
  <2> QED BY <1>2, <2>1 DEF Range
<1>8. \A j \in DOMAIN r : r[j] \in Range(q) <=> j > n
  <2> TAKE j \in DOMAIN r
  <2>1. ASSUME j > n PROVE r[j] \in Range(q)
    <3>1. j - n \in DOMAIN q /\ q[j - n] = r[j]
      BY <1>2, <1>3, <2>1, SMT
    <3> QED BY <3>1 DEF Range
  <2>2. ASSUME r[j] \in Range(q) PROVE j > n
    <3>1. PICK i \in DOMAIN q : r[j] = q[i]
      BY <2>2 DEF Range
    <3>2. n + i \in DOMAIN r /\ q[i] = r[n + i] /\ n + i > n
      BY <1>2, <1>3, SMT
    <3>3. j = n + i
      BY <3>1, <3>2 DEF IsInjective
    <3> QED BY <3>2, <3>3
  <2> QED BY <2>1, <2>2
<1>9. \A x \in Range(t) : x \in Range(s) \/ x \in Range(r) \ Range(q)
  <2>1. \A j \in 1..n : ~(j > n)
    BY <1>3, SMT
  <2>2. \A i \in DOMAIN t : t[i] \in Range(s) \/ t[i] \in Range(r) \ Range(q)
    BY <1>5, <1>8, <2>1 DEF Range
  <2> QED BY <2>2 DEF Range
<1>10. \A x \in Range(s) : x \in Range(t)
  <2>1. \A i \in DOMAIN s : i \in DOMAIN t /\ t[i] = s[i]
    BY <1>3, <1>4, SMT
  <2> QED BY <2>1 DEF Range
<1>11. \A x \in Range(r) \ Range(q) : x \in Range(t)
  <2> TAKE x \in Range(r) \ Range(q)
  <2>1. PICK j \in DOMAIN r : x = r[j]
    BY DEF Range
  <2>2. ~(j > n)
    BY <1>8, <2>1
  <2>3. j \in 1..n /\ Len(s) + j \in DOMAIN t
    BY <1>3, <1>4, <2>2, SMT
  <2>4. t[Len(s) + j] = x
    BY <1>1, <1>4, <2>1, <2>3
  <2> QED BY <2>3, <2>4 DEF Range
<1>12. Range(t) = Range(s) \cup (Range(r) \ Range(q))
  BY <1>9, <1>10, <1>11
<1> QED BY <1>4, <1>6, <1>7, <1>12 DEF t, p, q

----------------------------------------------------------------------------
(* The workers the daemon knows of.                                         *)

\* The steps that register nobody and reap nobody.
Quiet ==
    /\ UNCHANGED <<table, notify, fresh, dropped>>
    /\ hold' \in [Voters -> SUBSET (Voters \cup {Daemon})]
    /\ \A v \in Voters : Daemon \in hold'[v] <=> Daemon \in hold[v]
    /\ worker' \in [Voters -> {"none", "login", "serving", "waiting", "zombie", "reaped"}]
    /\ \A v \in Voters : \/ worker'[v] = worker[v]
                         \/ /\ worker[v] \notin {"none", "reaped"}
                            /\ worker'[v] \notin {"none", "reaped"}
    /\ client' \in [Voters -> {"out", "connecting", "on", "asking", "unheard", "closed"}]
    /\ \A v \in Voters : client'[v] = "connecting" => client[v] = "connecting"

\* The part of IInv that is about them.
Registry ==
    /\ TableHolds /\ WorkersHold
    /\ table \in Seq(Voters) /\ notify \in Seq(Voters) /\ fresh \in Voters \cup {None}
    /\ worker \in [Voters -> {"none", "login", "serving", "waiting", "zombie", "reaped"}]
    /\ client \in [Voters -> {"out", "connecting", "on", "asking", "unheard", "closed"}]
    /\ hold \in [Voters -> SUBSET (Voters \cup {Daemon})]

\* Quiet steps keep it.
LEMMA QuietKeeps == Registry /\ Quiet => Registry'
<1> SUFFICES ASSUME Registry, Quiet PROVE Registry'
  OBVIOUS
<1>1. Known' = Known
  BY DEF Quiet, Known
<1>2. TableHolds'
  BY <1>1 DEF Registry, Quiet, TableHolds
<1>3. WorkersHold'
  BY <1>1 DEF Registry, Quiet, WorkersHold
<1> QED BY <1>2, <1>3 DEF Registry, Quiet

\* A worker that exits leaves the daemon's descriptors alone.
LEMMA ReleaseQuiet ==
    ASSUME Registry, NEW v \in Voters, Release(v)
    PROVE  /\ hold' \in [Voters -> SUBSET (Voters \cup {Daemon})]
           /\ \A u \in Voters : Daemon \in hold'[u] <=> Daemon \in hold[u]
BY BallotdAssumption DEF Registry, Release, Daemon

\* The threads' steps but those on the pipe and the table are quiet.
LEMMA ThreadsQuiet ==
    ASSUME Registry,
           \/ on_terminate \/ ListenerBind \/ ListenerQuit \/ ListenerFails
           \/ CtlQuit \/ AdminPoll \/ handle_ctl_req \/ TeardownCtl \/ AdminFails \/ MainJoins
           \/ \E v \in Voters : ListenerSheds(v)
           \/ \E o \in Operators : CtlAccept(o) \/ handle_conn(o)
    PROVE  Quiet
<1> USE DEF Registry, Quiet, wrk, cli, adm, pipes
<1>1. CASE on_terminate \/ ListenerBind \/ CtlQuit \/ AdminPoll \/ handle_ctl_req
  BY <1>1 DEF on_terminate, ListenerBind, CtlQuit, AdminPoll, handle_ctl_req
<1>2. CASE TeardownCtl \/ AdminFails \/ MainJoins
  BY <1>2 DEF TeardownCtl, AdminFails, MainJoins
<1>3. CASE ListenerQuit \/ ListenerFails
  <2>1. UNCHANGED <<table, notify, fresh, dropped, hold, worker>>
    BY <1>3 DEF ListenerQuit, ListenerFails
  <2>2. client' = [v \in Voters |-> IF client[v] = "connecting" THEN "closed" ELSE client[v]]
    BY <1>3 DEF ListenerQuit, ListenerFails, CloseListening
  <2> QED BY <2>1, <2>2
<1>4. ASSUME NEW v \in Voters, ListenerSheds(v)
      PROVE  Quiet
  BY <1>4 DEF ListenerSheds
<1>5. ASSUME NEW o \in Operators, CtlAccept(o) \/ handle_conn(o)
      PROVE  Quiet
  BY <1>5 DEF CtlAccept, handle_conn
<1> QED BY <1>1, <1>2, <1>3, <1>4, <1>5

\* The workers' and the clients' own steps are quiet.
LEMMA SessionsQuiet ==
    ASSUME Registry, NEW v \in Voters,
           \/ SessionLogin(v) \/ handle_request(v) \/ SessionReplies(v) \/ SessionEnds(v)
           \/ VoterAsks(v) \/ VoterCloses(v)
    PROVE  Quiet
<1> USE DEF Registry, Quiet, wrk, adm, pipes
<1>1. CASE SessionLogin(v)
  <2>1. CASE Exit(v)
    BY <1>1, <2>1, ReleaseQuiet DEF SessionLogin, Exit
  <2> QED BY <1>1, <2>1 DEF SessionLogin
<1>2. CASE SessionEnds(v)
  BY <1>2, ReleaseQuiet DEF SessionEnds, Exit
<1>3. CASE handle_request(v)
  <2>1. UNCHANGED <<table, notify, fresh, dropped, hold>>
    BY <1>3 DEF handle_request
  <2>2. worker[v] = "serving" /\ (worker' = worker \/ worker' = [worker EXCEPT ![v] = "waiting"])
    BY <1>3 DEF handle_request
  <2>3. client' = client \/ client' = [client EXCEPT ![v] = IF @ = "asking" THEN "on" ELSE @]
    BY <1>3 DEF handle_request, Answer
  <2> QED BY <2>1, <2>2, <2>3
<1>4. CASE SessionReplies(v)
  <2>1. UNCHANGED <<table, notify, fresh, dropped, hold>>
    BY <1>4 DEF SessionReplies
  <2>2. worker[v] = "waiting" /\ worker' = [worker EXCEPT ![v] = "serving"]
    BY <1>4 DEF SessionReplies
  <2>3. \/ client' = client \/ client' = [client EXCEPT ![v] = IF @ = "asking" THEN "on" ELSE @]
        \/ client' = [client EXCEPT ![v] = IF @ = "asking" THEN "unheard" ELSE @]
    BY <1>4 DEF SessionReplies, Answer
  <2> QED BY <2>1, <2>2, <2>3
<1>5. CASE VoterAsks(v) \/ VoterCloses(v)
  BY <1>5 DEF VoterAsks, VoterCloses
<1> QED BY <1>1, <1>2, <1>3, <1>4, <1>5

\* A fork makes a worker known that was not, and its announcement changes nothing.
LEMMA ForkKeeps ==
    ASSUME Registry, (\E v \in Voters : ListenerForks(v)) \/ ListenerAnnounces
    PROVE  Registry'
<1> USE BallotdAssumption
<1>1. ASSUME NEW v \in Voters, ListenerForks(v)
      PROVE  Registry'
  <2>1. /\ UNCHANGED <<table, notify, dropped>> /\ fresh = None /\ fresh' = v
        /\ client[v] = "connecting" /\ client' = [client EXCEPT ![v] = "on"]
        /\ worker' = [worker EXCEPT ![v] = "login"]
        /\ hold' = [u \in Voters |-> IF u = v THEN {Daemon}
                                     ELSE IF Daemon \in hold[u] THEN hold[u] \cup {v}
                                     ELSE hold[u]]
    BY <1>1 DEF ListenerForks, pipes, adm
  <2>2. worker[v] = "none" /\ v \notin Known
    BY <2>1 DEF Registry, WorkersHold
  <2>3. \A u \in Voters : u \in Known' <=> u = v \/ u \in Known
    BY <2>1 DEF Known
  <2>4. hold' \in [Voters -> SUBSET (Voters \cup {Daemon})]
    BY <2>1 DEF Registry
  <2>5. \A u \in Voters : Daemon \in hold'[u] <=> u = v \/ Daemon \in hold[u]
    BY <2>1 DEF Registry, Daemon
  <2>6. TableHolds'
    BY <2>1, <2>2, <2>3, <2>5 DEF Registry, TableHolds, Known
  <2>7. WorkersHold'
    BY <2>1, <2>2, <2>3 DEF Registry, WorkersHold
  <2> QED BY <2>1, <2>4, <2>6, <2>7 DEF Registry
<1>2. CASE ListenerAnnounces
  <2>1. /\ UNCHANGED <<table, dropped, client, worker, hold>> /\ fresh \in Voters
        /\ notify' = Append(notify, fresh) /\ fresh' = None
    BY <1>2 DEF ListenerAnnounces, adm, cli, wrk, Registry
  <2>2. IsInjective(notify) /\ fresh \notin Range(notify) /\ notify \in Seq(Voters)
    BY DEF Registry, TableHolds
  <2>3. /\ notify' \in Seq(Voters) /\ IsInjective(notify')
        /\ Range(notify') = Range(notify) \cup {fresh}
    BY <2>1, <2>2, RangeAppend
  <2>4. None \notin Range(notify') /\ None \notin Range(table)
    BY <2>3, RangeIn DEF Registry
  <2>5. \A u \in Voters : u \in Known' <=> u \in Known
    BY <2>1, <2>3 DEF Known
  <2>6. TableHolds'
    <3>1. Range(table) \cap Range(notify') = {}
      BY <2>3 DEF Registry, TableHolds
    <3>2. \A u \in Voters : Daemon \in hold'[u] <=> u \in Known'
      BY <2>1, <2>5 DEF Registry, TableHolds
    <3> QED BY <2>1, <2>3, <2>4, <3>1, <3>2 DEF Registry, TableHolds
  <2>7. WorkersHold'
    BY <2>1, <2>5 DEF Registry, WorkersHold
  <2> QED BY <2>1, <2>3, <2>6, <2>7 DEF Registry
<1> QED BY <1>1, <1>2

\* The drain of the pipe registers as many as there is room for and turns the rest away.
LEMMA RegistersKeeps == Registry /\ AdminRegisters => Registry'
<1> SUFFICES ASSUME Registry, AdminRegisters PROVE Registry'
  OBVIOUS
<1> DEFINE n == IF Room < Len(notify) THEN Room ELSE Len(notify)
           shut == Range(SubSeq(notify, n + 1, Len(notify)))
<1>1. /\ UNCHANGED <<fresh, client, worker>> /\ notify' = <<>>
      /\ table' = table \o SubSeq(notify, 1, n)
      /\ hold' = [v \in Voters |-> hold[v] \ (IF v \in shut THEN {Daemon} ELSE {})]
      /\ dropped' = dropped \cup shut
  BY DEF AdminRegisters, cli
<1>2. /\ table \in Seq(Voters) /\ notify \in Seq(Voters) /\ Len(table) <= MAX_WORKERS
      /\ IsInjective(table) /\ IsInjective(notify) /\ Range(table) \cap Range(notify) = {}
  BY DEF Registry, TableHolds
<1>3. n \in 0..Len(notify) /\ Len(table) + n <= MAX_WORKERS
  <2>1. Len(table) \in Nat /\ Len(notify) \in Nat
    BY <1>2, SMT
  <2>2. Room \in Nat /\ Len(table) + Room = MAX_WORKERS
    BY <1>2, <2>1, BallotdAssumption, SMT DEF Room
  <2> QED BY <2>1, <2>2, BallotdAssumption, SMT
<1> HIDE DEF n
<1>4. /\ table' \in Seq(Voters) /\ Len(table') = Len(table) + n /\ IsInjective(table')
      /\ Range(table') = Range(table) \cup (Range(notify) \ shut) /\ shut \subseteq Range(notify)
  BY <1>1, <1>2, <1>3, RangeJoin
<1> HIDE DEF shut
<1>5. notify' \in Seq(Voters) /\ IsInjective(notify') /\ Range(notify') = {}
  <2>1. <<>> \in Seq(Voters) /\ DOMAIN <<>> = {}
    BY SMT
  <2> QED BY <1>1, <2>1 DEF IsInjective, Range
<1>6. \A v \in Voters : v \in Known' <=> v \in Known /\ v \notin shut
  BY <1>1, <1>2, <1>4, <1>5 DEF Known, Registry, TableHolds
<1>7. /\ hold' \in [Voters -> SUBSET (Voters \cup {Daemon})]
      /\ \A v \in Voters : Daemon \in hold'[v] <=> Daemon \in hold[v] /\ v \notin shut
  BY <1>1 DEF Registry
<1>8. TableHolds'
  <2>1. Len(table') <= MAX_WORKERS
    BY <1>3, <1>4
  <2>2. fresh' \notin Range(table') \cup Range(notify')
    BY <1>1, <1>4, <1>5 DEF Registry, TableHolds
  <2>3. \A v \in Voters : Daemon \in hold'[v] <=> v \in Known'
    BY <1>6, <1>7 DEF Registry, TableHolds
  <2> QED BY <1>4, <1>5, <2>1, <2>2, <2>3 DEF TableHolds
<1>9. WorkersHold'
  BY <1>1, <1>6 DEF Registry, WorkersHold
<1> QED BY <1>1, <1>4, <1>5, <1>7, <1>8, <1>9 DEF Registry

\* A worker is taken out of the pipe or the table as it is reaped.
LEMMA ReapKeeps ==
    ASSUME Registry, NEW w \in Voters,
           \/ /\ w \in Range(table) /\ notify' = notify /\ table' \in Seq(Voters)
              /\ IsInjective(table') /\ Range(table') = Range(table) \ {w}
              /\ Len(table') = Len(table) - 1
           \/ /\ w \in Range(notify) /\ table' = table /\ notify' \in Seq(Voters)
              /\ IsInjective(notify') /\ Range(notify') = Range(notify) \ {w},
           UNCHANGED <<fresh, dropped>>, worker' = [worker EXCEPT ![w] = "reaped"],
           client' = client \/ client' = [client EXCEPT ![w] = "closed"],
           hold' \in [Voters -> SUBSET (Voters \cup {Daemon})],
           \A v \in Voters : Daemon \in hold'[v] <=> Daemon \in hold[v] /\ v # w
    PROVE  Registry'
<1>1. w \in Known /\ w # fresh
  BY DEF Registry, TableHolds, Known
<1>2. \A v \in Voters : v \in Known' <=> v \in Known /\ v # w
  <2>1. CASE w \in Range(table) /\ notify' = notify /\ Range(table') = Range(table) \ {w}
    <3>1. w \notin Range(notify)
      BY <2>1 DEF Registry, TableHolds
    <3> QED BY <1>1, <2>1, <3>1 DEF Known
  <2>2. CASE w \in Range(notify) /\ table' = table /\ Range(notify') = Range(notify) \ {w}
    <3>1. w \notin Range(table)
      BY <2>2 DEF Registry, TableHolds
    <3> QED BY <1>1, <2>2, <3>1 DEF Known
  <2> QED BY <2>1, <2>2
<1>3. TableHolds'
  <2>1. Len(table') <= MAX_WORKERS
    <3>1. Len(table) \in Nat /\ Len(table) <= MAX_WORKERS
      BY SMT DEF Registry, TableHolds
    <3>2. Len(table) - 1 <= MAX_WORKERS
      BY <3>1, BallotdAssumption, SMT
    <3> QED BY <3>1, <3>2
  <2>2. IsInjective(table') /\ IsInjective(notify')
    BY DEF Registry, TableHolds
  <2>3. Range(table') \subseteq Range(table) /\ Range(notify') \subseteq Range(notify)
    OBVIOUS
  <2>4. Range(table') \cap Range(notify') = {} /\ fresh' \notin Range(table') \cup Range(notify')
    BY <2>3 DEF Registry, TableHolds
  <2>5. \A v \in Voters : Daemon \in hold'[v] <=> v \in Known'
    BY <1>2 DEF Registry, TableHolds
  <2> QED BY <2>1, <2>2, <2>4, <2>5 DEF TableHolds
<1>4. /\ worker' \in [Voters -> {"none", "login", "serving", "waiting", "zombie", "reaped"}]
      /\ worker'[w] = "reaped" /\ \A v \in Voters \ {w} : worker'[v] = worker[v]
  BY DEF Registry
<1>5. /\ client' \in [Voters -> {"out", "connecting", "on", "asking", "unheard", "closed"}]
      /\ \A v \in Voters : client'[v] = "connecting" => client[v] = "connecting"
  BY DEF Registry
<1>6. client[w] # "connecting"
  BY <1>1 DEF Registry, WorkersHold
<1>7. WorkersHold'
  BY <1>2, <1>4, <1>5, <1>6 DEF Registry, WorkersHold
<1> QED BY <1>3, <1>4, <1>5, <1>7 DEF Registry

\* Serving a worker, and tearing one down.
LEMMA ServesKeeps == Registry /\ (AdminServes \/ TeardownNew \/ TeardownTable) => Registry'
<1> SUFFICES ASSUME Registry, AdminServes \/ TeardownNew \/ TeardownTable PROVE Registry'
  OBVIOUS
<1>t. /\ table \in Seq(Voters) /\ notify \in Seq(Voters)
      /\ IsInjective(table) /\ IsInjective(notify)
  BY DEF Registry, TableHolds
<1>1. CASE AdminServes
  <2>1. PICK i \in DOMAIN table :
          LET v == table[i] IN
          \/ UNCHANGED <<table, worker, hold>>
          \/ /\ table' = drop_worker(i)
             /\ worker' = [worker EXCEPT ![v] = "reaped"]
             /\ hold' = [hold EXCEPT ![v] = {}]
    BY <1>1 DEF AdminServes
  <2>2. UNCHANGED <<notify, fresh, client, dropped>>
    BY <1>1 DEF AdminServes, pipes, cli
  <2>3. CASE UNCHANGED <<table, worker, hold>>
    <3>1. Quiet
      BY <2>2, <2>3 DEF Registry, Quiet
    <3> QED BY <3>1, QuietKeeps
  <2>4. CASE /\ table' = drop_worker(i) /\ worker' = [worker EXCEPT ![table[i]] = "reaped"]
             /\ hold' = [hold EXCEPT ![table[i]] = {}]
    <3>1. /\ table' \in Seq(Voters) /\ IsInjective(table') /\ Len(table') = Len(table) - 1
          /\ Range(table') = Range(table) \ {table[i]}
      BY <1>t, <2>4, RangeDrop
    <3>2. table[i] \in Range(table) /\ table[i] \in Voters
      BY <1>t, RangeIn DEF Range
    <3>3. /\ hold' \in [Voters -> SUBSET (Voters \cup {Daemon})]
          /\ \A v \in Voters : Daemon \in hold'[v] <=> Daemon \in hold[v] /\ v # table[i]
      BY <2>4, <3>2 DEF Registry
    <3> QED BY <2>2, <2>4, <3>1, <3>2, <3>3, ReapKeeps
  <2> QED BY <2>1, <2>3, <2>4
<1>2. ASSUME NEW w \in Voters, Terminate(w)
      PROVE  /\ hold' \in [Voters -> SUBSET (Voters \cup {Daemon})]
             /\ \A v \in Voters : Daemon \in hold'[v] <=> Daemon \in hold[v] /\ v # w
             /\ worker' = [worker EXCEPT ![w] = "reaped"]
             /\ client' = [client EXCEPT ![w] = "closed"]
  <2>1. hold' = [u \in Voters |-> IF u = w THEN {} ELSE hold[u] \ {w}]
    BY <1>2 DEF Terminate
  <2>2. hold' \in [Voters -> SUBSET (Voters \cup {Daemon})]
    BY <2>1 DEF Registry
  <2>3. \A v \in Voters : Daemon \in hold'[v] <=> Daemon \in hold[v] /\ v # w
    BY <2>1, BallotdAssumption DEF Daemon
  <2> QED BY <1>2, <2>2, <2>3 DEF Terminate
<1>3. CASE TeardownNew
  <2>1. /\ notify # <<>> /\ Terminate(Head(notify)) /\ notify' = Tail(notify)
        /\ UNCHANGED <<table, fresh, dropped>>
    BY <1>3 DEF TeardownNew, adm
  <2>2. /\ Head(notify) \in Voters /\ Head(notify) \in Range(notify) /\ notify' \in Seq(Voters)
        /\ IsInjective(notify') /\ Range(notify') = Range(notify) \ {Head(notify)}
    BY <1>t, <2>1, RangeTail
  <2> QED BY <1>2, <2>1, <2>2, ReapKeeps
<1>4. CASE TeardownTable
  <2>1. UNCHANGED <<notify, fresh, dropped>>
    BY <1>4 DEF TeardownTable, pipes
  <2>2. CASE table = <<>>
    <3>1. UNCHANGED <<table, worker, hold, client>>
      BY <1>4, <2>2 DEF TeardownTable
    <3>2. Quiet
      BY <2>1, <3>1 DEF Registry, Quiet
    <3> QED BY <3>2, QuietKeeps
  <2>3. CASE table # <<>>
    <3>1. Terminate(table[Len(table)]) /\ table' = SubSeq(table, 1, Len(table) - 1)
      BY <1>4, <2>3 DEF TeardownTable
    <3>2. /\ table[Len(table)] \in Range(table) /\ table' \in Seq(Voters)
          /\ IsInjective(table') /\ Len(table') = Len(table) - 1
          /\ Range(table') = Range(table) \ {table[Len(table)]}
      BY <1>t, <2>3, <3>1, RangeFront
    <3>3. table[Len(table)] \in Voters
      BY <1>t, <3>2, RangeIn
    <3> QED BY <1>2, <2>1, <3>1, <3>2, <3>3, ReapKeeps
  <2> QED BY <2>2, <2>3
<1> QED BY <1>1, <1>3, <1>4

\* Every step keeps the registry.
LEMMA RegistryNext == Registry /\ [Next]_vars => Registry'
<1> SUFFICES ASSUME Registry, [Next]_vars PROVE Registry'
  OBVIOUS
<1>1. CASE UNCHANGED vars
  <2>1. Quiet
    BY <1>1 DEF vars, pipes, adm, wrk, cli, Registry, Quiet
  <2> QED BY <2>1, QuietKeeps
<1>2. CASE listener_thread
  BY <1>2, ForkKeeps, ThreadsQuiet, QuietKeeps DEF listener_thread
<1>3. CASE on_terminate \/ ctl_thread \/ MainJoins
  BY <1>3, ThreadsQuiet, QuietKeeps DEF ctl_thread
<1>4. CASE admin_thread
  BY <1>4, RegistersKeeps, ServesKeeps, ThreadsQuiet, QuietKeeps DEF admin_thread
<1>5. CASE (\E v \in Voters : session_main(v)) \/ Clients
  BY <1>5, SessionsQuiet, QuietKeeps DEF session_main, Clients
<1> QED BY <1>1, <1>2, <1>3, <1>4, <1>5 DEF Next, Done

----------------------------------------------------------------------------
(* The shutdown.                                                            *)

\* A step that leaves g_admin_quit alone leaves it alone as a truth value.
LEMMA SameQuit == adminQuit \in BOOLEAN /\ adminQuit' = adminQuit => (adminQuit' <=> adminQuit)
  BY SMT

\* The listener thread keeps StopHolds: it announces nobody once it has ended.
LEMMA ListenerStops == IInv /\ listener_thread => StopHolds'
<1> SUFFICES ASSUME IInv, listener_thread PROVE StopHolds'
  OBVIOUS
<1> USE DEF IInv, StopHolds
<1>1. UNCHANGED <<main, ctl, conn, adminQuit, admin, ready, ctlNotify, table>>
  BY DEF listener_thread, ListenerBind, ListenerQuit, ListenerFails, ListenerForks,
     ListenerSheds, ListenerAnnounces, pipes, adm, ctls
<1>2. listener # "exited"
  BY DEF listener_thread, ListenerBind, ListenerQuit, ListenerFails, ListenerForks,
     ListenerSheds, ListenerAnnounces
<1>3. main = "join listener" /\ admin # "exited"
  BY <1>2
<1>4. listener' # "accepting" => fresh' = None
  BY DEF listener_thread, ListenerBind, ListenerQuit, ListenerFails, ListenerForks,
     ListenerSheds, ListenerAnnounces
<1> QED BY <1>1, <1>3, <1>4

\* The control thread keeps it: it passes nothing on once it has ended.
LEMMA CtlStops == IInv /\ ctl_thread => StopHolds'
<1> SUFFICES ASSUME IInv, ctl_thread PROVE StopHolds'
  OBVIOUS
<1> USE DEF IInv, StopHolds
<1>1. UNCHANGED <<main, listener, fresh, adminQuit, admin, ready, notify, table>>
  BY DEF ctl_thread, CtlQuit, CtlAccept, handle_conn, pipes, adm
<1>2. ctl = "accepting" /\ main \notin {"join admin", "exited"} /\ admin # "exited"
  BY DEF ctl_thread, CtlQuit, CtlAccept, handle_conn, CtlIdle, Reading
<1>3. ctl' = "exited" => \A o \in Operators : conn'[o] \notin {"connecting", "reading"}
  <2>1. CASE CtlQuit
    BY <2>1 DEF CtlQuit, CtlIdle
  <2>2. CASE ctl' = ctl
    BY <1>2, <2>2
  <2> QED BY <2>1, <2>2 DEF ctl_thread, CtlAccept, handle_conn
<1> QED BY <1>1, <1>2, <1>3

\* The admin thread keeps it: it ends with nothing left in the pipes and the table.
LEMMA AdminStops == IInv /\ admin_thread => StopHolds'
<1> SUFFICES ASSUME IInv, admin_thread PROVE StopHolds'
  OBVIOUS
<1> USE DEF IInv, StopHolds
<1>1. UNCHANGED <<main, listener, fresh, ctl, adminQuit>>
  BY DEF admin_thread, AdminPoll, AdminRegisters, handle_ctl_req, AdminServes, TeardownNew,
     TeardownCtl, TeardownTable, AdminFails, pipes
<1>q. adminQuit' <=> adminQuit
  BY <1>1, SameQuit DEF TypeOK
<1>2. ASSUME \E fd : \E x \in {"answered", "closed"} : conn' = [conn EXCEPT ![fd] = x]
      PROVE  ctl' = "exited" => \A o \in Operators : conn'[o] \notin {"connecting", "reading"}
  BY <1>1, <1>2 DEF TypeOK
<1>3. CASE AdminPoll \/ AdminFails
  BY <1>1, <1>3 DEF AdminPoll, AdminFails, pipes, ctls
<1>4. CASE AdminRegisters \/ AdminServes
  <2>1. ready # {} /\ admin' = admin /\ conn' = conn
    BY <1>4 DEF AdminRegisters, AdminServes, ctls
  <2> QED BY <1>1, <2>1
<1>5. CASE handle_ctl_req
  <2>1. ready # {} /\ admin' = admin
    BY <1>5 DEF handle_ctl_req
  <2>2. \E fd : \E x \in {"answered", "closed"} : conn' = [conn EXCEPT ![fd] = x]
    BY <1>5 DEF handle_ctl_req
  <2> QED BY <1>1, <1>2, <2>1, <2>2
<1>6. CASE TeardownNew
  BY <1>1, <1>q, <1>6 DEF TeardownNew, TearingDown, adm
<1>7. CASE TeardownCtl
  <2>1. \E fd : \E x \in {"answered", "closed"} : conn' = [conn EXCEPT ![fd] = x]
    BY <1>7 DEF TeardownCtl
  <2>2. UNCHANGED <<admin, ready>> /\ admin # "exited"
    BY <1>7 DEF TeardownCtl, TearingDown, adm
  <2> QED BY <1>1, <1>q, <1>2, <2>1, <2>2
<1>8. CASE TeardownTable
  <2>1. /\ notify' = notify /\ ctlNotify' = ctlNotify /\ conn' = conn /\ ready' = ready
        /\ notify = <<>> /\ ctlNotify = <<>> /\ admin \in {"teardown", "failed"}
    BY <1>8 DEF TeardownTable, TearingDown, pipes
  <2>2. CASE table = <<>>
    BY <1>1, <1>8, <2>1, <2>2 DEF TeardownTable
  <2>3. CASE table # <<>>
    BY <1>1, <1>8, <2>1, <2>3 DEF TeardownTable
  <2> QED BY <2>2, <2>3
<1> QED BY <1>3, <1>4, <1>5, <1>6, <1>7, <1>8 DEF admin_thread

\* Every step keeps it; main tells the admin thread after it has joined the others.
LEMMA StopNext == IInv /\ [Next]_vars => StopHolds'
<1> SUFFICES ASSUME IInv, [Next]_vars PROVE StopHolds'
  OBVIOUS
<1>1. CASE MainJoins
  <2>1. /\ main \in {"join listener", "join ctl"} => ~adminQuit
        /\ main' = "join admin" \/ adminQuit' = adminQuit
    BY <1>1 DEF MainJoins, IInv, StopHolds
  <2>2. adminQuit' => main' \in {"join admin", "exited"}
    BY <1>1, <2>1, SameQuit DEF MainJoins, IInv, StopHolds, TypeOK
  <2>3. admin' \in {"teardown", "exited"} => adminQuit'
    BY <1>1 DEF MainJoins, adm, IInv, StopHolds
  <2> QED BY <1>1, <2>2, <2>3 DEF MainJoins, adm, ctls, IInv, StopHolds
<1>2. CASE on_terminate \/ UNCHANGED vars
  <2>1. UNCHANGED <<main, listener, fresh, ctl, conn, adminQuit, admin, ready, notify, ctlNotify, table>>
    BY <1>2 DEF on_terminate, vars, pipes, adm, ctls
  <2>2. adminQuit' <=> adminQuit
    BY <2>1, SameQuit DEF IInv, TypeOK
  <2> QED BY <2>1, <2>2 DEF IInv, StopHolds
<1>3. CASE (\E v \in Voters : session_main(v)) \/ Clients
  <2>1. UNCHANGED <<main, listener, fresh, ctl, conn, adminQuit, admin, ready, notify, ctlNotify, table>>
    BY <1>3 DEF session_main, Clients, SessionLogin, handle_request, SessionReplies, SessionEnds,
       VoterAsks, VoterCloses, pipes, adm, ctls
  <2> QED BY <2>1 DEF IInv, StopHolds
<1> QED BY <1>1, <1>2, <1>3, ListenerStops, CtlStops, AdminStops DEF Next, Done

----------------------------------------------------------------------------
(* What the channels carry.                                                 *)

\* The calls of the voter's operations are the voter's, those of the operator's the
\* operator's.
LEMMA Routes ==
    /\ \A op \in VoterOps : Route(op) \in VoterCalls
    /\ \A op \in CtlOps : Route(op) \in CtlCalls
  BY SMT DEF Route, VoterOps, CtlOps, VoterCalls, CtlCalls

\* A reply is to the call of the request, under the name in it.
LEMMA Dispatched ==
    ASSUME NEW req, NEW resp \in ballotd_dispatch(req)
    PROVE  /\ resp \in [kind : {"resp"}, call : {Route(req.op)}, cert : {req.cert},
                        status : {"named", "BB_ERR_RETRY"}]
           /\ resp.kind = "resp" /\ resp.call = Route(req.op)
<1>1. Results(Route(req.op)) \subseteq {"named", "BB_ERR_RETRY"}
  BY DEF Results
<1> DEFINE c == Route(req.op)
<1> HIDE DEF c
<1>2. resp \in [kind : {"resp"}, call : {c}, cert : {req.cert}, status : Results(c)]
  BY DEF c, ballotd_dispatch
<1>3. Results(c) \subseteq {"named", "BB_ERR_RETRY"}
  BY <1>1 DEF c
<1>4. resp \in [kind : {"resp"}, call : {c}, cert : {req.cert}, status : {"named", "BB_ERR_RETRY"}]
  BY <1>2, <1>3, SMT
<1>5. resp.kind = "resp" /\ resp.call = c
  BY <1>2, SMT
<1> QED BY <1>4, <1>5 DEF c

\* A voter's request is answered within PairMsgs.
LEMMA PairReply ==
    ASSUME NEW v, NEW req \in [op : VoterOps, cert : {v}], NEW resp \in ballotd_dispatch(req)
    PROVE  resp \in PairMsgs(v)
<1>1. req.op \in VoterOps /\ req.cert = v
  BY SMT
<1>2. Route(req.op) \in VoterCalls
  BY <1>1, Routes
<1> DEFINE c == Route(req.op)
<1> HIDE DEF c
<1>3. resp \in [kind : {"resp"}, call : {c}, cert : {v}, status : {"named", "BB_ERR_RETRY"}]
  BY <1>1, Dispatched DEF c
<1>4. c \in VoterCalls
  BY <1>2 DEF c
<1>5. resp \in [kind : {"resp"}, call : VoterCalls, cert : {v}, status : {"named", "BB_ERR_RETRY"}]
  BY <1>3, <1>4, SMT
<1> QED BY <1>5 DEF PairMsgs

\* The messages of a pair by their kind.
LEMMA PairKinds ==
    ASSUME NEW v, NEW m \in PairMsgs(v)
    PROVE  /\ m.kind = "req" => m.req \in [op : VoterOps, cert : {v}]
           /\ m.kind = "resp" => m.cert = v /\ m.call \in VoterCalls
  BY SMT DEF PairMsgs, NoMsg

\* The request of handle_request.
LEMMA PairRequest ==
    ASSUME NEW v, NEW req, req.op \in VoterOps
    PROVE  [kind |-> "req", req |-> AsAuthenticated(v, req)] \in PairMsgs(v)
<1>1. AsAuthenticated(v, req) \in [op : VoterOps, cert : {v}]
  BY DEF AsAuthenticated
<1> QED BY <1>1 DEF PairMsgs

\* The drain of g_ctl_notify goes on while there is one left.
LEMMA TailLeft == ASSUME NEW S, NEW q \in Seq(S), q # <<>>, Len(q) # 1 PROVE Tail(q) # <<>>
<1>1. Len(q) \in Nat /\ Len(q) # 0
  BY SMT
<1>2. Len(Tail(q)) # 0
  BY <1>1, SMT
<1>3. Len(<<>>) = 0
  BY SMT
<1> QED BY <1>2, <1>3

\* What the lemmas below are about: the rest of IInv.
Channels ==
    /\ adminQuit \in BOOLEAN /\ ctlNotify \in Seq(CtlReqs)
    /\ conn \in [Operators -> {"out", "connecting", "reading", "given up", "refused", "queued",
                               "answered", "closed"}]
    /\ DOMAIN link = Voters /\ DOMAIN reply = Operators
    /\ ChannelsHold

\* Steps that pass nothing on.
LEMMA NothingPassed ==
    ASSUME Channels, adminQuit' \in {adminQuit, TRUE}, UNCHANGED <<ctlNotify, link, reply>>,
           "ctl" \in ready' => "ctl" \in ready,
           \/ conn' = conn
           \/ conn' \in [Operators -> {"out", "connecting", "reading", "given up", "refused",
                                       "queued", "answered", "closed"}]
    PROVE  Channels'
  BY DEF Channels, ChannelsHold, PairMsgs, NoMsg

\* The listener, main, the signal and the clients pass nothing on.
LEMMA QuietChannels ==
    Channels /\ (on_terminate \/ listener_thread \/ MainJoins \/ Clients \/ UNCHANGED vars)
    => Channels'
<1> SUFFICES ASSUME Channels, on_terminate \/ listener_thread \/ MainJoins \/ Clients \/ UNCHANGED vars
             PROVE  /\ adminQuit' \in {adminQuit, TRUE}
                    /\ UNCHANGED <<ctlNotify, link, reply, ready, conn>>
  BY NothingPassed
<1>1. CASE on_terminate \/ MainJoins
  BY <1>1 DEF on_terminate, MainJoins, adm, wrk, ctls
<1>2. CASE listener_thread
  BY <1>2 DEF listener_thread, ListenerBind, ListenerQuit, ListenerFails, ListenerForks,
     ListenerSheds, ListenerAnnounces, pipes, adm, wrk, ctls
<1>3. CASE Clients \/ UNCHANGED vars
  BY <1>3 DEF Clients, VoterAsks, VoterCloses, vars, pipes, adm, wrk, ctls
<1> QED BY <1>1, <1>2, <1>3

\* The control thread passes on the operator's operations only.
LEMMA CtlChannels == Channels /\ ctl_thread => Channels'
<1> SUFFICES ASSUME Channels, ctl_thread PROVE Channels'
  OBVIOUS
<1>1. UNCHANGED <<adminQuit, link, reply, ready>>
  BY DEF ctl_thread, CtlQuit, CtlAccept, handle_conn, pipes, adm, wrk
<1>2. CASE CtlQuit
  <2>1. ctlNotify' = ctlNotify
    BY <1>2 DEF CtlQuit
  <2>2. conn' \in [Operators -> {"out", "connecting", "reading", "given up", "refused",
                                 "queued", "answered", "closed"}]
    BY <1>2 DEF CtlQuit, Channels
  <2> QED BY <1>1, <2>1, <2>2, NothingPassed
<1>3. ASSUME NEW o \in Operators, CtlAccept(o) \/ handle_conn(o)
      PROVE  Channels'
  <2>1. conn' \in [Operators -> {"out", "connecting", "reading", "given up", "refused",
                                 "queued", "answered", "closed"}]
    BY <1>3 DEF CtlAccept, handle_conn, Channels
  <2>2. CASE ctlNotify' = ctlNotify
    BY <1>1, <2>1, <2>2, NothingPassed
  <2>3. CASE \E op \in CtlOps :
               ctlNotify' = Append(ctlNotify, [fd |-> o, req |-> [op |-> op, cert |-> None]])
    <3>1. PICK op \in CtlOps :
            ctlNotify' = Append(ctlNotify, [fd |-> o, req |-> [op |-> op, cert |-> None]])
      BY <2>3
    <3>2. [fd |-> o, req |-> [op |-> op, cert |-> None]] \in CtlReqs
      BY DEF CtlReqs
    <3> DEFINE m == [fd |-> o, req |-> [op |-> op, cert |-> None]]
    <3> HIDE DEF m
    <3>3. ASSUME NEW q \in Seq(CtlReqs), m \in CtlReqs
          PROVE  Append(q, m) \in Seq(CtlReqs) /\ Append(q, m) # <<>>
      BY <3>3, SMT
    <3>4. ctlNotify' \in Seq(CtlReqs) /\ ctlNotify' # <<>>
      BY <3>1, <3>2, <3>3 DEF m, Channels
    <3> QED BY <1>1, <2>1, <3>4 DEF Channels, ChannelsHold, PairMsgs, NoMsg
  <2> QED BY <1>3, <2>2, <2>3 DEF CtlAccept, handle_conn, pipes
<1> QED BY <1>2, <1>3 DEF ctl_thread

\* A worker passes its voter's requests on under the name it logged in with.
LEMMA SessionChannels ==
    ASSUME Channels, NEW v \in Voters, session_main(v) PROVE Channels'
<1>1. UNCHANGED <<adminQuit, ctlNotify, conn, reply, ready>>
  BY DEF session_main, SessionLogin, handle_request, SessionReplies, SessionEnds, pipes, adm, ctls
<1>2. \/ link' = link
      \/ \E m \in PairMsgs(v) : link' = [link EXCEPT ![v] = m]
  <2>1. CASE SessionLogin(v) \/ SessionEnds(v)
    BY <2>1 DEF SessionLogin, SessionEnds, Exit
  <2>2. CASE handle_request(v)
    BY <2>2, PairRequest DEF handle_request
  <2>3. CASE SessionReplies(v)
    BY <2>3 DEF SessionReplies, PairMsgs
  <2> QED BY <2>1, <2>2, <2>3 DEF session_main
<1>3. CASE link' = link
  BY <1>1, <1>3, NothingPassed
<1>4. CASE \E m \in PairMsgs(v) : link' = [link EXCEPT ![v] = m]
  <2>1. DOMAIN link' = Voters /\ \A u \in Voters : link'[u] \in PairMsgs(u)
    BY <1>4 DEF Channels, ChannelsHold
  <2> QED BY <1>1, <2>1 DEF Channels, ChannelsHold
<1> QED BY <1>2, <1>3, <1>4

\* The admin thread answers a request in the pair, or on the connection, it came from.
LEMMA AdminChannels == IInv /\ Channels /\ admin_thread => Channels'
<1> SUFFICES ASSUME IInv, Channels, admin_thread PROVE Channels'
  OBVIOUS
<1>1. adminQuit' = adminQuit
  BY DEF admin_thread, AdminPoll, AdminRegisters, handle_ctl_req, AdminServes, TeardownNew,
     TeardownCtl, TeardownTable, AdminFails, pipes
<1>2. CASE AdminPoll
  <2>1. UNCHANGED <<ctlNotify, link, reply, conn>>
    BY <1>2 DEF AdminPoll, pipes, wrk, ctls
  <2>2. "ctl" \in ready' => ctlNotify # <<>>
    <3>1. "ctl" \notin Range(table)
      BY RangeIn, BallotdAssumption DEF IInv, TypeOK
    <3> QED BY <1>2, <3>1 DEF AdminPoll, Sources, IInv, ChannelsHold
  <2> QED BY <1>1, <2>1, <2>2 DEF Channels, ChannelsHold, PairMsgs, NoMsg
<1>3. CASE AdminRegisters \/ AdminFails
  <2>1. UNCHANGED <<ctlNotify, link, reply, conn>> /\ ("ctl" \in ready' => "ctl" \in ready)
    BY <1>3 DEF AdminRegisters, AdminFails, pipes, wrk, ctls
  <2> QED BY <1>1, <2>1, NothingPassed
<1>4. CASE handle_ctl_req
  <2> DEFINE cr == Head(ctlNotify)
  <2>1. ctlNotify # <<>> /\ ctlNotify \in Seq(CtlReqs)
    BY <1>4 DEF handle_ctl_req, Channels, ChannelsHold
  <2>2. cr \in CtlReqs /\ ctlNotify' \in Seq(CtlReqs)
    BY <1>4, <2>1, RangeTail DEF handle_ctl_req
  <2>3. cr.fd \in Operators /\ cr.req.op \in CtlOps
    <3> HIDE DEF cr
    <3> QED BY <2>2, SMT DEF CtlReqs
  <2>4. PICK resp \in ballotd_dispatch(cr.req) :
          /\ conn' = [conn EXCEPT ![cr.fd] = IF Encodes(resp) THEN "answered" ELSE "closed"]
          /\ reply' = [reply EXCEPT ![cr.fd] = IF Encodes(resp) THEN resp ELSE NoMsg]
    BY <1>4 DEF handle_ctl_req
  <2>5. resp.call \in CtlCalls
    BY <2>3, Dispatched, Routes
  <2>6. \A o \in Operators : reply'[o].kind = "resp" => reply'[o].call \in CtlCalls
    BY <2>4, <2>5 DEF Channels, ChannelsHold, NoMsg
  <2>7. /\ conn' \in [Operators -> {"out", "connecting", "reading", "given up", "refused",
                                    "queued", "answered", "closed"}]
        /\ DOMAIN reply' = Operators
    BY <2>4 DEF Channels
  <2>8. "ctl" \in ready' => ctlNotify' # <<>>
    BY <1>4, <2>1, TailLeft DEF handle_ctl_req
  <2>9. link' = link
    BY <1>4 DEF handle_ctl_req, wrk
  <2> QED BY <1>1, <2>2, <2>6, <2>7, <2>8, <2>9 DEF Channels, ChannelsHold, PairMsgs, NoMsg
<1>5. CASE AdminServes
  <2>1. PICK i \in DOMAIN table :
          \/ link' = link
          \/ /\ link[table[i]].kind = "req"
             /\ \E resp \in ballotd_dispatch(link[table[i]].req) :
                   link' = [link EXCEPT ![table[i]] = resp]
    BY <1>5 DEF AdminServes
  <2>2. UNCHANGED <<ctlNotify, reply, conn>> /\ ("ctl" \in ready' => "ctl" \in ready)
    BY <1>5 DEF AdminServes, pipes, ctls
  <2>3. table[i] \in Voters
    <3>1. table[i] \in Range(table)
      BY DEF Range
    <3> QED BY <3>1, RangeIn DEF IInv, TypeOK
  <2>4. CASE link' = link
    BY <1>1, <2>2, <2>4, NothingPassed
  <2>5. CASE /\ link[table[i]].kind = "req"
             /\ \E resp \in ballotd_dispatch(link[table[i]].req) :
                   link' = [link EXCEPT ![table[i]] = resp]
    <3>1. link[table[i]].req \in [op : VoterOps, cert : {table[i]}]
      BY <2>3, <2>5, PairKinds DEF Channels, ChannelsHold
    <3>2. \E resp \in PairMsgs(table[i]) : link' = [link EXCEPT ![table[i]] = resp]
      BY <2>5, <3>1, PairReply
    <3>3. DOMAIN link' = Voters /\ \A u \in Voters : link'[u] \in PairMsgs(u)
      BY <2>3, <3>2 DEF Channels, ChannelsHold
    <3> QED BY <1>1, <2>2, <3>3 DEF Channels, ChannelsHold
  <2> QED BY <2>1, <2>4, <2>5
<1>6. CASE TeardownNew \/ TeardownTable
  <2>1. UNCHANGED <<ctlNotify, reply, conn, ready>>
    BY <1>6 DEF TeardownNew, TeardownTable, pipes, adm
  <2>2. link' = link \/ \E w : link' = [link EXCEPT ![w] = NoMsg]
    BY <1>6 DEF TeardownNew, TeardownTable, Terminate
  <2>3. DOMAIN link' = Voters /\ \A u \in Voters : link'[u] \in PairMsgs(u)
    BY <2>2 DEF Channels, ChannelsHold, PairMsgs
  <2> QED BY <1>1, <2>1, <2>3 DEF Channels, ChannelsHold
<1>7. CASE TeardownCtl
  <2>1. /\ ctlNotify # <<>> /\ ctlNotify' = Tail(ctlNotify) /\ UNCHANGED <<link, reply, ready>>
        /\ \E fd : conn' = [conn EXCEPT ![fd] = "closed"]
    BY <1>7 DEF TeardownCtl, wrk, adm
  <2>2. ctlNotify' \in Seq(CtlReqs)
    BY <2>1, RangeTail DEF Channels
  <2>3. ready = {}
    BY <1>7 DEF TeardownCtl, TearingDown, IInv, StopHolds
  <2>4. conn' \in [Operators -> {"out", "connecting", "reading", "given up", "refused",
                                 "queued", "answered", "closed"}]
    BY <2>1 DEF Channels
  <2> QED BY <1>1, <2>1, <2>2, <2>3, <2>4 DEF Channels, ChannelsHold, PairMsgs, NoMsg
<1> QED BY <1>2, <1>3, <1>4, <1>5, <1>6, <1>7 DEF admin_thread

----------------------------------------------------------------------------
(* The theorems.                                                            *)

\* IInv in its three parts.
LEMMA Parts == IInv <=> Registry /\ StopHolds /\ Channels
  BY DEF IInv, TypeOK, Registry, Channels

\* It holds when main() has created the threads.
LEMMA InitHolds == Init => IInv
<1> SUFFICES ASSUME Init PROVE IInv
  OBVIOUS
<1>1. Range(<<>>) = {} /\ IsInjective(<<>>) /\ \A S : <<>> \in Seq(S)
  <2>1. DOMAIN <<>> = {} /\ \A S : <<>> \in Seq(S)
    BY SMT
  <2> QED BY <2>1 DEF Range, IsInjective
<1>2. Len(<<>>) <= MAX_WORKERS
  BY BallotdAssumption, SMT
<1>3. Known = {None}
  BY <1>1 DEF Init, Known
<1>4. Registry
  BY <1>1, <1>2, <1>3, BallotdAssumption DEF Init, Registry, TableHolds, WorkersHold
<1>5. StopHolds
  BY DEF Init, StopHolds
<1>6. Channels
  BY <1>1 DEF Init, Channels, ChannelsHold, PairMsgs, NoMsg
<1> QED BY <1>4, <1>5, <1>6, Parts

\* Every step keeps it.
LEMMA StepHolds == IInv /\ [Next]_vars => IInv'
<1> SUFFICES ASSUME IInv, [Next]_vars PROVE IInv'
  OBVIOUS
<1>1. Registry'
  BY RegistryNext, Parts
<1>2. StopHolds'
  BY StopNext
<1>3. Channels'
  BY Parts, QuietChannels, CtlChannels, SessionChannels, AdminChannels DEF Next, Done
<1>4. Registry' /\ StopHolds' /\ Channels' => IInv'
  BY DEF IInv, TypeOK, Registry, Channels
<1> QED BY <1>1, <1>2, <1>3, <1>4

\* The invariant of ballotd: what the table, the pipes and the socket pairs hold while the
\* threads, the workers and the clients take their steps.
THEOREM DaemonInvariant == Spec => []IInv
  BY InitHolds, StepHolds, PTL DEF Spec

\* ballotd accounts for every worker it has forked (admin_thread, drop_worker,
\* admin_teardown, main), whatever the number of voters and of slots.
THEOREM WorkersAreAccounted == Spec => []WorkersAccounted
<1>1. IInv => WorkersAccounted
  <2> SUFFICES ASSUME IInv PROVE WorkersAccounted
    OBVIOUS
  <2>1. IsInjective(table \o notify)
    <3>1. ASSUME NEW r \in Seq(Voters) PROVE Len(r) \in 0..Len(r) /\ SubSeq(r, 1, Len(r)) = r
      BY SMT
    <3>2. table \in Seq(Voters) /\ notify \in Seq(Voters)
      BY DEF IInv, TypeOK
    <3>3. IsInjective(table \o SubSeq(notify, 1, Len(notify)))
      BY <3>1, <3>2, RangeJoin DEF IInv, TableHolds
    <3> QED BY <3>1, <3>2, <3>3
  <2>2. ASSUME main = "exited", admin = "exited"
        PROVE  /\ fresh = None /\ notify = <<>> /\ ctlNotify = <<>> /\ table = <<>>
               /\ \A v \in Voters : worker[v] \in {"none", "reaped"} \/ v \in dropped
               /\ \A o \in Operators : conn[o] \notin {"connecting", "reading"}
    <3>1. /\ fresh = None /\ notify = <<>> /\ ctlNotify = <<>> /\ table = <<>>
          /\ \A o \in Operators : conn[o] \notin {"connecting", "reading"}
      BY <2>2 DEF IInv, StopHolds
    <3>2. Range(<<>>) = {}
      <4>1. DOMAIN <<>> = {}
        BY SMT
      <4> QED BY <4>1 DEF Range
    <3>3. \A v \in Voters : v \notin Known
      BY <3>1, <3>2, BallotdAssumption DEF Known
    <3> QED BY <3>1, <3>3 DEF IInv, WorkersHold
  <2> QED BY <2>1, <2>2 DEF WorkersAccounted, IInv, TableHolds, Known
<1> QED BY <1>1, DaemonInvariant, PTL

\* A voter connection makes the voter's calls only, under the name it logged in with, and
\* the control socket the operator's (handle_request, handle_conn, ballotd_dispatch).
THEOREM VotersActAsThemselves == Spec => []ActsAsItself
<1>1. IInv => ActsAsItself
  BY PairKinds DEF IInv, ChannelsHold, ActsAsItself
<1> QED BY <1>1, DaemonInvariant, PTL
============================================================================
