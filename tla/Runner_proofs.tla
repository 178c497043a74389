--------------------------- MODULE Runner_proofs ---------------------------
(***************************************************************************)
(* Proofs that one runner at a time has a data directory open, that a      *)
(* started runner can be stopped, that a stop that succeeds has stopped it *)
(* and that a runner serves whole tables, for any invocations of tetrisdb  *)
(* and ballotd and any interleaving of their steps, failures and kills.    *)
(***************************************************************************)
EXTENDS RunnerProps, FiniteSetTheorems, TLAPS

\* A leaf is for Zenon, unless it names another prover.
USE ZenonT(40)

(* While a command has the lock nobody else's JVM is alive. *)
LEMMA LockedAlone ==
    ASSUME IInv, NEW c \in Cmds, Held(c) \in holders
    PROVE  \A d \in Alive : d = c
BY DEF IInv, OneHolder, HoldersTrue, Held, Alive, Starts

(* While nobody has the lock no JVM is alive. *)
LEMMA FreeMeansNone == IInv /\ holders = {} => Alive = {}
BY DEF IInv, HoldersTrue, Alive, Starts

(* The initial state satisfies the inductive invariant. *)
LEMMA InitHolds == Init => IInv
BY SMT DEF Init, IInv, TypeOK, Places, PlacesFit, StartOnly, OneHolder, HoldersTrue, Locked, PidStays,
       Alive, Starts, Absent

(* Every step of a command, of a JVM or of a kill preserves it. *)
LEMMA NextPreserves == IInv /\ [Next]_vars => IInv'
<1> SUFFICES ASSUME IInv, [Next]_vars PROVE IInv'
  OBVIOUS
<1> USE CmdsAssumption DEF IInv, TypeOK, PlacesFit, StartOnly, OneHolder, HoldersTrue, Locked,
        PidStays, Alive, Starts, Absent, Empty, Held
<1>1. ASSUME NEW c \in Cmds, db_runner_lock(c) PROVE IInv'
  <2>1. TypeOK' /\ PlacesFit' /\ OneHolder'
    BY <1>1, SMT DEF Places, files, db_runner_lock, open_lock, Goes, Ends
  <2>2. HoldersTrue' /\ PidStays'
    BY <1>1, FreeMeansNone, SMT DEF files, db_runner_lock, open_lock, Goes, Ends
  <2>. QED BY <2>1, <2>2
<1>2. ASSUME NEW c \in Cmds, acquire_lock(c) PROVE IInv'
  <2>1. TypeOK' /\ PlacesFit' /\ OneHolder'
    BY <1>2, SMT DEF Places, files, acquire_lock, Fault, Goes, Ends, Release
  <2>2. HoldersTrue'
    BY <1>2, SMT DEF files, acquire_lock, Fault, Goes, Ends, Release
  <2>3. \A d \in Alive : d = c
    BY <1>2, LockedAlone DEF acquire_lock
  <2>4. PidStays'
    BY <1>2, <2>3, SMT DEF files, acquire_lock, Fault, Goes, Ends, Release
  <2>. QED BY <2>1, <2>2, <2>4
<1>3. ASSUME NEW c \in Cmds, create_dat(c) PROVE IInv'
  <2>1. TypeOK' /\ PlacesFit' /\ OneHolder'
    BY <1>3, SMT DEF Places, files, create_dat, GivesUp, Fault, Goes, Ends, Release
  <2>2. HoldersTrue' /\ PidStays'
    BY <1>3, FreeMeansNone, SMT DEF files, create_dat, GivesUp, Fault, Goes, Ends, Release
  <2>. QED BY <2>1, <2>2
<1>4. ASSUME NEW c \in Cmds, write_empty_page(c) PROVE IInv'
  <2>1. TypeOK' /\ PlacesFit' /\ OneHolder'
    BY <1>4, SMT DEF Places, files, write_empty_page, remove_half, GivesUp, Fault, Goes, Ends, Release
  <2>2. HoldersTrue' /\ PidStays'
    BY <1>4, FreeMeansNone, SMTT(20) DEF files, write_empty_page, remove_half, GivesUp, Fault, Goes, Ends, Release
  <2>. QED BY <2>1, <2>2
<1>5. ASSUME NEW c \in Cmds, declare(c) PROVE IInv'
  <2>1. TypeOK' /\ PlacesFit' /\ OneHolder'
    BY <1>5, SMTT(20) DEF Places, files, declare, GivesUp, Fault, Goes, Ends, Release
  <2>2. HoldersTrue' /\ PidStays'
    BY <1>5, FreeMeansNone, SMTT(20) DEF files, declare, GivesUp, Fault, Goes, Ends, Release
  <2>. QED BY <2>1, <2>2
<1>6. ASSUME NEW c \in Cmds, make_secret(c) PROVE IInv'
  <2>1. TypeOK' /\ PlacesFit' /\ OneHolder'
    BY <1>6, SMT DEF Places, files, make_secret, GivesUp, Fault, Goes, Ends, Release
  <2>2. HoldersTrue' /\ PidStays'
    BY <1>6, FreeMeansNone, SMTT(20) DEF files, make_secret, GivesUp, Fault, Goes, Ends, Release
  <2>. QED BY <2>1, <2>2
<1>7. ASSUME NEW c \in Cmds, fill_secret(c) PROVE IInv'
  <2>1. TypeOK' /\ PlacesFit' /\ OneHolder'
    BY <1>7, SMTT(20) DEF Places, files, fill_secret, GivesUp, Fault, Goes, Ends, Release
  <2>2. HoldersTrue' /\ PidStays'
    BY <1>7, FreeMeansNone, SMTT(20) DEF files, fill_secret, GivesUp, Fault, Goes, Ends, Release
  <2>. QED BY <2>1, <2>2
<1>8. ASSUME NEW c \in Cmds, check_secret(c) PROVE IInv'
  <2>1. TypeOK' /\ PlacesFit' /\ OneHolder'
    BY <1>8, SMT DEF Places, files, check_secret, secret_open, Goes, Ends, Release, GivesUp, Fault
  <2>2. HoldersTrue' /\ PidStays'
    BY <1>8, FreeMeansNone, SMT DEF files, check_secret, secret_open, Goes, Ends, Release, GivesUp, Fault
  <2>. QED BY <2>1, <2>2
<1>9. ASSUME NEW c \in Cmds, db_runner_spawn(c) PROVE IInv'
  <2>1. CASE GivesUp(c) /\ UNCHANGED jvm
    BY <1>9, <2>1, SMT DEF Places, files, db_runner_spawn, GivesUp, Fault, Ends, Release
  <2>2. CASE /\ jvm' = [jvm EXCEPT ![c] = "booting"] /\ holders' = inherited(c)
             /\ Goes(c, "record")
    <3>1. TypeOK' /\ PlacesFit'
      BY <1>9, <2>2, SMT DEF Places, files, db_runner_spawn, inherited, Goes
    <3>2. Kind[c] = "start" /\ <<"cmd", c>> \in holders
      BY <1>9 DEF db_runner_spawn
    <3>3. OneHolder'
      BY <2>2, <3>2 DEF inherited
    <3>4. HoldersTrue'
      BY <1>9, <2>2, <3>2, SMTT(20) DEF files, db_runner_spawn, inherited, Goes
    <3>5. PidStays'
      BY <1>9, <2>2, SMTT(20) DEF files, db_runner_spawn, Goes
    <3>. QED BY <3>1, <3>3, <3>4, <3>5
  <2>. QED BY <1>9, <2>1, <2>2 DEF db_runner_spawn
<1>10. ASSUME NEW c \in Cmds, record_pid(c) PROVE IInv'
  <2>1. TypeOK' /\ PlacesFit' /\ OneHolder'
    BY <1>10, SMT DEF Places, files, record_pid, Fault, Goes
  <2>2. HoldersTrue'
    BY <1>10, SMT DEF files, record_pid, Fault, Goes
  <2>3. \A d \in Alive : d = c
    BY <1>10, LockedAlone DEF record_pid
  <2>4. PidStays'
    BY <1>10, <2>3, SMTT(20) DEF files, record_pid, Fault, Goes
  <2>. QED BY <2>1, <2>2, <2>4
<1>11. ASSUME NEW c \in Cmds, db_runner_wait(c) PROVE IInv'
  <2>1. TypeOK' /\ PlacesFit' /\ OneHolder'
    BY <1>11, SMT DEF Places, files, db_runner_wait, overdue, Ends, Goes, Release
  <2>2. HoldersTrue' /\ PidStays'
    BY <1>11, FreeMeansNone, SMTT(20) DEF files, db_runner_wait, overdue, Ends, Goes, Release
  <2>. QED BY <2>1, <2>2
<1>12. ASSUME NEW c \in Cmds, stop_failed_child(c) PROVE IInv'
  <2>1. TypeOK' /\ PlacesFit' /\ OneHolder'
    BY <1>12, SMTT(20) DEF Places, files, stop_failed_child
  <2>2. HoldersTrue' /\ PidStays'
    BY <1>12, FreeMeansNone, SMTT(20) DEF files, stop_failed_child
  <2>. QED BY <2>1, <2>2
<1>13. ASSUME NEW c \in Cmds, fail_locked(c) PROVE IInv'
  <2>1. TypeOK' /\ PlacesFit' /\ OneHolder'
    BY <1>13, SMTT(20) DEF Places, files, fail_locked, Ends, Release
  <2>2. HoldersTrue'
    BY <1>13, SMT DEF files, fail_locked, Ends, Release
  <2>3. \A d \in Alive : d = c
    BY <1>13, LockedAlone DEF fail_locked
  <2>4. PidStays'
    BY <1>13, <2>3, SMTT(20) DEF files, fail_locked, Ends, Release
  <2>. QED BY <2>1, <2>2, <2>4
<1>14. ASSUME NEW c \in Cmds, stop(c) PROVE IInv'
  <2>1. TypeOK' /\ PlacesFit' /\ OneHolder'
    BY <1>14, SMTT(20) DEF Places, files, stop, Goes, Ends
  <2>2. HoldersTrue' /\ PidStays'
    BY <1>14, FreeMeansNone, SMTT(20) DEF files, stop, Goes, Ends
  <2>. QED BY <2>1, <2>2
<1>15. ASSUME NEW c \in Cmds, clear_pid(c) PROVE IInv'
  <2>1. TypeOK' /\ PlacesFit' /\ OneHolder'
    BY <1>15, SMTT(20) DEF Places, files, clear_pid, GivesUp, Fault, Ends, Release
  <2>2. HoldersTrue'
    BY <1>15, SMT DEF files, clear_pid, GivesUp, Fault, Ends, Release
  <2>3. \A d \in Alive : d = c
    BY <1>15, LockedAlone DEF clear_pid
  <2>4. PidStays'
    BY <1>15, <2>3, SMTT(20) DEF files, clear_pid, GivesUp, Fault, Ends, Release
  <2>. QED BY <2>1, <2>2, <2>4
<1>16. ASSUME NEW c \in Cmds, read_lock_pid(c) PROVE IInv'
  <2>1. TypeOK' /\ PlacesFit' /\ OneHolder'
    BY <1>16, SMTT(20) DEF Places, files, read_lock_pid, Goes, Ends
  <2>2. HoldersTrue' /\ PidStays'
    BY <1>16, FreeMeansNone, SMTT(20) DEF files, read_lock_pid, Goes, Ends
  <2>. QED BY <2>1, <2>2
<1>17. ASSUME NEW c \in Cmds, kill(c) PROVE IInv'
  <2>1. TypeOK' /\ PlacesFit' /\ OneHolder'
    BY <1>17, SMTT(20) DEF Places, files, kill, Goes, Ends
  <2>2. HoldersTrue' /\ PidStays'
    BY <1>17, FreeMeansNone, SMTT(20) DEF files, kill, Goes, Ends
  <2>. QED BY <2>1, <2>2
<1>18. ASSUME NEW c \in Cmds, poll(c) PROVE IInv'
  <2>1. TypeOK' /\ PlacesFit' /\ OneHolder' /\ PidStays'
    BY <1>18, SMTT(20) DEF Places, files, poll, Goes, Ends
  <2>2. HoldersTrue'
    BY <1>18, FreeMeansNone, SMTT(20) DEF files, poll, Goes, Ends
  <2>. QED BY <2>1, <2>2
<1>19. ASSUME NEW c \in Cmds, Kill(c) PROVE IInv'
  <2>1. TypeOK' /\ PlacesFit' /\ OneHolder'
    BY <1>19 DEF Places, files, Kill, Ends, Release
  <2>2. HoldersTrue' /\ PidStays'
    BY <1>19, FreeMeansNone, SMTT(20) DEF files, Kill, Ends, Release
  <2>. QED BY <2>1, <2>2
<1>20. ASSUME NEW c \in Starts, Boot(c) PROVE IInv'
  <2>1. TypeOK' /\ PlacesFit' /\ OneHolder'
    BY <1>20 DEF Places, files, Boot, cvars
  <2>2. HoldersTrue' /\ PidStays'
    BY <1>20, FreeMeansNone DEF files, Boot, cvars
  <2>. QED BY <2>1, <2>2
<1>21. ASSUME NEW c \in Starts, Exit(c) PROVE IInv'
  <2>1. TypeOK' /\ PlacesFit' /\ OneHolder'
    BY <1>21 DEF Places, files, Exit, cvars
  <2>2. HoldersTrue' /\ PidStays'
    BY <1>21, FreeMeansNone DEF files, Exit, cvars
  <2>. QED BY <2>1, <2>2
<1>22. CASE UNCHANGED vars
  BY <1>22 DEF vars, cvars, Places
<1>. QED
  BY <1>1, <1>2, <1>3, <1>4, <1>5, <1>6, <1>7, <1>8, <1>9, <1>10, <1>11, <1>12, <1>13, <1>14,
     <1>15, <1>16, <1>17, <1>18, <1>19, <1>20, <1>21, <1>22 DEF Next, Cmd

(* IInv holds in every reachable state. *)
LEMMA Invariance == Spec => []IInv
BY InitHolds, NextPreserves, PTL DEF Spec

(* At most one JVM has the data directory open, and never without the lock that
   db_runner_lock took and db_runner_spawn handed on. *)
THEOREM RunnerAlone == Spec => []OneRunner
<1>1. IInv => OneRunner
  <2> SUFFICES ASSUME IInv PROVE OneRunner
    OBVIOUS
  <2>1. \A c, d \in Alive : c = d
    BY DEF IInv, OneHolder, HoldersTrue, Alive, Starts
  <2>2. CASE Alive = {}
    BY <2>2, FS_EmptySet, SMT DEF OneRunner
  <2>3. CASE Alive # {}
    <3>1. PICK c \in Alive : TRUE
      BY <2>3
    <3>2. Alive = {c}
      BY <2>1, <3>1
    <3>3. holders # {}
      BY <3>1 DEF IInv, HoldersTrue, Alive, Starts
    <3>. QED BY <3>2, <3>3, FS_Singleton, SMT DEF OneRunner
  <2>. QED BY <2>2, <2>3
<1>. QED BY <1>1, Invariance, PTL

(* A runner a start reported as started stays stoppable: the lock file names its
   pid until it is told to end (record_pid; nobody clears it without the lock). *)
THEOREM Stoppable == Spec => []RunnerStoppable
<1>1. IInv => RunnerStoppable
  BY DEF IInv, PidStays, RunnerStoppable
<1>. QED BY <1>1, Invariance, PTL

(* When a stop reports success no JVM is alive (stop, clear_pid). *)
THEOREM StoppedIsStopped == Spec => StoppedMeansStopped
<1>1. ASSUME IInv, [Next]_vars
      PROVE  [\A c \in Cmds : Kind[c] = "stop" /\ result[c] # "ok" /\ result'[c] = "ok" => Alive' = {}]_vars
  <2> SUFFICES ASSUME NEW c \in Cmds, Kind[c] = "stop", result[c] # "ok", result'[c] = "ok", Next
               PROVE  Alive' = {}
    BY <1>1 DEF vars, cvars
  <2>1. stop(c) \/ clear_pid(c)
    <3>1. PICK d \in Cmds : Cmd(d) \/ Kill(d)
      BY DEF Next, Boot, Exit, cvars
    <3>2. result' = result \/ \E r \in {"ok", "failed", "killed"} : result' = [result EXCEPT ![d] = r]
      BY <3>1 DEF Cmd, db_runner_lock, acquire_lock, create_dat, write_empty_page, declare,
         make_secret, fill_secret, check_secret, db_runner_spawn, record_pid, db_runner_wait,
         stop_failed_child, fail_locked, stop, clear_pid, read_lock_pid, kill, poll, Kill,
         GivesUp, Goes, Ends
    <3>3. d = c
      BY <1>1, <3>2 DEF IInv, TypeOK
    <3>. QED
      BY <1>1, <3>1, <3>3 DEF Cmd, db_runner_lock, acquire_lock, create_dat, write_empty_page,
         declare, make_secret, fill_secret, check_secret, db_runner_spawn, record_pid,
         db_runner_wait, stop_failed_child, fail_locked, read_lock_pid, kill, poll, Kill, GivesUp,
         Goes, Ends, IInv, TypeOK, PlacesFit, StartOnly
  <2>2. CASE stop(c)
    BY <1>1, <2>2, FreeMeansNone DEF stop, Goes, Alive, IInv, HoldersTrue
  <2>3. CASE clear_pid(c)
    BY <1>1, <2>3, LockedAlone DEF clear_pid, IInv, HoldersTrue, Locked, Alive, Starts
  <2>. QED BY <2>1, <2>2, <2>3
<1>. QED BY <1>1, Invariance, PTL DEF Spec, StoppedMeansStopped

-----------------------------------------------------------------------------
(* What a runner serves. *)

(* No two invocations provision the same table at the same time: two starts
   would both have the lock, and there is one ballotd. *)
LEMMA TableAlone ==
    ASSUME IInv, OneBallotd, NEW c \in Cmds, NEW d \in Cmds, Mine(c) = Mine(d),
           pc[c] \in {"create", "page", "catalog"} \/ (pc[c] = "begin" /\ Kind[c] = "ballotd"),
           pc[d] \in {"page", "catalog"}
    PROVE  c = d
<1>1. /\ Kind[c] \in {"start", "ballotd"} /\ Kind[d] \in {"start", "ballotd"}
      /\ Kind[c] = "start" => pc[c] \notin {"begin", "done"}
  BY DEF IInv, PlacesFit, StartOnly
<1>2. CASE Kind[c] = "start"
  <2>1. Kind[d] = "start"
    BY <1>1, <1>2 DEF Mine
  <2>2. Held(c) \in holders /\ Held(d) \in holders
    BY <1>1, <1>2, <2>1 DEF IInv, HoldersTrue, Locked
  <2> QED BY <2>2 DEF IInv, OneHolder, Held
<1>3. CASE Kind[c] = "ballotd"
  <2>1. Kind[d] = "ballotd"
    BY <1>1, <1>3 DEF Mine
  <2> QED BY <1>3, <2>1 DEF OneBallotd
<1> QED BY <1>1, <1>2, <1>3

(* The tables of the commands. *)
LEMMA MineTable == \A c \in Cmds : Mine(c) \in Tables
  BY DEF Mine, Tables

(* A step that moves no command onto or off a page and touches no table. *)
LEMMA TablesStay ==
    ASSUME TablesHold, UNCHANGED <<dat, cat, torn>>,
           \A c \in Cmds : /\ pc'[c] = "page" <=> pc[c] = "page"
                           /\ pc'[c] = "catalog" => pc[c] = "catalog"
    PROVE  TablesHold'
  BY SMT DEF TablesHold, Mine

(* Provisioning: the heap file. *)
LEMMA CreateKeeps ==
    ASSUME IInv, FInv, OneBallotd, NEW c \in Cmds, create_dat(c) PROVE TablesHold'
<1>1. UNCHANGED <<cat, torn>> /\ pc \in [Cmds -> Places] /\ dat \in [Tables -> {"none", "half", "whole"}]
  BY DEF create_dat, IInv, TypeOK, FInv, FilesTypeOK
<1>2. TablesHold /\ Mine(c) \in Tables
  BY MineTable DEF FInv
<1>3. pc[c] \in {"create", "page", "catalog"} \/ (pc[c] = "begin" /\ Kind[c] = "ballotd")
  BY DEF create_dat
<1>4. pc[c] \notin {"page", "catalog"}
  BY DEF create_dat
<1>5. CASE /\ dat[Mine(c)] = "none" /\ dat' = [dat EXCEPT ![Mine(c)] = "half"]
           /\ Goes(c, "page")
  BY <1>1, <1>2, <1>4, <1>5, SMT DEF TablesHold, Goes, Mine
<1>6. CASE dat[Mine(c)] # "none" /\ Goes(c, "catalog") /\ UNCHANGED dat
  <2>1. Mine(c) \notin torn => dat[Mine(c)] = "whole"
    <3>1. ASSUME Mine(c) \notin torn, dat[Mine(c)] = "half" PROVE FALSE
      BY <1>2, <1>3, <1>4, <3>1, TableAlone DEF TablesHold
    <3> QED BY <1>1, <1>2, <1>6, <3>1
  <2>2. \A d \in Cmds : pc'[d] = IF d = c THEN "catalog" ELSE pc[d]
    BY <1>1, <1>6 DEF Goes
  <2> QED BY <1>1, <1>2, <1>4, <1>6, <2>1, <2>2, SMT DEF TablesHold, Mine
<1>7. CASE GivesUp(c) /\ UNCHANGED dat
  BY <1>1, <1>2, <1>4, <1>7, TablesStay DEF GivesUp, Ends
<1> QED BY <1>5, <1>6, <1>7 DEF create_dat

(* Its page. *)
LEMMA PageKeeps ==
    ASSUME IInv, FInv, OneBallotd, NEW c \in Cmds, write_empty_page(c) PROVE TablesHold'
<1>1. /\ UNCHANGED <<cat, torn>> /\ pc[c] = "page" /\ pc \in [Cmds -> Places]
      /\ dat \in [Tables -> {"none", "half", "whole"}]
  BY DEF write_empty_page, IInv, TypeOK, FInv, FilesTypeOK
<1>2. TablesHold /\ Mine(c) \in Tables
  BY MineTable DEF FInv
<1>3. \A d \in Cmds : Mine(d) = Mine(c) /\ pc[d] \in {"page", "catalog"} => d = c
  BY <1>1, TableAlone
<1>4. \E to \in {"catalog", "done"}, x \in {"whole", "none"} :
        /\ dat' = [dat EXCEPT ![Mine(c)] = x] /\ pc' = [pc EXCEPT ![c] = to]
        /\ to = "catalog" => x = "whole"
  BY DEF write_empty_page, remove_half, GivesUp, Goes, Ends
<1>5. PICK to \in {"catalog", "done"}, x \in {"whole", "none"} :
        /\ \A t \in Tables : dat'[t] = IF t = Mine(c) THEN x ELSE dat[t]
        /\ \A d \in Cmds : pc'[d] = IF d = c THEN to ELSE pc[d]
        /\ to = "catalog" => x = "whole"
  BY <1>1, <1>2, <1>4
<1>6. \A t \in Tables \ torn : /\ cat[t] # "none" => dat'[t] = "whole"
                               /\ dat'[t] = "half" => \E d \in Cmds : pc'[d] = "page" /\ Mine(d) = t
  BY <1>1, <1>2, <1>5, SMT DEF TablesHold
<1>7. \A d \in Cmds : Mine(d) \notin torn =>
          /\ pc'[d] = "page" => dat'[Mine(d)] = "half" /\ cat[Mine(d)] = "none"
          /\ pc'[d] = "catalog" => dat'[Mine(d)] = "whole"
  BY <1>2, <1>3, <1>5, MineTable, SMT DEF TablesHold
<1> QED BY <1>1, <1>6, <1>7, SMT DEF TablesHold, Mine

(* Its line in the catalog. *)
LEMMA DeclareKeeps ==
    ASSUME IInv, FInv, OneBallotd, NEW c \in Cmds, declare(c) PROVE TablesHold'
<1>1. /\ UNCHANGED <<dat, torn>> /\ pc[c] = "catalog" /\ pc \in [Cmds -> Places]
      /\ cat \in [Tables -> {"none", "half", "whole"}]
  BY DEF declare, IInv, TypeOK, FInv, FilesTypeOK
<1>2. TablesHold /\ Mine(c) \in Tables
  BY MineTable DEF FInv
<1>3. \A d \in Cmds : Mine(d) = Mine(c) /\ pc[d] \in {"page", "catalog"} => d = c
  BY <1>1, TableAlone
<1>4. \E to \in {"secret", "done"} : \A d \in Cmds : pc'[d] = IF d = c THEN to ELSE pc[d]
  BY <1>1 DEF declare, GivesUp, Goes, Ends
<1>5. \A t \in Tables : t # Mine(c) => cat'[t] = cat[t]
  BY <1>1 DEF declare
<1>6. \A t \in Tables \ torn : /\ cat'[t] # "none" => dat[t] = "whole"
                               /\ dat[t] = "half" => \E d \in Cmds : pc'[d] = "page" /\ Mine(d) = t
  BY <1>1, <1>2, <1>4, <1>5, SMT DEF TablesHold
<1>7. \A d \in Cmds : Mine(d) \notin torn =>
          /\ pc'[d] = "page" => dat[Mine(d)] = "half" /\ cat'[Mine(d)] = "none"
          /\ pc'[d] = "catalog" => dat[Mine(d)] = "whole"
  BY <1>1, <1>2, <1>3, <1>4, <1>5, MineTable, SMTT(20) DEF TablesHold
<1> QED BY <1>1, <1>6, <1>7, SMT DEF TablesHold, Mine

(* A kill tears the table whose page it interrupts. *)
LEMMA KillKeeps ==
    ASSUME IInv, FInv, NEW c \in Cmds, Kill(c) PROVE TablesHold'
<1>1. /\ UNCHANGED <<dat, cat>> /\ pc \in [Cmds -> Places]
      /\ torn' = IF pc[c] = "page" THEN torn \cup {Mine(c)} ELSE torn
      /\ pc' = [pc EXCEPT ![c] = "done"]
  BY DEF Kill, Ends, files, IInv, TypeOK
<1>2. \A d \in Cmds : pc'[d] = IF d = c THEN "done" ELSE pc[d]
  BY <1>1
<1> QED BY <1>1, <1>2, SMT DEF FInv, TablesHold, Mine

(* The other steps leave the tables and the commands at work on them alone. *)
LEMMA TablesNext == IInv /\ FInv /\ OneBallotd /\ [Next]_vars => TablesHold'
<1> SUFFICES ASSUME IInv, FInv, OneBallotd, [Next]_vars PROVE TablesHold'
  OBVIOUS
<1>t. pc \in [Cmds -> Places] /\ TablesHold
  BY DEF IInv, TypeOK, FInv
<1>1. ASSUME NEW c \in Cmds, UNCHANGED <<dat, cat, torn>>, pc[c] \notin {"page", "catalog"},
             \E to : pc' = [pc EXCEPT ![c] = to] /\ to \notin {"page", "catalog"}
      PROVE  TablesHold'
  <2>1. PICK to : pc' = [pc EXCEPT ![c] = to] /\ to \notin {"page", "catalog"}
    BY <1>1
  <2>2. \A d \in Cmds : /\ pc'[d] = "page" <=> pc[d] = "page"
                        /\ pc'[d] = "catalog" => pc[d] = "catalog"
    BY <1>t, <1>1, <2>1
  <2> QED BY <1>t, <1>1, <2>2, TablesStay
<1>2. ASSUME NEW c \in Cmds, db_runner_lock(c) \/ acquire_lock(c) \/ make_secret(c) \/ fill_secret(c)
      PROVE  TablesHold'
  BY <1>1, <1>2 DEF db_runner_lock, acquire_lock, make_secret, fill_secret, files, GivesUp, Goes, Ends
<1>3. ASSUME NEW c \in Cmds, check_secret(c) \/ db_runner_spawn(c) \/ record_pid(c)
      PROVE  TablesHold'
  BY <1>1, <1>3 DEF check_secret, db_runner_spawn, record_pid, files, GivesUp, Goes, Ends
<1>4. ASSUME NEW c \in Cmds, db_runner_wait(c) \/ stop_failed_child(c) \/ fail_locked(c)
      PROVE  TablesHold'
  <2>1. UNCHANGED <<dat, cat, torn>> /\ pc[c] \notin {"page", "catalog"}
    BY <1>4 DEF db_runner_wait, stop_failed_child, fail_locked, files
  <2>2. \E to \in {"reap", "close", "clearpid", "done"} : pc' = [pc EXCEPT ![c] = to]
    BY <1>4 DEF db_runner_wait, stop_failed_child, fail_locked, Goes, Ends
  <2> QED BY <1>1, <2>1, <2>2
<1>5. ASSUME NEW c \in Cmds, stop(c) \/ clear_pid(c) \/ read_lock_pid(c) \/ kill(c) \/ poll(c)
      PROVE  TablesHold'
  <2>1. UNCHANGED <<dat, cat, torn>> /\ pc[c] \notin {"page", "catalog"}
    BY <1>5 DEF stop, clear_pid, read_lock_pid, kill, poll, files
  <2>2. \E to \in {"clear", "read", "kill", "poll", "done"} : pc' = [pc EXCEPT ![c] = to]
    BY <1>5 DEF stop, clear_pid, read_lock_pid, kill, poll, GivesUp, Goes, Ends
  <2> QED BY <1>1, <2>1, <2>2
<1>6. ASSUME NEW c \in Cmds, Cmd(c) \/ Kill(c)
      PROVE  TablesHold'
  BY <1>2, <1>3, <1>4, <1>5, <1>6, CreateKeeps, PageKeeps, DeclareKeeps, KillKeeps DEF Cmd
<1>7. CASE (\E c \in Starts : Boot(c) \/ Exit(c)) \/ UNCHANGED vars
  <2>1. UNCHANGED <<dat, cat, torn, pc>>
    BY <1>7 DEF Boot, Exit, vars, cvars, files
  <2> QED BY <1>t, <2>1, TablesStay
<1> QED BY <1>6, <1>7 DEF Next

(* A catalog line, once there, and a whole secret stay. *)
FilesGrow ==
    /\ \A t \in Tables : cat[t] # "none" => cat'[t] = cat[t]
    /\ secret = "whole" => secret' = "whole"

(* The commands keep the files' types and take nothing away. *)
LEMMA FilesNext == FInv /\ [Next]_vars => FilesTypeOK' /\ FilesGrow
<1> SUFFICES ASSUME FInv, [Next]_vars PROVE FilesTypeOK' /\ FilesGrow
  OBVIOUS
<1>t. FilesTypeOK
  BY DEF FInv
<1>1. CASE UNCHANGED <<dat, cat, secret>> /\ served' \in [Starts -> SUBSET Tables]
  BY <1>t, <1>1 DEF FilesTypeOK, FilesGrow
<1>2. ASSUME NEW c \in Cmds, create_dat(c) \/ write_empty_page(c)
      PROVE  FilesTypeOK' /\ FilesGrow
  <2>1. /\ UNCHANGED <<cat, secret, served>>
        /\ dat' = dat \/ (\E x \in {"none", "half", "whole"} : dat' = [dat EXCEPT ![Mine(c)] = x])
    BY <1>2 DEF create_dat, write_empty_page, remove_half
  <2> QED BY <1>t, <2>1 DEF FilesTypeOK, FilesGrow
<1>3. ASSUME NEW c \in Cmds, declare(c)
      PROVE  FilesTypeOK' /\ FilesGrow
  <2>1. /\ UNCHANGED <<dat, secret, served>>
        /\ \/ cat' = cat
           \/ cat[Mine(c)] = "none" /\ \E x \in {"none", "half", "whole"} : cat' = [cat EXCEPT ![Mine(c)] = x]
    BY <1>3 DEF declare
  <2> QED BY <1>t, <2>1 DEF FilesTypeOK, FilesGrow
<1>4. ASSUME NEW c \in Cmds, make_secret(c) \/ fill_secret(c)
      PROVE  FilesTypeOK' /\ FilesGrow
  <2>1. /\ UNCHANGED <<dat, cat, served>> /\ secret' \in {secret, "half", "whole"}
        /\ secret = "whole" => secret' = "whole"
    BY <1>4 DEF make_secret, fill_secret
  <2> QED BY <1>t, <2>1 DEF FilesTypeOK, FilesGrow
<1>5. ASSUME NEW c \in Cmds, Cmd(c) \/ Kill(c)
      PROVE  FilesTypeOK' /\ FilesGrow
  <2>1. CASE create_dat(c) \/ write_empty_page(c) \/ declare(c) \/ make_secret(c) \/ fill_secret(c)
    BY <1>2, <1>3, <1>4, <2>1
  <2>2. CASE \/ db_runner_lock(c) \/ acquire_lock(c) \/ check_secret(c) \/ db_runner_spawn(c)
             \/ record_pid(c) \/ db_runner_wait(c) \/ stop_failed_child(c) \/ fail_locked(c)
             \/ stop(c) \/ clear_pid(c) \/ read_lock_pid(c) \/ kill(c) \/ poll(c) \/ Kill(c)
    <3>1. UNCHANGED <<dat, cat, secret, served>>
      BY <2>2 DEF files, db_runner_lock, acquire_lock, check_secret, db_runner_spawn, record_pid,
         db_runner_wait, stop_failed_child, fail_locked, stop, clear_pid, read_lock_pid, kill, poll,
         Kill
    <3> QED BY <1>t, <1>1, <3>1 DEF FilesTypeOK
  <2> QED BY <1>5, <2>1, <2>2 DEF Cmd
<1>6. CASE \E c \in Starts : Boot(c)
  <2>1. /\ UNCHANGED <<dat, cat, secret>>
        /\ \E c : served' = [served EXCEPT ![c] = {t \in Tables : cat[t] = "whole"}]
    BY <1>6 DEF Boot, files
  <2> QED BY <1>t, <1>1, <2>1 DEF FilesTypeOK
<1>7. CASE (\E c \in Starts : Exit(c)) \/ UNCHANGED vars
  <2>1. UNCHANGED <<dat, cat, secret, served>>
    BY <1>7 DEF Exit, vars, files
  <2> QED BY <1>t, <1>1, <2>1 DEF FilesTypeOK
<1> QED BY <1>5, <1>6, <1>7 DEF Next

(* Steps that go on from where the files are. *)
LEMMA SpawnStays ==
    ASSUME FInv, FilesGrow, served' = served,
           \A c \in Starts :
             /\ pc'[c] \in Declared => pc[c] \in Declared \/ jvm[c] # "unborn"
             /\ pc'[c] \in Sealed => pc[c] \in Sealed \/ jvm[c] # "unborn"
             /\ jvm'[c] # "unborn" => pc[c] \in Sealed \/ jvm[c] # "unborn"
             /\ jvm'[c] = "listening" => jvm[c] = "listening"
    PROVE  SpawnHolds'
<1>1. "users" \in Tables /\ \A c \in Starts : served[c] \subseteq Tables
  BY DEF FInv, FilesTypeOK, Tables
<1>2. Sealed \subseteq Declared
  BY DEF Declared
<1>3. \A c \in Starts : pc'[c] \in Declared \/ jvm'[c] # "unborn" => cat'["users"] # "none"
  BY <1>1, <1>2 DEF FInv, SpawnHolds, FilesGrow
<1>4. \A c \in Starts : pc'[c] \in Sealed \/ jvm'[c] # "unborn" => secret' = "whole"
  BY DEF FInv, SpawnHolds, FilesGrow
<1>5. \A c \in Starts : jvm'[c] = "listening" =>
        "users" \in served'[c] /\ \A t \in served'[c] : cat'[t] = "whole"
  BY <1>1, SMT DEF FInv, SpawnHolds, FilesGrow
<1> QED BY <1>3, <1>4, <1>5 DEF SpawnHolds, Starts, Declared, Sealed

(* Every step keeps what a start has seen to. *)
LEMMA SpawnNext == IInv /\ FInv /\ [Next]_vars => SpawnHolds'
<1> SUFFICES ASSUME IInv, FInv, [Next]_vars PROVE SpawnHolds'
  OBVIOUS
<1>t. /\ pc \in [Cmds -> Places] /\ jvm \in [Starts -> {"unborn", "booting", "listening", "dying", "gone"}]
      /\ Starts \subseteq Cmds
  BY DEF IInv, TypeOK, Starts
<1>g. FilesGrow
  BY FilesNext
<1>1. ASSUME NEW c \in Cmds, NEW to, UNCHANGED <<served, jvm>>, pc' = [pc EXCEPT ![c] = to],
             to \in Declared => pc[c] \in Declared, to \in Sealed => pc[c] \in Sealed
      PROVE  SpawnHolds'
  <2>1. \A d \in Starts : pc'[d] = IF d = c THEN to ELSE pc[d]
    BY <1>t, <1>1
  <2> QED BY <1>g, <1>1, <2>1, SpawnStays
<1>2. ASSUME NEW c \in Cmds, db_runner_lock(c) \/ acquire_lock(c) \/ create_dat(c) \/ write_empty_page(c)
      PROVE  SpawnHolds'
  <2>1. UNCHANGED <<served, jvm>>
    BY <1>2 DEF db_runner_lock, acquire_lock, create_dat, write_empty_page
  <2>2. \E to \in {"clear", "create", "page", "catalog", "done"} : pc' = [pc EXCEPT ![c] = to]
    BY <1>2 DEF db_runner_lock, acquire_lock, create_dat, write_empty_page, GivesUp, Goes, Ends
  <2> QED BY <1>1, <2>1, <2>2 DEF Declared, Sealed
<1>3. ASSUME NEW c \in Cmds, declare(c)
      PROVE  SpawnHolds'
  <2>1. UNCHANGED <<served, jvm>> /\ cat \in [Tables -> {"none", "half", "whole"}] /\ Mine(c) \in Tables
    BY <1>3, MineTable DEF declare, FInv, FilesTypeOK
  <2>2. CASE pc' = [pc EXCEPT ![c] = "done"]
    BY <1>1, <2>1, <2>2 DEF Declared, Sealed
  <2>3. CASE Kind[c] = "start" /\ pc' = [pc EXCEPT ![c] = "secret"] /\ cat'[Mine(c)] # "none"
    <3>1. cat'["users"] # "none"
      BY <2>3 DEF Mine
    <3>2. \A d \in Starts : pc'[d] = IF d = c THEN "secret" ELSE pc[d]
      BY <1>t, <2>3
    <3>3. "secret" \notin Sealed
      BY DEF Sealed
    <3>4. \A d \in Starts : served[d] \subseteq Tables
      BY DEF FInv, FilesTypeOK
    <3>5. \A d \in Starts : jvm[d] = "listening" =>
            "users" \in served[d] /\ \A t \in served[d] : cat'[t] = "whole"
      BY <1>g, <3>4, SMT DEF FInv, SpawnHolds, FilesGrow
    <3>6. \A d \in Starts : pc'[d] \in Sealed \/ jvm[d] # "unborn" => secret' = "whole"
      BY <1>g, <3>2, <3>3 DEF FInv, SpawnHolds, FilesGrow
    <3> QED BY <2>1, <3>1, <3>5, <3>6 DEF SpawnHolds, Starts, Declared, Sealed
  <2>4. \/ pc' = [pc EXCEPT ![c] = "done"]
        \/ Kind[c] = "start" /\ pc' = [pc EXCEPT ![c] = "secret"] /\ cat'[Mine(c)] # "none"
    BY <1>3, <2>1 DEF declare, GivesUp, Goes, Ends
  <2> QED BY <2>2, <2>3, <2>4
<1>4. ASSUME NEW c \in Cmds, make_secret(c) \/ fill_secret(c)
      PROVE  SpawnHolds'
  <2>1. UNCHANGED <<served, jvm>> /\ pc[c] \in Declared
    BY <1>4 DEF make_secret, fill_secret, Declared
  <2>2. \E to \in {"fill", "check", "done"} : pc' = [pc EXCEPT ![c] = to]
    BY <1>4 DEF make_secret, fill_secret, GivesUp, Goes, Ends
  <2> QED BY <1>1, <2>1, <2>2 DEF Sealed
<1>5. ASSUME NEW c \in Cmds, check_secret(c)
      PROVE  SpawnHolds'
  <2>1. UNCHANGED <<served, jvm, cat, secret>> /\ pc[c] = "check"
    BY <1>5 DEF check_secret, files
  <2>2. CASE pc' = [pc EXCEPT ![c] = "done"]
    BY <1>1, <2>1, <2>2 DEF Declared, Sealed
  <2>3. CASE secret = "whole" /\ pc' = [pc EXCEPT ![c] = "spawn"]
    <3>1. \A d \in Starts : pc'[d] = IF d = c THEN "spawn" ELSE pc[d]
      BY <1>t, <2>3
    <3>2. \A d \in Starts : pc'[d] \in Declared => pc[d] \in Declared
      BY <2>1, <3>1 DEF Declared
    <3> QED BY <2>1, <2>3, <3>2 DEF FInv, SpawnHolds, Starts, Declared, Sealed
  <2> QED BY <1>5, <2>2, <2>3 DEF check_secret, secret_open, GivesUp, Goes, Ends
<1>6. ASSUME NEW c \in Cmds, record_pid(c) \/ db_runner_wait(c) \/ fail_locked(c) \/ Kill(c)
      PROVE  SpawnHolds'
  <2>1. UNCHANGED <<served, jvm>>
    BY <1>6 DEF record_pid, db_runner_wait, fail_locked, Kill
  <2>2. \/ pc' = [pc EXCEPT ![c] = "done"]
        \/ pc[c] \in Sealed /\ \E to \in {"wait", "unrecord", "reap"} : pc' = [pc EXCEPT ![c] = to]
    BY <1>6 DEF record_pid, db_runner_wait, fail_locked, Kill, Goes, Ends, Sealed
  <2> QED BY <1>1, <2>1, <2>2 DEF Declared, Sealed
<1>7. ASSUME NEW c \in Cmds, stop(c) \/ clear_pid(c) \/ read_lock_pid(c) \/ poll(c)
      PROVE  SpawnHolds'
  <2>1. UNCHANGED <<served, jvm>>
    BY <1>7 DEF stop, clear_pid, read_lock_pid, poll
  <2>2. \E to \in {"clear", "read", "kill", "done"} : pc' = [pc EXCEPT ![c] = to]
    BY <1>7 DEF stop, clear_pid, read_lock_pid, poll, GivesUp, Goes, Ends
  <2> QED BY <1>1, <2>1, <2>2 DEF Declared, Sealed
<1>8. ASSUME NEW c \in Cmds, db_runner_spawn(c) \/ stop_failed_child(c) \/ kill(c)
      PROVE  SpawnHolds'
  <2>1. served' = served
    BY <1>8 DEF db_runner_spawn, stop_failed_child, kill
  <2>2. \E to \in {"record", "close", "clearpid", "poll", "done"} :
           pc' = [pc EXCEPT ![c] = to] /\ (to = "record" => pc[c] = "spawn")
    BY <1>8 DEF db_runner_spawn, stop_failed_child, kill, GivesUp, Goes, Ends
  <2>3. \A d \in Starts : /\ pc'[d] \in Declared => pc[d] \in Declared
                          /\ pc'[d] \in Sealed => pc[d] \in Sealed
    BY <1>t, <2>2 DEF Declared, Sealed
  <2>4. \/ jvm' = jvm
        \/ \E p, x : /\ jvm' = [jvm EXCEPT ![p] = x] /\ x # "listening"
                     /\ pc[p] \in Sealed \/ jvm[p] # "unborn"
    BY <1>8 DEF db_runner_spawn, stop_failed_child, kill, Alive, Sealed
  <2>5. \A d \in Starts : /\ jvm'[d] # "unborn" => pc[d] \in Sealed \/ jvm[d] # "unborn"
                          /\ jvm'[d] = "listening" => jvm[d] = "listening"
    BY <1>t, <2>4
  <2> QED BY <1>g, <2>1, <2>3, <2>5, SpawnStays
<1>9. ASSUME NEW c \in Cmds, Cmd(c) \/ Kill(c) PROVE SpawnHolds'
  BY <1>2, <1>3, <1>4, <1>5, <1>6, <1>7, <1>8, <1>9 DEF Cmd
<1>10. ASSUME NEW c \in Starts, Boot(c) PROVE SpawnHolds'
  <2>1. UNCHANGED <<pc, cat, secret>> /\ jvm[c] = "booting" /\ \A t \in Tables : cat[t] # "half"
    BY <1>10 DEF Boot, cvars, files
  <2>2. /\ \A d \in Starts : jvm'[d] = IF d = c THEN "listening" ELSE jvm[d]
        /\ \A d \in Starts : served'[d] = IF d = c THEN {t \in Tables : cat[t] = "whole"} ELSE served[d]
    BY <1>10, <1>t DEF Boot, FInv, FilesTypeOK
  <2>3. "users" \in Tables /\ cat["users"] \in {"none", "half", "whole"}
    BY DEF Tables, FInv, FilesTypeOK
  <2>4. cat["users"] = "whole" /\ secret = "whole"
    BY <2>1, <2>3 DEF FInv, SpawnHolds
  <2>5. \A d \in Starts : jvm'[d] = "listening" =>
          "users" \in served'[d] /\ \A t \in served'[d] : cat[t] = "whole"
    BY <2>2, <2>3, <2>4 DEF FInv, SpawnHolds
  <2> QED BY <2>1, <2>4, <2>5 DEF SpawnHolds, Starts, Declared, Sealed
<1>11. ASSUME NEW c \in Starts, Exit(c) PROVE SpawnHolds'
  <2>1. UNCHANGED <<pc, served>> /\ jvm[c] # "unborn" /\ jvm' = [jvm EXCEPT ![c] = "gone"]
    BY <1>11 DEF Exit, cvars, Alive
  <2>2. \A d \in Starts : jvm'[d] = IF d = c THEN "gone" ELSE jvm[d]
    BY <1>t, <2>1
  <2>3. \A d \in Starts : /\ jvm'[d] # "unborn" => jvm[d] # "unborn"
                          /\ jvm'[d] = "listening" => jvm[d] = "listening"
    BY <2>1, <2>2, SMT
  <2>4. \A d \in Starts : pc'[d] = pc[d]
    BY <2>1
  <2> QED BY <1>g, <2>1, <2>3, <2>4, SpawnStays
<1>12. CASE UNCHANGED vars
  <2>1. UNCHANGED <<pc, served, jvm>>
    BY <1>12 DEF vars, cvars
  <2>2. \A d \in Starts : pc'[d] = pc[d] /\ jvm'[d] = jvm[d]
    BY <2>1
  <2> QED BY <1>g, <2>1, <2>2, SpawnStays
<1> QED BY <1>9, <1>10, <1>11, <1>12 DEF Next

(* With one ballotd, the tables a listening JVM serves are whole, users is among
   them, and so is the secret, unless a kill tore a page (db_ensure_table,
   auth_secret_provision, db_runner_spawn). *)
THEOREM ServesWholeTables == ASSUME OneBallotd PROVE Spec => []ServedWhole
<1>1. Init => FInv
  <2> SUFFICES ASSUME Init PROVE FInv
    OBVIOUS
  <2>1. FilesTypeOK
    BY DEF Init, FilesTypeOK
  <2>2. TablesHold
    <3>1. \A t \in Tables : cat[t] = "none" /\ dat[t] = "none"
      BY DEF Init
    <3>2. \A c \in Cmds : pc[c] = "begin"
      BY DEF Init
    <3> QED BY <3>1, <3>2 DEF TablesHold
  <2>3. SpawnHolds
    <3>1. \A c \in Starts : pc[c] = "begin" /\ jvm[c] = "unborn"
      BY DEF Init, Starts
    <3> QED BY <3>1 DEF SpawnHolds, Declared, Sealed
  <2> QED BY <2>1, <2>2, <2>3 DEF FInv
<1>2. IInv /\ FInv /\ [Next]_vars => FInv'
  <2> SUFFICES ASSUME IInv, FInv, [Next]_vars PROVE FInv'
    OBVIOUS
  <2>1. FilesTypeOK' /\ TablesHold' /\ SpawnHolds'
    BY FilesNext, TablesNext, SpawnNext, OneBallotd
  <2> QED BY <2>1 DEF FInv
<1>3. FInv => ServedWhole
  <2> SUFFICES ASSUME FInv, NEW c \in Starts, jvm[c] = "listening"
               PROVE  /\ \A t \in served[c] \ torn : dat[t] = "whole"
                      /\ "users" \in served[c] /\ secret = "whole"
    BY DEF ServedWhole
  <2>1. served[c] \subseteq Tables
    BY DEF FInv, FilesTypeOK
  <2>2. /\ \A t \in served[c] : cat[t] = "whole"
        /\ "users" \in served[c] /\ secret = "whole"
    BY DEF FInv, SpawnHolds
  <2> QED BY <2>1, <2>2 DEF FInv, TablesHold
<1> QED BY <1>1, <1>2, <1>3, Invariance, PTL DEF Spec
=============================================================================
