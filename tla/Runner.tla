------------------------------- MODULE Runner -------------------------------
(***************************************************************************)
(* tetrisdb start and stop (tetrisdb/main.c, runner.c) around one data     *)
(* directory: the runner lock, which the JVM inherits, the pid in it, the  *)
(* tables (schema.c) and the auth secret (secret.c) a start provisions,    *)
(* and ballotd, which provisions its own tables without the lock.          *)
(*                                                                         *)
(* A command is one invocation; the JVM a start spawns has the command's   *)
(* name as its pid.  flock belongs to an open file description, so the     *)
(* lock is free when neither the start nor its JVM has it open any more.   *)
(***************************************************************************)
EXTENDS Naturals, FiniteSets

CONSTANTS Cmds,        \* the invocations
          Kind,        \* "start", "stop" or "ballotd", of each
          MaxFaults,   \* bound: system calls that fail, JVMs that die
          MaxKills     \* bound: commands killed

VARIABLES pc, result,  \* of each command
          got,         \* the pid a stop read
          holders,     \* <<"cmd", c>> and <<"jvm", c>>: who has the locked description open
          pidfile,     \* .runner.lock: Absent, Empty or a pid
          jvm,         \* of each start: "unborn", "booting", "listening", "dying", "gone"
          served,      \* the tables a JVM found in the catalog
          dat, cat,    \* of each table: "none", "half", "whole"
          secret,      \* "none", "half", "whole"
          torn,        \* tables whose provisioning was killed
          faults, kills

cvars == <<pc, result, got>>
files == <<dat, cat, secret>>
vars == <<cvars, holders, pidfile, jvm, served, files, torn, faults, kills>>

Absent == "absent"
Empty == "empty"
Starts == {c \in Cmds : Kind[c] = "start"}
Tables == {"users", "ballots"}
Mine(c) == IF Kind[c] = "start" THEN "users" ELSE "ballots"
Alive == {c \in Starts : jvm[c] \in {"booting", "listening", "dying"}}

Init ==
    /\ pc = [c \in Cmds |-> "begin"] /\ result = [c \in Cmds |-> "none"] /\ got = [c \in Cmds |-> Empty]
    /\ holders = {} /\ pidfile = Absent
    /\ jvm = [c \in Starts |-> "unborn"] /\ served = [c \in Starts |-> {}]
    /\ dat = [t \in Tables |-> "none"] /\ cat = [t \in Tables |-> "none"] /\ secret = "none"
    /\ torn = {} /\ faults = 0 /\ kills = 0

Fault == faults < MaxFaults /\ faults' = faults + 1
Ends(c, r) == pc' = [pc EXCEPT ![c] = "done"] /\ result' = [result EXCEPT ![c] = r]
Goes(c, to) == pc' = [pc EXCEPT ![c] = to] /\ UNCHANGED result
Held(c) == <<"cmd", c>>
Release(c) == holders' = holders \ {Held(c)}

-----------------------------------------------------------------------------
(* start. *)

(* Mutant: the file is truncated as it is opened. *)
open_lock_trunc == pidfile' = Empty

(* open(O_RDWR | O_CREAT). *)
open_lock == pidfile' = IF pidfile = Absent THEN Empty ELSE pidfile

db_runner_lock(c) ==
    /\ pc[c] = "begin" /\ Kind[c] = "start"
    /\ open_lock
    /\ \/ /\ holders = {} /\ holders' = {Held(c)} /\ Goes(c, "clear")
       \/ /\ holders # {} /\ Ends(c, "failed") /\ UNCHANGED holders
    /\ UNCHANGED <<got, jvm, served, files, torn, faults, kills>>

(* The rest of acquire_lock: the old pid goes. *)
acquire_lock(c) ==
    /\ pc[c] = "clear" /\ Kind[c] = "start"
    /\ \/ pidfile' = Empty /\ Goes(c, "create") /\ UNCHANGED <<holders, faults>>
       \/ Fault /\ Ends(c, "failed") /\ Release(c) /\ UNCHANGED pidfile
    /\ UNCHANGED <<got, jvm, served, files, torn, kills>>

(* What a failed step before the spawn leads to, in a start and in ballotd. *)
GivesUp(c) == Fault /\ Ends(c, "failed") /\ Release(c)

(* db_ensure_table: the heap file if there is none, *)
create_dat(c) ==
    /\ \/ pc[c] = "create"
       \/ pc[c] = "begin" /\ Kind[c] = "ballotd"
    /\ \/ /\ dat[Mine(c)] = "none" /\ dat' = [dat EXCEPT ![Mine(c)] = "half"]
          /\ Goes(c, "page") /\ UNCHANGED <<holders, faults>>
       \/ dat[Mine(c)] # "none" /\ Goes(c, "catalog") /\ UNCHANGED <<dat, holders, faults>>
       \/ GivesUp(c) /\ UNCHANGED dat
    /\ UNCHANGED <<got, pidfile, jvm, served, cat, secret, torn, kills>>

(* Mutant: a page that was not written whole stays. *)
remove_half_kept(t) == UNCHANGED dat

(* unlink(dat). *)
remove_half(t) == dat' = [dat EXCEPT ![t] = "none"]

(* one empty page in it, or no file, *)
write_empty_page(c) ==
    /\ pc[c] = "page"
    /\ \/ dat' = [dat EXCEPT ![Mine(c)] = "whole"] /\ Goes(c, "catalog") /\ UNCHANGED <<holders, faults>>
       \/ GivesUp(c) /\ remove_half(Mine(c))
    /\ UNCHANGED <<got, pidfile, jvm, served, cat, secret, torn, kills>>

(* and its line in the catalog, if the catalog does not seem to have one. *)
declare(c) ==
    /\ pc[c] = "catalog"
    /\ LET next == IF Kind[c] = "start" THEN Goes(c, "secret") ELSE Ends(c, "ok")
       IN \/ /\ cat[Mine(c)] \in {"half", "whole"}
             /\ next /\ UNCHANGED <<cat, holders, faults>>
          \/ /\ cat[Mine(c)] = "none" /\ cat' = [cat EXCEPT ![Mine(c)] = "whole"]
             /\ next /\ UNCHANGED <<holders, faults>>
          \/ /\ cat[Mine(c)] = "none" /\ \E h \in {"none", "half"} : cat' = [cat EXCEPT ![Mine(c)] = h]
             /\ GivesUp(c)
    /\ UNCHANGED <<got, pidfile, jvm, served, dat, secret, torn, kills>>

(* auth_secret_provision: made if there is none, *)
make_secret(c) ==
    /\ pc[c] = "secret"
    /\ \/ secret = "none" /\ secret' = "half" /\ Goes(c, "fill") /\ UNCHANGED <<holders, faults>>
       \/ secret # "none" /\ Goes(c, "check") /\ UNCHANGED <<secret, holders, faults>>
       \/ GivesUp(c) /\ UNCHANGED secret
    /\ UNCHANGED <<got, pidfile, jvm, served, dat, cat, torn, kills>>

fill_secret(c) ==
    /\ pc[c] = "fill"
    /\ \/ secret' = "whole" /\ Goes(c, "check") /\ UNCHANGED <<holders, faults>>
       \/ GivesUp(c) /\ UNCHANGED secret
    /\ UNCHANGED <<got, pidfile, jvm, served, dat, cat, torn, kills>>

(* refused, and never repaired, if it has not the size. *)
secret_open == secret = "whole"

check_secret(c) ==
    /\ pc[c] = "check"
    /\ \/ secret_open /\ Goes(c, "spawn") /\ UNCHANGED <<holders, faults>>
       \/ ~secret_open /\ Ends(c, "failed") /\ Release(c) /\ UNCHANGED faults
       \/ GivesUp(c)
    /\ UNCHANGED <<got, pidfile, jvm, served, files, torn, kills>>

(* Mutant: the lock's descriptor is closed on exec. *)
inheritedNot(c) == holders

(* The JVM has the lock's description open too. *)
inherited(c) == holders \cup {<<"jvm", c>>}

db_runner_spawn(c) ==
    /\ pc[c] = "spawn"
    /\ \/ /\ jvm' = [jvm EXCEPT ![c] = "booting"] /\ holders' = inherited(c)
          /\ Goes(c, "record") /\ UNCHANGED faults
       \/ GivesUp(c) /\ UNCHANGED jvm
    /\ UNCHANGED <<got, pidfile, served, files, torn, kills>>

(* A pid that was not written whole is cleared once the child is gone. *)
record_pid(c) ==
    /\ pc[c] = "record"
    /\ \/ pidfile' = c /\ Goes(c, "wait") /\ UNCHANGED faults
       \/ Fault /\ pidfile' = Empty /\ Goes(c, "unrecord")
    /\ UNCHANGED <<got, holders, jvm, served, files, torn, kills>>

overdue == TRUE

(* Somebody listens, the child has exited, or the deadline has passed. *)
db_runner_wait(c) ==
    /\ pc[c] = "wait"
    /\ \/ /\ \E s \in Starts : jvm[s] = "listening"
          /\ Ends(c, "ok") /\ Release(c)
       \/ /\ jvm[c] = "gone" \/ overdue
          /\ Goes(c, "reap") /\ UNCHANGED holders
    /\ UNCHANGED <<got, pidfile, jvm, served, files, torn, faults, kills>>

(* SIGTERM, and SIGKILL after five seconds: the child is gone and reaped. *)
stop_failed_child(c) ==
    /\ pc[c] \in {"reap", "unrecord"}
    /\ jvm' = [jvm EXCEPT ![c] = "gone"] /\ holders' = holders \ {<<"jvm", c>>}
    /\ pc' = [pc EXCEPT ![c] = IF pc[c] = "reap" THEN "close" ELSE "clearpid"]
    /\ UNCHANGED <<result, got, pidfile, served, files, torn, faults, kills>>

fail_locked(c) ==
    /\ pc[c] \in {"close", "clearpid"}
    /\ pidfile' = IF pc[c] = "clearpid" THEN Empty ELSE pidfile
    /\ Release(c) /\ Ends(c, "failed")
    /\ UNCHANGED <<got, jvm, served, files, torn, faults, kills>>

-----------------------------------------------------------------------------
(* stop. *)

(* No lock file; the lock for the taking; or the lock taken. *)
stop(c) ==
    /\ pc[c] = "begin" /\ Kind[c] = "stop"
    /\ \/ pidfile = Absent /\ Ends(c, "ok") /\ UNCHANGED holders
       \/ pidfile # Absent /\ holders = {} /\ holders' = {Held(c)} /\ Goes(c, "clear")
       \/ pidfile # Absent /\ holders # {} /\ Goes(c, "read") /\ UNCHANGED holders
    /\ UNCHANGED <<got, pidfile, jvm, served, files, torn, faults, kills>>

clear_pid(c) ==
    /\ pc[c] = "clear" /\ Kind[c] = "stop"
    /\ \/ pidfile' = Empty /\ Ends(c, "ok") /\ Release(c) /\ UNCHANGED faults
       \/ GivesUp(c) /\ UNCHANGED pidfile
    /\ UNCHANGED <<got, jvm, served, files, torn, kills>>

(* An empty file supplies no pid. *)
read_lock_pid(c) ==
    /\ pc[c] = "read"
    /\ \/ pidfile = Empty /\ Ends(c, "failed") /\ UNCHANGED got
       \/ pidfile # Empty /\ got' = [got EXCEPT ![c] = pidfile] /\ Goes(c, "kill")
    /\ UNCHANGED <<holders, pidfile, jvm, served, files, torn, faults, kills>>

kill(c) ==
    /\ pc[c] = "kill"
    /\ LET p == got[c]
       IN \/ /\ p \in Alive /\ jvm' = [jvm EXCEPT ![p] = "dying"]
             /\ Goes(c, "poll")
          \/ p \notin Alive /\ Ends(c, "failed") /\ UNCHANGED jvm
    /\ UNCHANGED <<got, holders, pidfile, served, files, torn, faults, kills>>

(* Mutant: once signalled, the runner counts as stopped. *)
pollOnce(c) ==
    /\ pc[c] = "poll"
    /\ Ends(c, "ok")
    /\ UNCHANGED <<got, holders, pidfile, jvm, served, files, torn, faults, kills>>

(* The lock, within ten seconds; there is no SIGKILL. *)
poll(c) ==
    /\ pc[c] = "poll"
    /\ \/ holders = {} /\ holders' = {Held(c)} /\ Goes(c, "clear")
       \/ holders # {} /\ Ends(c, "failed") /\ UNCHANGED holders
    /\ UNCHANGED <<got, pidfile, jvm, served, files, torn, faults, kills>>

Cmd(c) ==
    \/ db_runner_lock(c) \/ acquire_lock(c)
    \/ create_dat(c) \/ write_empty_page(c) \/ declare(c)
    \/ make_secret(c) \/ fill_secret(c) \/ check_secret(c)
    \/ db_runner_spawn(c) \/ record_pid(c) \/ db_runner_wait(c)
    \/ stop_failed_child(c) \/ fail_locked(c)
    \/ stop(c) \/ clear_pid(c) \/ read_lock_pid(c) \/ kill(c) \/ poll(c)

-----------------------------------------------------------------------------
(* The JVM, and what befalls the commands. *)

(* SocketRunner reads the catalog once; one it cannot read ends it. *)
Boot(c) ==
    /\ jvm[c] = "booting" /\ \A t \in Tables : cat[t] # "half"
    /\ jvm' = [jvm EXCEPT ![c] = "listening"]
    /\ served' = [served EXCEPT ![c] = {t \in Tables : cat[t] = "whole"}]
    /\ UNCHANGED <<cvars, holders, pidfile, files, torn, faults, kills>>

(* Told to, for a bad catalog, or by itself. *)
Exit(c) ==
    /\ c \in Alive
    /\ \/ jvm[c] = "dying" /\ UNCHANGED faults
       \/ jvm[c] = "booting" /\ (\E t \in Tables : cat[t] = "half") /\ UNCHANGED faults
       \/ jvm[c] # "dying" /\ Fault
    /\ jvm' = [jvm EXCEPT ![c] = "gone"] /\ holders' = holders \ {<<"jvm", c>>}
    /\ UNCHANGED <<cvars, pidfile, served, files, torn, kills>>

(* SIGKILL, to a command at work. *)
Kill(c) ==
    /\ kills < MaxKills /\ kills' = kills + 1
    /\ pc[c] \notin {"begin", "done"} /\ Ends(c, "killed") /\ Release(c)
    /\ torn' = IF pc[c] = "page" THEN torn \cup {Mine(c)} ELSE torn
    /\ UNCHANGED <<got, pidfile, jvm, served, files, faults>>

Next == \/ \E c \in Cmds : Cmd(c) \/ Kill(c)
        \/ \E c \in Starts : Boot(c) \/ Exit(c)

Spec == Init /\ [][Next]_vars

(* A command that has begun goes on; nothing is assumed of the JVM. *)
FairSpec == Spec /\ \A c \in Cmds : WF_vars(pc[c] # "begin" /\ Cmd(c))
=============================================================================
