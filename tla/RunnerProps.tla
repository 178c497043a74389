---------------------------- MODULE RunnerProps ----------------------------
(* Properties of the runner's commands. *)
EXTENDS Runner

ASSUME CmdsAssumption == Absent \notin Cmds

(* At most one JVM has the data directory open, and never without the lock,
   however starts, stops, kills and readiness failures interleave: the lock
   outlives the start that took it (runner.c, db_runner_lock; main.c, start). *)
OneRunner == Cardinality(Alive) <= 1 /\ (Alive # {} => holders # {})

(* A runner that a start reported as started can be stopped: until it is told
   to end, the lock file names its pid, whatever later starts and stops did. *)
RunnerStoppable ==
    \A c \in Starts : result[c] = "ok" /\ jvm[c] \in {"booting", "listening"} => pidfile = c

(* What a JVM serves is whole, and so is the secret: the heap file comes before
   the catalog line and both before the spawn, and a page that could not be
   written takes its file along (schema.c, db_ensure_table).  Only a kill in the
   middle of the page breaks this. *)
ServedWhole ==
    \A c \in Starts : jvm[c] = "listening" =>
        /\ \A t \in served[c] \ torn : dat[t] = "whole"
        /\ "users" \in served[c] /\ secret = "whole"

(* A stop that reports success leaves no JVM behind at that moment. *)
StoppedMeansStopped ==
    [][\A c \in Cmds : Kind[c] = "stop" /\ result[c] # "ok" /\ result'[c] = "ok" => Alive' = {}]_vars

(* Every command that begins comes to an end by itself, even on a JVM that
   neither listens nor exits (db_runner_wait's deadline, stop's ten seconds). *)
CommandsEnd == <>[](\A c \in Cmds : pc[c] \in {"begin", "done"})

-----------------------------------------------------------------------------
(* The inductive invariant behind OneRunner, RunnerStoppable and StoppedMeansStopped. *)

Places == {"begin", "clear", "create", "page", "catalog", "secret", "fill", "check", "spawn",
           "record", "wait", "reap", "unrecord", "close", "clearpid", "read", "kill", "poll", "done"}

(* Types: of the commands, the JVMs and the lock's holders. *)
TypeOK ==
    /\ pc \in [Cmds -> Places]
    /\ result \in [Cmds -> {"none", "ok", "failed", "killed"}]
    /\ jvm \in [Starts -> {"unborn", "booting", "listening", "dying", "gone"}]
    /\ holders \subseteq {"cmd", "jvm"} \X Cmds

(* The steps only a start takes. *)
StartOnly == {"create", "secret", "fill", "check", "spawn", "record", "wait", "reap", "unrecord",
              "close", "clearpid"}

(* Where a command has the lock's description open. *)
Locked(c) == \/ Kind[c] = "start" /\ pc[c] \notin {"begin", "done"}
             \/ Kind[c] = "stop" /\ pc[c] = "clear"

(* Every command is where its kind can be. *)
PlacesFit ==
    \A c \in Cmds : /\ pc[c] \in StartOnly => Kind[c] = "start"
                    /\ pc[c] \in {"page", "catalog"} => Kind[c] \in {"start", "ballotd"}

(* One invocation at a time has the lock, itself or through its JVM. *)
OneHolder ==
    \A a, b \in {"cmd", "jvm"}, c, d \in Cmds : <<a, c>> \in holders /\ <<b, d>> \in holders => c = d

(* Who should have it has it, and it lives as long as the JVM. *)
HoldersTrue ==
    /\ \A c \in Cmds : Locked(c) => Held(c) \in holders
    /\ \A c \in Cmds : <<"jvm", c>> \in holders <=> c \in Alive
    /\ pidfile = Absent => holders = {} /\ \A c \in Cmds : pc[c] \notin {"read", "kill", "poll"}

(* The pid is in the file before the start waits, and stays there. *)
PidStays ==
    \A c \in Starts :
      /\ result[c] = "ok" => pc[c] = "done"
      /\ (pc[c] = "wait" \/ result[c] = "ok") /\ jvm[c] \in {"booting", "listening"} => pidfile = c

IInv == TypeOK /\ PlacesFit /\ OneHolder /\ HoldersTrue /\ PidStays

-----------------------------------------------------------------------------
(* The inductive invariant behind ServedWhole. *)

(* ballotd provisions without the lock, so one invocation of it at a time. *)
OneBallotd == \A c, d \in Cmds : Kind[c] = "ballotd" /\ Kind[d] = "ballotd" => c = d

FilesTypeOK ==
    /\ dat \in [Tables -> {"none", "half", "whole"}] /\ cat \in [Tables -> {"none", "half", "whole"}]
    /\ secret \in {"none", "half", "whole"} /\ served \in [Starts -> SUBSET Tables]

(* The heap file of a table is whole before the table is in the catalog, and
   half only while somebody is at its page. *)
TablesHold ==
    /\ \A t \in Tables \ torn :
          /\ cat[t] # "none" => dat[t] = "whole"
          /\ dat[t] = "half" => \E c \in Cmds : pc[c] = "page" /\ Mine(c) = t
    /\ \A c \in Cmds : Mine(c) \notin torn =>
          /\ pc[c] = "page" => dat[Mine(c)] = "half" /\ cat[Mine(c)] = "none"
          /\ pc[c] = "catalog" => dat[Mine(c)] = "whole"

(* The steps of a start past the secret, and past the catalog line. *)
Sealed == {"spawn", "record", "wait", "reap", "unrecord"}
Declared == {"secret", "fill", "check"} \cup Sealed

(* What a start has seen to stays so under its JVM. *)
SpawnHolds ==
    \A c \in Starts :
      /\ pc[c] \in Declared \/ jvm[c] # "unborn" => cat["users"] # "none"
      /\ pc[c] \in Sealed \/ jvm[c] # "unborn" => secret = "whole"
      /\ jvm[c] = "listening" => "users" \in served[c] /\ \A t \in served[c] : cat[t] = "whole"

FInv == FilesTypeOK /\ TablesHold /\ SpawnHolds
=============================================================================
