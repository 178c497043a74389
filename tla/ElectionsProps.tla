--------------------------- MODULE ElectionsProps ---------------------------
(* What the creation of elections promises.                                 *)
EXTENDS Elections

\* One row per election: no two committed rows have one id, as long as no id
\* was allocated blind, that is with the store unreachable or past the largest
\* int (bb_create_election looks typed ids up, bb_alloc_id exceeds every seq), and
\* the id the form is prefilled with is not in use (ADMIN_NEXT_ID).
OneRowPerElection ==
  /\ ~blind => \A e, f \in elections : e.id = f.id => e = f
  /\ ~Overflows => \A e \in elections : e.id # bb_alloc_id

\* An election is stored whole or not at all, options and voters included
\* (run_insert_election in one transaction of db_exec).  An operator who is told
\* that it was created under an id finds it stored under that id with the
\* configuration entered; one who is told that the id is taken finds another
\* election there (bb_create_election).
CreationTrue ==
  /\ \A e \in elections :
       /\ {x.idx : x \in {y \in options : y.row = e.row}} = 0..(e.cfg.options - 1)
       /\ {x.who : x \in {y \in eligible : y.row = e.row}} = 1..e.cfg.eligible
  /\ \A x \in options \cup eligible : \E e \in elections : e.row = x.row
  /\ \A o \in Operators : ui[o].at = "told" =>
       /\ ui[o].told.status = "OK" =>
            \E e \in elections : e.id = ui[o].told.id /\ e.cfg = ui[o].cfg
       /\ ui[o].told.status = "ID_TAKEN" => \E e \in elections : e.id = ui[o].told.id

-----------------------------------------------------------------------------
(* The inductive invariant behind OneRowPerElection and CreationTrue.       *)

ElectionIds == Typed \cup [p : {"E"}, n : Int]

Jobs == [o : Operators, id : ElectionIds, cfg : Configs, row : Nat, k : Nat, attempt : Nat]

\* What the proofs take of the constants: the first id is an int, and the ids and the
\* configurations have the fields the operations look at.
ASSUME CreateAssumption ==
  /\ IntMax \in Nat /\ First \in 0..IntMax /\ Nil \notin Int \cup Jobs
  /\ \A id \in Typed : id.n \in Int \cup {Nil}
  /\ \A c \in Configs : c.options \in Nat /\ c.eligible \in Nat

\* Types.
CreateTypeOK ==
  /\ made \in Nat /\ blind \in BOOLEAN
  /\ elections \subseteq [row : Nat, id : ElectionIds, seq : Int, cfg : Configs]
  /\ DOMAIN ui = Operators
  /\ \A o \in Operators : /\ ui[o].id \in ElectionIds \cup {Nil}
                          /\ ui[o].at = "sent" => ui[o].cfg \in Configs
  /\ job # Nil => /\ job \in Jobs
                   /\ job.k <= Statements(job.cfg)

\* A seq is its id's number, and there is a largest one; an id in use by no election is
\* about to be given to one.
IdsHold ==
  /\ \A e \in elections : e.seq = id_seq(e.id)
  /\ elections # {} => \E m \in Seqs : \A n \in Seqs : m >= n
  /\ ~blind => \A e, f \in elections : e.id = f.id => e = f
  /\ ~blind /\ job # Nil => \A e \in elections : e.id # job.id

\* Every election has its options and voters, no row of another is among them.
StoreHolds ==
  /\ \A e \in elections :
       /\ e.row <= made /\ (job # Nil => e.row < made)
       /\ {x.idx : x \in {y \in options : y.row = e.row}} = 0..(e.cfg.options - 1)
       /\ {x.who : x \in {y \in eligible : y.row = e.row}} = 1..e.cfg.eligible
  /\ \A x \in options \cup eligible : \E e \in elections : e.row = x.row

\* The rows of the options and of the voters before statement k of a job.
OptionsOf(j) ==
  {[row |-> j.row, id |-> j.id, idx |-> i] : i \in {i \in 0..(j.cfg.options - 1) : i + 1 < j.k}}
EligibleOf(j) ==
  {[row |-> j.row, id |-> j.id, who |-> i] : i \in {i \in 1..j.cfg.eligible : i + j.cfg.options < j.k}}

\* The open transaction has the rows of the statements before statement k.
JobHolds ==
  IF job = Nil THEN txn = NoTxn
  ELSE /\ job.row = made
       /\ ui[job.o].at = "sent" /\ ui[job.o].cfg = job.cfg
       /\ txn = [elections |-> IF job.k = 0 THEN {} ELSE {NewElection},
                 options |-> OptionsOf(job), eligible |-> EligibleOf(job)]

\* What the operators are told is so.
ToldTrue ==
  \A o \in Operators : ui[o].at = "told" =>
    /\ ui[o].told.status = "OK" => \E e \in elections : e.id = ui[o].told.id /\ e.cfg = ui[o].cfg
    /\ ui[o].told.status = "ID_TAKEN" => \E e \in elections : e.id = ui[o].told.id

CreateInv == CreateTypeOK /\ IdsHold /\ StoreHolds /\ JobHolds /\ ToldTrue
=============================================================================
