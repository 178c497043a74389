---------------------------- MODULE MC_Terminals ----------------------------
(***************************************************************************)
(* The terminal programs and what they exchange with the daemon for TLC,   *)
(* one run for three modules: a behaviour picks a part, and the variables  *)
(* of the other parts keep their initial values.                           *)
(*   "wire"    the texts of module Wire, as in MC_Wire;                    *)
(*   "voter"   module BallotU: two elections the voter is on the list of,  *)
(*             one the voter is not, and one mistyped id;                  *)
(*   "create"  module Elections: two operators, a four-bit int and ids     *)
(*             that meet its edges.                                        *)
(***************************************************************************)
EXTENDS BallotUProps, ElectionsProps, MC_Wire

CONSTANTS e1, e2, e3, o1, o2

VARIABLE part

Cfg(t, n, w, v, u) == [title |-> t, options |-> n, window |-> w, eligible |-> v, unsafe |-> u]

\* Valid, valid with a bad value in the second option, no title, one option,
\* closing before opening.
FiveConfigs == {Cfg(TRUE, 2, TRUE, 1, Nil), Cfg(TRUE, 2, TRUE, 1, 2), Cfg(FALSE, 2, TRUE, 1, Nil),
                Cfg(TRUE, 1, TRUE, 1, Nil), Cfg(TRUE, 2, FALSE, 1, Nil)}

\* "E-6", "E-7" (the largest int), "E-23" (an int only after conversion),
\* "board-6" and "board".
FiveIds == {[p |-> "E", n |-> 6], [p |-> "E", n |-> 7], [p |-> "E", n |-> 23],
            [p |-> "board", n |-> 6], [p |-> "board", n |-> Nil]}

MCInit == part \in {"wire", "voter", "create"} /\ WireInit /\ Init /\ CreateInit

\* Two faults on the way to two elections, one on the way to three.
MCNext ==
  \/ part = "wire" /\ WireNext /\ UNCHANGED <<part, vars, evars>>
  \/ part = "voter" /\ Next /\ UNCHANGED <<part, wvars, evars>>
  \/ part = "create" /\ CreateNext /\ (failures' < 2 \/ made' < 3) /\ UNCHANGED <<part, wvars, vars>>

MCSpec == MCInit /\ [][MCNext]_<<part, wvars, vars, evars>>

\* The voter's elections, and the operators, are only compared for equality.
Either == Permutations({e1, e2}) \cup Permutations({o1, o2})
=============================================================================
