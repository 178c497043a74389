---------------------------- MODULE BallotLedger ----------------------------
(***************************************************************************)
(* What BallotBox promises of its elections, with no tables, transactions, *)
(* retries or crashes: an election moves forward one state at a time, and  *)
(* while it is open an eligible voter may cast, and replace, one vote per  *)
(* unused nonce.  Each action is a single step.                            *)
(***************************************************************************)
EXTENDS Integers

CONSTANTS Elections, Voters, Nonces, Options, OptionCount, Eligible, NoVote

VARIABLES
    state,    \* election -> lifecycle state, "NONE" if there is none
    vote,     \* election -> voter -> the vote that counts
    casts,    \* election -> voter -> how many votes were recorded
    used      \* election -> nonces spent

vars == <<state, vote, casts, used>>

Init ==
    /\ state \in [Elections -> {"NONE", "DRAFT"}]
    /\ vote = [e \in Elections |-> [v \in Voters |-> NoVote]]
    /\ casts = [e \in Elections |-> [v \in Voters |-> 0]]
    /\ used = [e \in Elections |-> {}]

\* UC-3 and UC-4: a vote replaces the voter's earlier one.
Cast(e, v, n, o) ==
    /\ state[e] = "OPEN"
    /\ v \in Eligible[e]
    /\ o < OptionCount[e]
    /\ n \notin used[e]
    /\ vote' = [vote EXCEPT ![e][v] = o]
    /\ casts' = [casts EXCEPT ![e][v] = @ + 1]
    /\ used' = [used EXCEPT ![e] = @ \cup {n}]
    /\ UNCHANGED state

\* The lifecycle of UC-1 and UC-5: no skips, no reversals.
Advance(e, from, to) ==
    /\ <<from, to>> \in {<<"DRAFT", "OPEN">>, <<"OPEN", "CLOSED">>,
                         <<"CLOSED", "PUBLISHED">>}
    /\ state[e] = from
    /\ state' = [state EXCEPT ![e] = to]
    /\ UNCHANGED <<vote, casts, used>>

States == {"DRAFT", "OPEN", "CLOSED", "PUBLISHED"}

Next ==
    \E e \in Elections :
       \/ \E v \in Voters, n \in Nonces, o \in Options : Cast(e, v, n, o)
       \/ \E from, to \in States : Advance(e, from, to)

Spec == Init /\ [][Next]_vars
=============================================================================
