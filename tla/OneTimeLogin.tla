---------------------------- MODULE OneTimeLogin ----------------------------
(***************************************************************************)
(* What the OAuth state of a Singpass login promises: it is pending after  *)
(* it is issued, it is used at most once, one at a time, and once it is    *)
(* used or dropped (it expired, or the process that kept it is gone) it is *)
(* never used again.                                                       *)
(***************************************************************************)
EXTENDS Naturals, Sequences

CONSTANT States

VARIABLES
    status,     \* per state: "new", "pending", "used" or "dropped"
    uses        \* the states used, in order

loginVars == <<status, uses>>

Init ==
    /\ status = [s \in States |-> "new"]
    /\ uses = <<>>

\* How a state may move on its own; several may be dropped in one step.
Moves == {<<"new", "pending">>, <<"new", "dropped">>, <<"pending", "dropped">>}

MovesOn(S) ==
    \A s \in S : status'[s] # status[s] => <<status[s], status'[s]>> \in Moves

Use(s) ==
    /\ status[s] = "pending" /\ status'[s] = "used"
    /\ uses' = Append(uses, s)
    /\ MovesOn(States \ {s})

Next ==
    \/ \E s \in States : Use(s)
    \/ MovesOn(States) /\ UNCHANGED uses

Spec == Init /\ [][Next]_loginVars
=============================================================================
