------------------------------ MODULE Registry ------------------------------
(***************************************************************************)
(* What user registration promises, with no handlers, caches, transactions *)
(* or failures: a Clerk identity is bound to a fresh internal user in one  *)
(* atomic step, at most once, the binding is never changed, and a user is  *)
(* announced at most once and only after it is bound.                      *)
(***************************************************************************)
EXTENDS Naturals, Sequences

CONSTANTS Clerks, Emails

VARIABLES
    registered,   \* internal user ids in use
    bindings,     \* [clerk, email, uid]
    announced     \* user ids announced, in order

registryVars == <<registered, bindings, announced>>

Init ==
    /\ registered = {}
    /\ bindings = {}
    /\ announced = <<>>

\* The new binding is read off the next state, so that user ids need no bound.
Register(b) ==
    /\ b \notin bindings
    /\ b.clerk \in Clerks /\ b.email \in Emails
    /\ b.uid \notin registered
    /\ \A other \in bindings : other.clerk # b.clerk
    /\ registered' = registered \cup {b.uid}
    /\ bindings' = bindings \cup {b}
    /\ UNCHANGED announced

Announce(u) ==
    /\ u \in registered
    /\ \A i \in DOMAIN announced : announced[i] # u
    /\ announced' = Append(announced, u)
    /\ UNCHANGED <<registered, bindings>>

Next ==
    \/ \E b \in bindings' : Register(b)
    \/ \E u \in registered : Announce(u)

Spec == Init /\ [][Next]_registryVars
=============================================================================
