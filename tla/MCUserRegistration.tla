------------------------ MODULE MCUserRegistration ------------------------
(* Small instances of UserRegistration.                                    *)
EXTENDS UserRegistration

CONSTANTS c1, c2, e1, e2, h1, h2

Created(c, e) == [type |-> "user.created", clerk |-> c, email |-> e]
Updated(c, e) == [type |-> "user.updated", clerk |-> c, email |-> e]

\* Two Clerk users that share an address; a user without one is turned away and
\* an update is answered 200 and dropped.
MCMessages == {Created(c1, e1), Created(c2, e1), Created(c1, None), Updated(c1, e1)}
=============================================================================
