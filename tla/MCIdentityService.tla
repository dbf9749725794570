------------------------- MODULE MCIdentityService -------------------------
(* A small instance of IdentityService: one registered user, one call of   *)
(* each kind at a time, two logins.                                        *)
EXTENDS IdentityService

CONSTANTS c1, e1, n1, n2, sg, r1, w1, h1, s1, s2

OneAccount == {[clerk |-> c1, email |-> e1, uid |-> 1]}
KnownId == {1}

\* A new name, and a market.
MCUpdates == {[name |-> n2, market |-> None], [name |-> None, market |-> sg]}

\* A verified identity and one without a name.
MCUserInfos == {[name |-> n1, email |-> e1], [name |-> None, email |-> e1]}

NoTags == [e \in Emails |-> e]
=============================================================================
