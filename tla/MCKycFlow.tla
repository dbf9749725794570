----------------------------- MODULE MCKycFlow -----------------------------
(* Small instances of KycFlow.                                             *)
EXTENDS KycFlow

CONSTANTS c1, c2, e1, e1test, e2, n1, s1, s2, h1, h2

\* User 1 signed up with a "+clerk_test" alias of e1.
MCAccounts == {[clerk |-> c1, email |-> e1test, uid |-> 1],
               [clerk |-> c2, email |-> e2, uid |-> 2]}

MCUntagged == [e \in Emails |-> IF e = e1test THEN e1 ELSE e]

\* A verified identity, one without a name, and one without an address.
MCUserInfos == {[name |-> n1, email |-> e1], [name |-> None, email |-> e2],
                [name |-> n1, email |-> None]}

Interchangeable == Permutations(Callbacks) \cup Permutations(States)
=============================================================================
