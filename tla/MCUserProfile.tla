--------------------------- MODULE MCUserProfile ---------------------------
(* Small instances of UserProfile.                                         *)
EXTENDS UserProfile

CONSTANTS c1, e1, n1, n2, sg, hk, w1, w2, r1, r2

OneAccount == {[clerk |-> c1, email |-> e1, uid |-> 1]}

\* User 1 is registered, user 2 is not.
MCQueriedIds == {1, 2}
KnownId == {1}

Asks(n, m) == [name |-> n, market |-> m]

\* Either column alone, both, an unsupported market and nothing at all.
MCUpdates ==
    {Asks(n2, None), Asks(None, sg), Asks(None, hk), Asks(n2, hk),
     Asks(n2, Unsupported), Asks(None, None)}

\* Two markets and a name, all for one user.
TwoMarkets == {Asks(None, sg), Asks(None, hk), Asks(n2, None)}
=============================================================================
