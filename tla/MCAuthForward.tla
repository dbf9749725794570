--------------------------- MODULE MCAuthForward ---------------------------
(* A small instance of AuthForward.                                        *)
EXTENDS AuthForward

CONSTANTS c1, c2, e1, h1, f1, f2, k1, k2

Created(c, e) == [type |-> "user.created", clerk |-> c, email |-> e]
Bearer(c, k, genuine) == [clerk |-> c, kid |-> k, genuine |-> genuine]

\* Two Clerk users share an address: the second one is never bound.
MCMessages == {Created(c1, e1), Created(c2, e1)}

\* One subject under either key, the other subject, and a forged token.
MCTokens == {Bearer(c1, k1, TRUE), Bearer(c1, k2, TRUE),
             Bearer(c2, k1, TRUE), Bearer(c1, k1, FALSE)}

Interchangeable == Permutations(Forwards)
=============================================================================
