-------------------------- MODULE MCSingpassProxy --------------------------
(* A small instance of SingpassProxy: a login and two callbacks.           *)
EXTENDS SingpassProxy

CONSTANTS l1, h1, h2

MCCallers == {l1, h1, h2}
MCLogins == {l1}
=============================================================================
