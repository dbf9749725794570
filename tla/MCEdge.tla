------------------------------- MODULE MCEdge -------------------------------
(* A small instance of Edge.                                               *)
EXTENDS Edge

CONSTANTS u1, u2
=============================================================================
