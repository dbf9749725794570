-------------------------- MODULE MCClientLibrary --------------------------
(* A small instance of ClientLibrary, and so of Lifecycle.                 *)
EXTENDS ClientLibrary

CONSTANTS k1, k2
=============================================================================
