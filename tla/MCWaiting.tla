----------------------------- MODULE MCWaiting ------------------------------
(* Two chains, or a chain and a node of it.                                   *)
EXTENDS Waiting
CONSTANTS c1, c2
=============================================================================
