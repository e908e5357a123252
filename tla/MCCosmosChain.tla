--------------------------- MODULE MCCosmosChain ----------------------------
(* Two validators, one full node that is added, two sidecars.                *)
EXTENDS CosmosChain
CONSTANTS s1, s2
=============================================================================
