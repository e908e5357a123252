--------------------------- MODULE MCNodeWallets ---------------------------
(* Two goroutines of the test.  utxo, with the longest scripts, has one key   *)
(* name beside the faucet's and two calls after Start; geth two names.         *)
EXTENDS NodeWallets
CONSTANTS k1, k2

SomeUsers == [f \in Families |-> IF f = "geth" THEN {k1, k2} ELSE {k1}]
FewCalls == [f \in Families |-> IF f = "anvil" THEN 4 ELSE 3]
OneOfBoth == {<<TRUE, FALSE>>, <<FALSE, TRUE>>}
=============================================================================
