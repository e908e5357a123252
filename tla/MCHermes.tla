---------------------------- MODULE MCHermes ----------------------------
(* Two paths between the same chains, in opposite directions, and a third   *)
(* chain whose clients a path can be given by mistake: cA and cC already    *)
(* track each other when the calls start.  One goroutine works on both      *)
(* paths, the other one on the path that is there from the start.           *)
EXTENDS HermesRelayer
CONSTANTS t1, t2, cA, cB, cC, pAB, pBA

SomePaths == [t \in Threads |-> IF t = t1 THEN Paths ELSE {pAB}]
OppositeEnds == [p \in Paths |-> IF p = pAB THEN <<cA, cB>> ELSE <<cB, cA>>]
OppositeGenerated == <<pAB>>
ClientOpts ==
  [chain: {<<None, None>>}, client: {<<1, 1>>}, conn: {<<None, None>>}]
ForeignHost == {<<cC, cA>>}
ForeignClients == [c \in Chains |-> CASE c = cA -> <<cC>> [] c = cC -> <<cA>> [] OTHER -> <<>>]
=============================================================================
