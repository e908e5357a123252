------------------------------ MODULE MCBlockDB -----------------------------
(* Callers that save three versions of a block: the empty one, one with the  *)
(* transactions a and b, and one with a single transaction whose data is     *)
(* theirs put together, which has the same hash (chain.go:21-27).            *)
EXTENDS BlockDB
CONSTANTS a, b, ab, p1, p2, p3
Lists == {<<>>, <<a, b>>, <<ab>>}
Hashes == [l \in TxLists |-> l # <<>>]
=============================================================================
