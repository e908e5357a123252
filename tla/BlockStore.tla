----------------------------- MODULE BlockStore -----------------------------
(***************************************************************************)
(* What blockdb.Chain promises its callers: SaveBlock stores the block's    *)
(* transactions at once or not at all, a caller that is told so finds its   *)
(* block stored between its call and its return, and saving the same block  *)
(* again changes nothing (blockdb/chain.go:29-31).                          *)
(*                                                                         *)
(* Concurrent calls are told apart by the height and the hash of the list   *)
(* (chain.go:33).  The hash runs over the data of the transactions without  *)
(* a separator and leaves their events out (chain.go:21-27), so two lists   *)
(* may share it: a caller that shares a write is then told that its block   *)
(* is stored, although the list stored is the other's.  The promise says so.*)
(***************************************************************************)
CONSTANTS Callers, Heights, TxLists, HashOf, None

VARIABLES store, status, args
vars == <<store, status, args>>

Init ==
  /\ store = [h \in Heights |-> None]
  /\ status = [p \in Callers |-> "idle"]
  /\ args = [p \in Callers |-> None]

Call(p) ==
  /\ status[p] = "idle"
  /\ \E h \in Heights, txs \in TxLists : args' = [args EXCEPT ![p] = <<h, txs>>]
  /\ status' = [status EXCEPT ![p] = "called"]
  /\ UNCHANGED store

\* One write serves a group of callers with the same height and hash: it stores
\* the list of one of them.
Save(S) ==
  /\ \A p \in S : status[p] = "called"
  /\ \E p \in S :
       /\ \A q \in S : args[q][1] = args[p][1] /\ HashOf[args[q][2]] = HashOf[args[p][2]]
       /\ store' = [store EXCEPT ![args[p][1]] = args[p][2]]
  /\ status' = [p \in Callers |-> IF p \in S THEN "saved" ELSE status[p]]
  /\ UNCHANGED args

Fail(S) ==
  /\ S # {} /\ \A p \in S : status[p] = "called"
  /\ status' = [p \in Callers |-> IF p \in S THEN "failed" ELSE status[p]]
  /\ UNCHANGED <<store, args>>

Return(p) ==
  /\ status[p] \in {"saved", "failed"}
  /\ status' = [status EXCEPT ![p] = "idle"]
  /\ args' = [args EXCEPT ![p] = None]
  /\ UNCHANGED store

Next ==
  \/ \E p \in Callers : Call(p) \/ Return(p)
  \/ \E S \in SUBSET Callers : Save(S) \/ Fail(S)
Spec == Init /\ [][Next]_vars
=============================================================================
