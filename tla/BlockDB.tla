------------------------------ MODULE BlockDB -------------------------------
(***************************************************************************)
(* blockdb.Chain.SaveBlock (blockdb/chain.go) for one chain of a test case. *)
(* Concurrent calls for the same block share one flight (singleflight);     *)
(* the flight's leader runs a sqlite transaction on the only connection of  *)
(* the pool (SetMaxOpenConns(1), sql.go:30): INSERT OR REPLACE of the block *)
(* row, which deletes the old row and, through ON DELETE CASCADE, its       *)
(* transactions, then one INSERT per transaction, then COMMIT.  Any         *)
(* statement may fail, or the leader's context may end; the deferred        *)
(* Rollback then undoes everything.                                         *)
(*                                                                         *)
(* Abstractions: the events of a transaction are part of its row.  The      *)
(* flight's key is the block's height and the hash of its transactions,     *)
(* which need not tell two lists apart: it takes neither their events nor   *)
(* the places where one transaction ends into account.                      *)
(***************************************************************************)
EXTENDS Naturals, Sequences, FiniteSets

CONSTANTS
  Callers,    \* goroutines that call SaveBlock
  Heights,
  TxLists,    \* the transaction lists they pass
  HashOf,     \* transactions.Hash of each list, lists that share one included
  MaxSaves,   \* bound: transactions ever committed
  None

ASSUME ListsAssumption ==
  \A l \in TxLists : Len(l) \in Nat /\ l = [i \in 1..Len(l) |-> l[i]]
ASSUME ConstantsAssumption == None \notin Callers /\ MaxSaves \in Nat

VARIABLES
  pc,       \* [Callers -> ...]
  args,     \* [Callers -> Heights \X TxLists or None]
  leader,   \* [Callers -> Callers or None]: whose flight a caller is on
  conn,     \* the caller whose transaction is open, or None
  blocks,   \* committed rows of table block: [id, height]
  txs,      \* committed rows of table tx: [block, pos, data]
  wblocks, wtxs, \* the same tables as the open transaction sees them
  blockID,  \* id of the row the open transaction inserted
  nextID    \* AUTOINCREMENT of table block, rolled back with the transaction

vars == <<pc, args, leader, conn, blocks, txs, wblocks, wtxs, blockID, nextID>>
tables == <<blocks, txs>>
work == <<wblocks, wtxs, blockID>>

Init ==
  /\ pc = [p \in Callers |-> "idle"] /\ args = [p \in Callers |-> None]
  /\ leader = [p \in Callers |-> None]
  /\ conn = None /\ blocks = {} /\ txs = {} /\ wblocks = {} /\ wtxs = {}
  /\ blockID = None /\ nextID = 1

Key(p) == <<args[p][1], HashOf[args[p][2]]>>
Flying(p) == pc[p] \in {"begin", "replace", "insert", "commit"}   \* leads a flight
Flight(p) == {q \in Callers : leader[q] = p}

\* The bound counts the calls in progress, each of which may commit: no call
\* that was made waits because of it.
Call(p) ==
  /\ pc[p] = "idle"
  /\ nextID + Cardinality({q \in Callers : pc[q] # "idle"}) <= MaxSaves
  /\ \E h \in Heights, l \in TxLists : args' = [args EXCEPT ![p] = <<h, l>>]
  /\ pc' = [pc EXCEPT ![p] = "do"]
  /\ UNCHANGED <<leader, conn, tables, work, nextID>>

\* single.Do: join the flight with this key, or start one.
Join(p) ==
  /\ pc[p] = "do"
  /\ \E q \in Callers :
       /\ Flying(q) /\ Key(q) = Key(p)
       /\ leader' = [leader EXCEPT ![p] = q]
  /\ pc' = [pc EXCEPT ![p] = "joined"]
  /\ UNCHANGED <<args, conn, tables, work, nextID>>

Lead(p) ==
  /\ pc[p] = "do" /\ \A q \in Callers : Flying(q) => Key(q) # Key(p)
  /\ leader' = [leader EXCEPT ![p] = p]
  /\ pc' = [pc EXCEPT ![p] = "begin"]
  /\ UNCHANGED <<args, conn, tables, work, nextID>>

\* BeginTx waits for the connection.
BeginTx(p) ==
  /\ pc[p] = "begin" /\ conn = None
  /\ conn' = p /\ wblocks' = blocks /\ wtxs' = txs
  /\ pc' = [pc EXCEPT ![p] = "replace"]
  /\ UNCHANGED <<args, leader, tables, blockID, nextID>>

\* Mutant: without ON DELETE CASCADE the transactions of the old row stay.
ReplaceBlockOnly(p) ==
  /\ pc[p] = "replace"
  /\ wblocks' = {b \in wblocks : b.height # args[p][1]} \cup {[id |-> nextID, height |-> args[p][1]]}
  /\ blockID' = nextID
  /\ pc' = [pc EXCEPT ![p] = "insert"]
  /\ UNCHANGED <<args, leader, conn, tables, wtxs, nextID>>
\* Mutant: a plain INSERT next to the old row.
ReplaceBlockInserts(p) ==
  /\ pc[p] = "replace"
  /\ wblocks' = wblocks \cup {[id |-> nextID, height |-> args[p][1]]}
  /\ blockID' = nextID
  /\ pc' = [pc EXCEPT ![p] = "insert"]
  /\ UNCHANGED <<args, leader, conn, tables, wtxs, nextID>>

\* INSERT OR REPLACE INTO block; UNIQUE(height) is per chain.
ReplaceBlock(p) ==
  /\ pc[p] = "replace"
  /\ LET old == {b \in wblocks : b.height = args[p][1]}
     IN /\ wblocks' = (wblocks \ old) \cup {[id |-> nextID, height |-> args[p][1]]}
        /\ wtxs' = {t \in wtxs : \A b \in old : t.block # b.id}
  /\ blockID' = nextID
  /\ pc' = [pc EXCEPT ![p] = "insert"]
  /\ UNCHANGED <<args, leader, conn, tables, nextID>>

Inserted == Cardinality({t \in wtxs : t.block = blockID})

\* One iteration of the loop over the transactions.
InsertTx(p) ==
  /\ pc[p] = "insert"
  /\ IF Inserted < Len(args[p][2])
     THEN /\ wtxs' = wtxs \cup {[block |-> blockID, pos |-> Inserted + 1, data |-> args[p][2][Inserted + 1]]}
          /\ UNCHANGED pc
     ELSE /\ pc' = [pc EXCEPT ![p] = "commit"] /\ UNCHANGED wtxs
  /\ UNCHANGED <<args, leader, conn, tables, wblocks, blockID, nextID>>

\* The flight ends: the leader and everybody who joined it get its result.
Land(p, result) ==
  /\ pc' = [q \in Callers |-> IF q \in Flight(p) THEN result ELSE pc[q]]
  /\ leader' = [q \in Callers |-> IF q \in Flight(p) THEN None ELSE leader[q]]

Commit(p) ==
  /\ pc[p] = "commit"
  /\ blocks' = wblocks /\ txs' = wtxs /\ nextID' = nextID + 1
  /\ conn' = None /\ wblocks' = {} /\ wtxs' = {} /\ blockID' = None
  /\ Land(p, "saved")
  /\ UNCHANGED args

\* Mutant: the connection of a failed transaction is not given back.
RollbackLeaks(p) ==
  /\ Flying(p)
  /\ Land(p, "failed")
  /\ UNCHANGED <<args, conn, tables, work, nextID>>

\* A statement or the commit failed, or the leader's context ended.
Rollback(p) ==
  /\ Flying(p)
  /\ IF conn = p THEN conn' = None /\ wblocks' = {} /\ wtxs' = {} /\ blockID' = None
     ELSE UNCHANGED <<conn, work>>
  /\ Land(p, "failed")
  /\ UNCHANGED <<args, tables, nextID>>

Return(p) ==
  /\ pc[p] \in {"saved", "failed"}
  /\ pc' = [pc EXCEPT ![p] = "idle"] /\ args' = [args EXCEPT ![p] = None]
  /\ UNCHANGED <<leader, conn, tables, work, nextID>>

\* The run's bound is reached and nobody is in a call.
Done == nextID > MaxSaves /\ (\A p \in Callers : pc[p] = "idle") /\ UNCHANGED vars

Next ==
  \/ \E p \in Callers :
       \/ Call(p) \/ Join(p) \/ Lead(p) \/ BeginTx(p) \/ ReplaceBlock(p) \/ InsertTx(p)
       \/ Commit(p) \/ Rollback(p) \/ Return(p)
  \/ Done
Spec == Init /\ [][Next]_vars

\* A statement the driver runs ends, well or badly.  A caller that waits for the
\* connection need not give up: only its context could make it, and nothing ends
\* that.  database/sql hands a connection that is given back to the goroutines
\* waiting for it in order, so a caller gets one that is given back over and over.
FairSpec == Spec /\ \A p \in Callers :
  /\ WF_vars(\/ Join(p) \/ Lead(p) \/ ReplaceBlock(p) \/ InsertTx(p) \/ Commit(p)
             \/ (pc[p] # "begin" /\ Rollback(p)) \/ Return(p))
  /\ SF_vars(BeginTx(p))

----------------------------------------------------------------------------
(* Properties *)

Rows(id) == {t \in txs : t.block = id}

\* Every transaction row belongs to a block row, and a height has one block row:
\* replacing a block takes its transactions along (REPLACE with ON DELETE CASCADE).
NoOrphans ==
  /\ \A t \in txs : \E b \in blocks : b.id = t.block
  /\ \A b, c \in blocks : b.height = c.height => b = c

\* The tables as the abstract store: the transactions of a height, in order.
Stored == [h \in Heights |->
  IF \E b \in blocks : b.height = h
  THEN LET rows == Rows((CHOOSE b \in blocks : b.height = h).id)
       IN [i \in 1..Cardinality(rows) |-> (CHOOSE t \in rows : t.pos = i).data]
  ELSE None]
Status == [p \in Callers |->
  IF pc[p] \in {"idle", "saved", "failed"} THEN pc[p] ELSE "called"]

Abstract == INSTANCE BlockStore WITH store <- Stored, status <- Status

\* SaveBlock implements the atomic store: readers of the tables see a block
\* whole or not at all, and a caller that got nil had its block stored, or that
\* of a concurrent caller with the same height and hash.
ImplementsStore == Abstract!Spec

\* Every call of SaveBlock returns, the ones that joined a failing flight too,
\* although none that waits for the only connection ever has to give up: each
\* transaction gives it back, whatever statement fails (the deferred Rollback,
\* chain.go:45).
SaveReturns == \A p \in Callers : pc[p] = "do" ~> pc[p] = "idle"
=============================================================================
