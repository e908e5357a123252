--------------------------- MODULE BlockDB_proofs ---------------------------
(***************************************************************************)
(* For any callers, heights and transaction lists, and whatever statement    *)
(* fails: the committed tables never hold a transaction row without its      *)
(* block row, nor two block rows of one height, and SaveBlock implements the *)
(* atomic store of BlockStore.                                               *)
(***************************************************************************)
EXTENDS BlockDB, BlockTracker, FiniteSetTheorems, FunctionTheorems, TLAPS

\* What NoOrphans says, of any pair of tables.
Whole(bs, ts) ==
  /\ \A t \in ts : \E b \in bs : b.id = t.block
  /\ \A b, c \in bs : b.height = c.height => b = c

Holding(p) == pc[p] \in {"replace", "insert", "commit"}   \* has begun its transaction

\* The leader of a flight is on it, so that Land moves it too.
LeadersFly == \A p \in Callers : Flying(p) => leader[p] = p

\* One connection: the tables of the open transaction are its holder's.
HolderConnected == \A p \in Callers : Holding(p) => conn = p

\* The block row whose transactions are being inserted is there.
RowInserted == \A p \in Callers : pc[p] \in {"insert", "commit"} => \E b \in wblocks : b.id = blockID

\* The inductive invariant: the open transaction's tables are whole at every
\* statement, not only when they are committed.
DBInv ==
  /\ DOMAIN pc = Callers /\ DOMAIN leader = Callers
  /\ LeadersFly /\ HolderConnected /\ RowInserted
  /\ Whole(blocks, txs) /\ Whole(wblocks, wtxs)

\* The tables are empty initially.
LEMMA InitDBInv == Init => DBInv
  BY DEF Init, DBInv, LeadersFly, HolderConnected, RowInserted, Whole, Flying, Holding

\* The steps that leave the connection and the tables alone.
LEMMA QuietKeeps ==
  ASSUME DBInv, NEW p \in Callers, NEW l, pc' = [pc EXCEPT ![p] = l],
         l \notin {"replace", "insert", "commit"}, l = "begin" => leader'[p] = p,
         DOMAIN leader' = Callers, \A q \in Callers \ {p} : leader'[q] = leader[q],
         UNCHANGED <<conn, tables, work>>
  PROVE  DBInv'
<1>1. /\ DOMAIN pc' = Callers /\ pc'[p] = l /\ \A q \in Callers \ {p} : pc'[q] = pc[q]
  BY DEF DBInv
<1>2. LeadersFly'  BY <1>1 DEF DBInv, LeadersFly, Flying
<1>3. HolderConnected'  BY <1>1 DEF DBInv, HolderConnected, Holding
<1>4. RowInserted'  BY <1>1 DEF DBInv, RowInserted, work
<1>5. Whole(blocks, txs)' /\ Whole(wblocks, wtxs)'  BY DEF DBInv, Whole, tables, work
<1> QED  BY <1>1, <1>2, <1>3, <1>4, <1>5 DEF DBInv

\* BeginTx copies whole tables.
LEMMA BeginKeeps == ASSUME DBInv, NEW p \in Callers, BeginTx(p) PROVE DBInv'
<1>1. /\ pc[p] = "begin" /\ conn = None /\ conn' = p /\ leader' = leader
      /\ blocks' = blocks /\ txs' = txs /\ wblocks' = blocks /\ wtxs' = txs
      /\ pc' = [pc EXCEPT ![p] = "replace"]
  BY DEF BeginTx, tables
<1>2. DOMAIN pc' = Callers /\ pc'[p] = "replace" /\ \A q \in Callers \ {p} : pc'[q] = pc[q]
  BY <1>1 DEF DBInv
<1>3. LeadersFly'  BY <1>1, <1>2 DEF DBInv, LeadersFly, Flying
<1>4. \A q \in Callers : ~Holding(q)  BY <1>1, ConstantsAssumption DEF DBInv, HolderConnected
<1>5. HolderConnected'  BY <1>1, <1>2, <1>4 DEF HolderConnected, Holding
<1>6. RowInserted'  BY <1>2, <1>4 DEF RowInserted, Holding
<1>7. Whole(blocks, txs)' /\ Whole(wblocks, wtxs)'  BY <1>1 DEF DBInv, Whole
<1> QED  BY <1>1, <1>2, <1>3, <1>5, <1>6, <1>7 DEF DBInv

\* INSERT OR REPLACE: the rows the cascade leaves belong to the blocks it leaves.
LEMMA ReplaceKeeps == ASSUME DBInv, NEW p \in Callers, ReplaceBlock(p) PROVE DBInv'
<1> DEFINE h == args[p][1]
           old == {b \in wblocks : b.height = h}
           new == [id |-> nextID, height |-> h]
<1>1. /\ pc[p] = "replace" /\ conn' = conn /\ leader' = leader /\ blocks' = blocks /\ txs' = txs
      /\ wblocks' = (wblocks \ old) \cup {new}
      /\ wtxs' = {t \in wtxs : \A b \in old : t.block # b.id}
      /\ blockID' = nextID
      /\ pc' = [pc EXCEPT ![p] = "insert"]
  BY DEF ReplaceBlock, tables
<1>2. DOMAIN pc' = Callers /\ pc'[p] = "insert" /\ \A q \in Callers \ {p} : pc'[q] = pc[q]
  BY <1>1 DEF DBInv
<1>3. LeadersFly'  BY <1>1, <1>2 DEF DBInv, LeadersFly, Flying
<1>4. HolderConnected'  BY <1>1, <1>2 DEF DBInv, HolderConnected, Holding
<1>5. new.id = nextID /\ new.height = h  OBVIOUS
<1>6. RowInserted'  BY <1>1, <1>5 DEF RowInserted
<1> HIDE DEF new, h
<1>7. Whole(wblocks', wtxs')
  <2>1. \A t \in wtxs' : \E b \in wblocks' : b.id = t.block
    <3> SUFFICES ASSUME NEW t \in wtxs' PROVE \E b \in wblocks' : b.id = t.block  OBVIOUS
    <3>1. t \in wtxs /\ \A b \in old : t.block # b.id  BY <1>1
    <3>2. PICK b \in wblocks : b.id = t.block  BY <3>1 DEF DBInv, Whole
    <3>3. b \notin old  BY <3>1, <3>2
    <3> QED  BY <1>1, <3>2, <3>3
  <2>2. \A b, c \in wblocks' : b.height = c.height => b = c
    <3>1. \A b \in wblocks' : b = new \/ (b \in wblocks /\ b.height # h)  BY <1>1
    <3> QED  BY <1>5, <3>1 DEF DBInv, Whole
  <2> QED  BY <2>1, <2>2 DEF Whole
<1>8. Whole(blocks', txs')  BY <1>1 DEF DBInv, Whole
<1>9. DOMAIN leader' = Callers  BY <1>1 DEF DBInv
<1> QED  BY <1>2, <1>3, <1>4, <1>6, <1>7, <1>8, <1>9 DEF DBInv, Whole

\* A transaction row goes to the block row that was just inserted.
LEMMA InsertKeeps == ASSUME DBInv, NEW p \in Callers, InsertTx(p) PROVE DBInv'
<1>1. /\ pc[p] = "insert" /\ conn' = conn /\ leader' = leader /\ blocks' = blocks /\ txs' = txs
      /\ wblocks' = wblocks /\ blockID' = blockID
      /\ \/ wtxs' = wtxs \cup {[block |-> blockID, pos |-> Inserted + 1, data |-> args[p][2][Inserted + 1]]}
            /\ pc' = pc
         \/ wtxs' = wtxs /\ pc' = [pc EXCEPT ![p] = "commit"]
  BY DEF InsertTx, tables
<1>2. /\ DOMAIN pc' = Callers /\ pc'[p] \in {"insert", "commit"}
      /\ \A q \in Callers \ {p} : pc'[q] = pc[q]
  BY <1>1 DEF DBInv
<1>3. LeadersFly'  BY <1>1, <1>2 DEF DBInv, LeadersFly, Flying
<1>4. HolderConnected'  BY <1>1, <1>2 DEF DBInv, HolderConnected, Holding
<1>5. RowInserted'  BY <1>1, <1>2 DEF DBInv, RowInserted
<1>6. \A t \in wtxs' : t \in wtxs \/ t.block = blockID  BY <1>1
<1>7. Whole(wblocks', wtxs')
  <2>1. \E b \in wblocks : b.id = blockID  BY <1>1 DEF DBInv, RowInserted
  <2> QED  BY <1>1, <1>6, <2>1 DEF DBInv, Whole
<1>8. Whole(blocks', txs') /\ DOMAIN leader' = Callers  BY <1>1 DEF DBInv, Whole
<1> QED  BY <1>2, <1>3, <1>4, <1>5, <1>7, <1>8 DEF DBInv, Whole

\* A flight that lands leaves nobody holding the connection its leader gives back.
LEMMA LandKeeps ==
  ASSUME DBInv, NEW p \in Callers, Flying(p), NEW r \in {"saved", "failed"}, Land(p, r),
         conn' = conn \/ conn = p,
         \/ UNCHANGED <<wblocks, wtxs, blockID>> /\ conn' = conn
         \/ conn = p /\ wblocks' = {} /\ wtxs' = {},
         Whole(blocks', txs')
  PROVE  DBInv'
<1>1. leader[p] = p  BY DEF DBInv, LeadersFly
<1>2. /\ pc' = [q \in Callers |-> IF q \in Flight(p) THEN r ELSE pc[q]]
      /\ leader' = [q \in Callers |-> IF q \in Flight(p) THEN None ELSE leader[q]]
  BY DEF Land
<1>3. /\ DOMAIN pc' = Callers /\ DOMAIN leader' = Callers
      /\ pc'[p] = r
      /\ \A q \in Callers : pc'[q] = r \/ (q # p /\ pc'[q] = pc[q] /\ leader'[q] = leader[q])
  BY <1>1, <1>2 DEF Flight
<1>4. LeadersFly'  BY <1>3 DEF DBInv, LeadersFly, Flying
<1>5. HolderConnected'  BY <1>3 DEF DBInv, HolderConnected, Holding
<1>6. RowInserted'  BY <1>3 DEF DBInv, RowInserted, HolderConnected, Holding
<1>7. Whole(wblocks', wtxs')  BY DEF DBInv, Whole
<1> QED  BY <1>3, <1>4, <1>5, <1>6, <1>7 DEF DBInv, Whole

\* Every step keeps the tables whole.
LEMMA DBInvStep == DBInv /\ [Next]_vars => DBInv'
<1> SUFFICES ASSUME DBInv, [Next]_vars PROVE DBInv'  OBVIOUS
<1>1. CASE UNCHANGED vars
  BY <1>1 DEF vars, tables, work, DBInv, LeadersFly, HolderConnected, RowInserted, Whole, Flying, Holding
<1>2. ASSUME NEW p \in Callers, Call(p) PROVE DBInv'
  <2>1. pc' = [pc EXCEPT ![p] = "do"] /\ UNCHANGED <<leader, conn, tables, work>>  BY <1>2 DEF Call
  <2> QED  BY <2>1, QuietKeeps DEF DBInv
<1>3. ASSUME NEW p \in Callers, Join(p) PROVE DBInv'
  <2>1. PICK q \in Callers : leader' = [leader EXCEPT ![p] = q]  BY <1>3 DEF Join
  <2>2. pc' = [pc EXCEPT ![p] = "joined"] /\ UNCHANGED <<conn, tables, work>>  BY <1>3 DEF Join
  <2>3. DOMAIN leader = Callers  BY DEF DBInv
  <2> QED  BY <2>1, <2>2, <2>3, QuietKeeps
<1>4. ASSUME NEW p \in Callers, Lead(p) PROVE DBInv'
  <2>1. /\ pc' = [pc EXCEPT ![p] = "begin"] /\ leader' = [leader EXCEPT ![p] = p]
        /\ UNCHANGED <<conn, tables, work>>
    BY <1>4 DEF Lead
  <2>2. DOMAIN leader = Callers  BY DEF DBInv
  <2> QED  BY <2>1, <2>2, QuietKeeps
<1>5. ASSUME NEW p \in Callers, Commit(p) PROVE DBInv'
  <2>1. /\ Flying(p) /\ Land(p, "saved") /\ blocks' = wblocks /\ txs' = wtxs
        /\ conn' = None /\ wblocks' = {} /\ wtxs' = {}
    BY <1>5 DEF Commit, Flying
  <2>2. conn = p  BY <1>5 DEF Commit, DBInv, HolderConnected, Holding
  <2>3. Whole(blocks', txs')  BY <2>1 DEF DBInv, Whole
  <2> QED  BY <2>1, <2>2, <2>3, LandKeeps
<1>6. ASSUME NEW p \in Callers, Rollback(p) PROVE DBInv'
  <2>1. /\ Flying(p) /\ Land(p, "failed") /\ blocks' = blocks /\ txs' = txs
        /\ \/ UNCHANGED <<wblocks, wtxs, blockID>> /\ conn' = conn
           \/ conn = p /\ wblocks' = {} /\ wtxs' = {}
    BY <1>6 DEF Rollback, tables, work
  <2>2. Whole(blocks', txs')  BY <2>1 DEF DBInv, Whole
  <2> QED  BY <2>1, <2>2, LandKeeps
<1>7. ASSUME NEW p \in Callers, Return(p) PROVE DBInv'
  <2>1. pc' = [pc EXCEPT ![p] = "idle"] /\ UNCHANGED <<leader, conn, tables, work>>  BY <1>7 DEF Return
  <2> QED  BY <2>1, QuietKeeps DEF DBInv
<1> QED
  BY <1>1, <1>2, <1>3, <1>4, <1>5, <1>6, <1>7, BeginKeeps, ReplaceKeeps, InsertKeeps DEF Next, Done

\* The committed tables are whole in every state, whichever statement of which
\* caller fails and whoever shares its flight (REPLACE with ON DELETE CASCADE
\* inside one transaction, chain.go:48-114).
THEOREM NoOrphansHolds == Spec => []NoOrphans
<1>1. DBInv => NoOrphans  BY DEF DBInv, Whole, NoOrphans
<1> QED  BY InitDBInv, DBInvStep, <1>1, PTL DEF Spec

----------------------------------------------------------------------------
(* SaveBlock implements BlockStore.                                          *)

Row(id, l, i) == [block |-> id, pos |-> i, data |-> l[i]]
RowsUpTo(id, l, k) == {Row(id, l, i) : i \in 1..k}   \* the first k transactions of list l
OfBlock(ts, id) == {t \in ts : t.block = id}
HasRows(ts, id, l) == OfBlock(ts, id) = RowsUpTo(id, l, Len(l))

\* What Stored says of one height, of any pair of tables.
BlockAt(bs, h) == CHOOSE b \in bs : b.height = h
ReadRows(rows) == [i \in 1..Cardinality(rows) |-> (CHOOSE t \in rows : t.pos = i).data]
StoredOf(bs, ts, h) ==
  IF \E b \in bs : b.height = h THEN ReadRows(OfBlock(ts, BlockAt(bs, h).id)) ELSE None

\* A caller has arguments while it is called; those on a flight have the key of
\* its leader, so the leader's write answers them all.
FlightInv ==
  /\ DOMAIN args = Callers
  /\ \A p \in Callers : pc[p] # "idle" => args[p] \in Heights \X TxLists
  /\ \A p, q \in Callers : leader[q] = p =>
       /\ Flying(p) /\ Key(q) = Key(p)
       /\ Flying(q) \/ pc[q] = "joined"

\* The committed tables: ids identify blocks and were all given out, and a block
\* row comes with the rows of one whole list.
TablesInv ==
  /\ nextID \in Nat
  /\ \A b \in blocks : b.id \in Nat /\ b.id < nextID
  /\ \A b, c \in blocks : b.id = c.id => b = c
  /\ \A b \in blocks : \E l \in TxLists : HasRows(txs, b.id, l)

\* The open transaction's tables: the committed ones but for the caller's height,
\* which has a new row and the first k transactions of the caller's list.
WorkOf(p) ==
  LET h == args[p][1]
      l == args[p][2]
  IN /\ pc[p] = "replace" => wblocks = blocks /\ wtxs = txs
     /\ pc[p] \in {"insert", "commit"} =>
          /\ blockID = nextID
          /\ wblocks = {b \in blocks : b.height # h} \cup {[id |-> nextID, height |-> h]}
          /\ \A b \in blocks, t \in wtxs \cup txs :
               b.height # h /\ t.block = b.id => (t \in wtxs <=> t \in txs)
          /\ \E k \in 0..Len(l) :
               /\ OfBlock(wtxs, nextID) = RowsUpTo(nextID, l, k)
               /\ pc[p] = "commit" => k = Len(l)

WorkInv == \A p \in Callers : WorkOf(p)

\* The inductive invariant of the refinement.
StoreInv == DBInv /\ FlightInv /\ TablesInv /\ WorkInv

\* The rows of the first k transactions are k.
LEMMA RowsCount == ASSUME NEW id, NEW l, NEW k \in Nat PROVE Cardinality(RowsUpTo(id, l, k)) = k
<1> DEFINE f == [i \in 1..k |-> Row(id, l, i)]
<1>1. f \in [1..k -> RowsUpTo(id, l, k)]  BY DEF RowsUpTo
<1>2. \A i, j \in 1..k : f[i] = f[j] => i = j
  <2>1. \A i \in 1..k : f[i].pos = i  BY DEF Row
  <2> QED  BY <2>1
<1>3. \A t \in RowsUpTo(id, l, k) : \E i \in 1..k : f[i] = t  BY DEF RowsUpTo
<1> HIDE DEF f
<1>4. f \in Bijection(1..k, RowsUpTo(id, l, k))
  BY <1>1, <1>2, <1>3 DEF Bijection, Injection, Surjection, IsInjective
<1>5. ExistsBijection(1..k, RowsUpTo(id, l, k))  BY <1>4 DEF ExistsBijection
<1> QED  BY <1>5, FS_CountingElements

\* The rows of a whole list read back as the list.
LEMMA ReadBack ==
  \A bs, ts, b, id, h, l :
    /\ b \in bs /\ l \in TxLists /\ b.id = id /\ b.height = h
    /\ \A c \in bs : c.height = h => c = b
    /\ HasRows(ts, id, l)
    => StoredOf(bs, ts, h) = l
<1> SUFFICES ASSUME NEW bs, NEW ts, NEW b, NEW id, NEW h, NEW l,
                    b \in bs, l \in TxLists, b.id = id, b.height = h,
                    \A c \in bs : c.height = h => c = b,
                    HasRows(ts, id, l)
             PROVE  StoredOf(bs, ts, h) = l
  BY Zenon
<1> DEFINE rows == RowsUpTo(id, l, Len(l))
<1>1. Len(l) \in Nat /\ l = [i \in 1..Len(l) |-> l[i]]  BY ListsAssumption
<1>2. BlockAt(bs, h) = b  BY DEF BlockAt
<1>3. Cardinality(rows) = Len(l)  BY <1>1, RowsCount
<1>4. \A i \in 1..Len(l) : (CHOOSE t \in rows : t.pos = i).data = l[i]
  <2> SUFFICES ASSUME NEW i \in 1..Len(l) PROVE (CHOOSE t \in rows : t.pos = i).data = l[i]  OBVIOUS
  <2>1. \A j \in 1..Len(l) : Row(id, l, j).pos = j /\ Row(id, l, j).data = l[j]  BY DEF Row
  <2>2. Row(id, l, i) \in rows  BY DEF RowsUpTo
  <2>3. \A t \in rows : t.pos = i => t = Row(id, l, i)
    <3> SUFFICES ASSUME NEW t \in rows, t.pos = i PROVE t = Row(id, l, i)  OBVIOUS
    <3>1. PICK j \in 1..Len(l) : t = Row(id, l, j)  BY DEF RowsUpTo
    <3> QED  BY <2>1, <3>1
  <2> HIDE DEF rows
  <2>4. (CHOOSE t \in rows : t.pos = i) = Row(id, l, i)  BY <2>1, <2>2, <2>3
  <2> QED  BY <2>1, <2>4
<1>5. StoredOf(bs, ts, h) = ReadRows(rows)  BY <1>2 DEF StoredOf, HasRows
<1> HIDE DEF rows
<1>6. ReadRows(rows) = l  BY <1>1, <1>3, <1>4 DEF ReadRows
<1> QED  BY <1>5, <1>6

\* Stored reads its tables.
LEMMA StoredReads ==
  /\ Stored = [h \in Heights |-> StoredOf(blocks, txs, h)]
  /\ Stored' = [h \in Heights |-> StoredOf(blocks', txs', h)]
  BY DEF Stored, Rows, StoredOf, ReadRows, OfBlock, BlockAt

\* Commit stores the caller's list at its height and touches no other height.
LEMMA CommitStores ==
  ASSUME StoreInv, NEW p \in Callers, Commit(p)
  PROVE  /\ args[p] \in Heights \X TxLists
         /\ Stored' = [Stored EXCEPT ![args[p][1]] = args[p][2]]
<1> DEFINE h == args[p][1]
           l == args[p][2]
           new == [id |-> nextID, height |-> h]
<1>1. pc[p] = "commit" /\ blocks' = wblocks /\ txs' = wtxs  BY DEF Commit
<1>2. args[p] \in Heights \X TxLists  BY <1>1 DEF StoreInv, FlightInv
<1>3. h \in Heights /\ l \in TxLists /\ Len(l) \in Nat  BY <1>2, ListsAssumption
<1>4. /\ blocks' = {b \in blocks : b.height # h} \cup {new}
      /\ \A b \in blocks, t \in txs' \cup txs :
           b.height # h /\ t.block = b.id => (t \in txs' <=> t \in txs)
      /\ OfBlock(txs', nextID) = RowsUpTo(nextID, l, Len(l))
  BY <1>1 DEF StoreInv, WorkInv, WorkOf
<1>5. new.id = nextID /\ new.height = h  OBVIOUS
<1> HIDE DEF new, h, l
<1>6. StoredOf(blocks', txs', h) = l
  <2>1. \A c \in blocks' : c.height = h => c = new  BY <1>4, <1>5
  <2>2. new \in blocks'  BY <1>4
  <2>3. HasRows(txs', nextID, l)  BY <1>4 DEF HasRows
  <2>4. l \in TxLists /\ new.id = nextID /\ new.height = h  BY <1>3, <1>5
  <2>5. \A b, id, ht, k :
          /\ b \in blocks' /\ k \in TxLists /\ b.id = id /\ b.height = ht
          /\ \A c \in blocks' : c.height = ht => c = b
          /\ HasRows(txs', id, k)
          => StoredOf(blocks', txs', ht) = k
    BY ReadBack
  <2> QED  BY <2>1, <2>2, <2>3, <2>4, <2>5
<1>7. ASSUME NEW ht \in Heights, ht # h PROVE StoredOf(blocks', txs', ht) = StoredOf(blocks, txs, ht)
  <2>1. \A b : b \in blocks' /\ b.height = ht <=> b \in blocks /\ b.height = ht  BY <1>4, <1>5, <1>7
  <2>2. CASE \E b \in blocks : b.height = ht
    <3>1. PICK b \in blocks : b.height = ht  BY <2>2
    <3>2. \A c \in blocks : c.height = ht => c = b  BY <3>1 DEF StoreInv, DBInv, Whole
    <3>3. BlockAt(blocks, ht) = b  BY <3>1, <3>2 DEF BlockAt
    <3>4. BlockAt(blocks', ht) = b  BY <2>1, <3>1, <3>2 DEF BlockAt
    <3>5. OfBlock(txs', b.id) = OfBlock(txs, b.id)  BY <1>4, <1>7, <3>1 DEF OfBlock
    <3> QED  BY <2>1, <3>1, <3>3, <3>4, <3>5 DEF StoredOf
  <2>3. CASE ~ \E b \in blocks : b.height = ht  BY <2>1, <2>3 DEF StoredOf
  <2> QED  BY <2>2, <2>3
<1>8. Stored' = [Stored EXCEPT ![h] = l]  BY <1>3, <1>6, <1>7, StoredReads
<1> QED  BY <1>2, <1>8 DEF h, l

\* Nobody is on a flight and nothing is stored initially.
LEMMA InitStoreInv == Init => StoreInv
<1> SUFFICES ASSUME Init PROVE StoreInv  OBVIOUS
<1>1. FlightInv  BY ConstantsAssumption DEF Init, FlightInv
<1>2. TablesInv  BY DEF Init, TablesInv
<1>3. WorkInv  BY DEF Init, WorkInv, WorkOf
<1> QED  BY <1>1, <1>2, <1>3, InitDBInv DEF StoreInv

\* The open transaction is its holder's alone.
LEMMA WorkQuiet ==
  ASSUME WorkInv, UNCHANGED <<tables, work, nextID>>,
         \A q \in Callers : pc'[q] \in {"replace", "insert", "commit"} => pc'[q] = pc[q] /\ args'[q] = args[q]
  PROVE  WorkInv'
<1> SUFFICES ASSUME NEW q \in Callers, pc'[q] \in {"replace", "insert", "commit"} PROVE WorkOf(q)'
  BY DEF WorkInv, WorkOf
<1>1. UNCHANGED <<blocks, txs, wblocks, wtxs, blockID, nextID>>  BY DEF tables, work
<1>2. pc'[q] = pc[q] /\ args'[q] = args[q] /\ WorkOf(q)  BY DEF WorkInv
<1> QED  BY <1>1, <1>2 DEF WorkOf, OfBlock, RowsUpTo, Row

\* A step that moves one caller and leaves tables and flights' arguments alone.
LEMMA FlightMove ==
  ASSUME StoreInv, NEW p \in Callers, NEW l, pc' = [pc EXCEPT ![p] = l], pc[p] # "idle", l # "idle",
         UNCHANGED <<args, leader>>, Flying(p),
         l \in {"begin", "replace", "insert", "commit"}
  PROVE  FlightInv'
<1>1. DOMAIN pc = Callers  BY DEF StoreInv, DBInv
<1>2. \A q \in Callers : Flying(q) => Flying(q)'  BY <1>1 DEF Flying
<1>3. \A q \in Callers : pc[q] = "joined" => pc'[q] = "joined"  BY <1>1 DEF Flying
<1>4. \A q \in Callers : pc'[q] # "idle" => pc[q] # "idle"  BY <1>1
<1> QED  BY <1>2, <1>3, <1>4 DEF StoreInv, FlightInv, Key

LEMMA CallFlight == ASSUME StoreInv, NEW p \in Callers, Call(p) PROVE FlightInv'
<1>1. PICK h \in Heights, l \in TxLists : args' = [args EXCEPT ![p] = <<h, l>>]  BY DEF Call
<1>2. /\ pc[p] = "idle" /\ pc' = [pc EXCEPT ![p] = "do"] /\ leader' = leader
      /\ DOMAIN pc = Callers /\ DOMAIN args = Callers
  BY DEF Call, StoreInv, DBInv, FlightInv
<1>3. \A q \in Callers : leader[q] # p /\ leader[p] # q
  BY <1>2 DEF StoreInv, FlightInv, Flying
<1>4. \A q \in Callers \ {p} : pc'[q] = pc[q] /\ args'[q] = args[q]  BY <1>1, <1>2
<1>5. pc'[p] = "do" /\ args'[p] = <<h, l>> /\ DOMAIN args' = Callers  BY <1>1, <1>2
<1>6. \A q \in Callers : pc'[q] # "idle" => args'[q] \in Heights \X TxLists
  BY <1>4, <1>5 DEF StoreInv, FlightInv
<1>7. \A q, r \in Callers : leader'[r] = q => Flying(q)' /\ Key(r)' = Key(q)' /\ (Flying(r)' \/ pc'[r] = "joined")
  BY <1>2, <1>3, <1>4 DEF StoreInv, FlightInv, Flying, Key
<1> QED  BY <1>5, <1>6, <1>7 DEF FlightInv

LEMMA JoinFlight == ASSUME StoreInv, NEW p \in Callers, Join(p) PROVE FlightInv'
<1>1. PICK q \in Callers : Flying(q) /\ Key(q) = Key(p) /\ leader' = [leader EXCEPT ![p] = q]
  BY DEF Join
<1>2. /\ pc[p] = "do" /\ pc' = [pc EXCEPT ![p] = "joined"] /\ args' = args
      /\ DOMAIN pc = Callers /\ DOMAIN leader = Callers /\ DOMAIN args = Callers
  BY DEF Join, StoreInv, DBInv, FlightInv
<1>3. pc'[p] = "joined" /\ \A r \in Callers \ {p} : pc'[r] = pc[r] /\ leader'[r] = leader[r]  BY <1>1, <1>2
<1>4. \A r \in Callers : Flying(r) => Flying(r)'  BY <1>2, <1>3 DEF Flying
<1>5. leader'[p] = q  BY <1>1, <1>2
<1>6. ASSUME NEW r \in Callers, NEW s \in Callers, leader'[r] = s
      PROVE  Flying(s)' /\ Key(r)' = Key(s)' /\ (Flying(r)' \/ pc'[r] = "joined")
  <2>1. CASE r = p  BY <1>1, <1>2, <1>3, <1>4, <1>5, <1>6, <2>1 DEF Key
  <2>2. CASE r # p  BY <1>2, <1>3, <1>4, <1>6, <2>2 DEF StoreInv, FlightInv, Key
  <2> QED  BY <2>1, <2>2
<1>7. \A r \in Callers : pc'[r] # "idle" => args'[r] \in Heights \X TxLists
  BY <1>2, <1>3 DEF StoreInv, FlightInv
<1> QED  BY <1>2, <1>6, <1>7 DEF FlightInv

LEMMA LeadFlight == ASSUME StoreInv, NEW p \in Callers, Lead(p) PROVE FlightInv'
<1>1. /\ pc[p] = "do" /\ pc' = [pc EXCEPT ![p] = "begin"] /\ args' = args
      /\ leader' = [leader EXCEPT ![p] = p]
      /\ DOMAIN pc = Callers /\ DOMAIN leader = Callers /\ DOMAIN args = Callers
  BY DEF Lead, StoreInv, DBInv, FlightInv
<1>2. /\ pc'[p] = "begin" /\ leader'[p] = p
      /\ \A r \in Callers \ {p} : pc'[r] = pc[r] /\ leader'[r] = leader[r]
  BY <1>1
<1>3. \A r \in Callers : Flying(r) => Flying(r)'  BY <1>1, <1>2 DEF Flying
<1>4. Flying(p)'  BY <1>2 DEF Flying
<1>5. ASSUME NEW r \in Callers, NEW s \in Callers, leader'[r] = s
      PROVE  Flying(s)' /\ Key(r)' = Key(s)' /\ (Flying(r)' \/ pc'[r] = "joined")
  BY <1>1, <1>2, <1>3, <1>4, <1>5 DEF StoreInv, FlightInv, Key
<1>6. \A r \in Callers : pc'[r] # "idle" => args'[r] \in Heights \X TxLists
  BY <1>1, <1>2 DEF StoreInv, FlightInv
<1> QED  BY <1>1, <1>5, <1>6 DEF FlightInv

\* A flight lands as a whole, and only its own callers leave.
LEMMA LandFlight ==
  ASSUME StoreInv, NEW p \in Callers, Flying(p), NEW r \in {"saved", "failed"}, Land(p, r), args' = args
  PROVE  FlightInv'
<1>1. /\ pc' = [q \in Callers |-> IF q \in Flight(p) THEN r ELSE pc[q]]
      /\ leader' = [q \in Callers |-> IF q \in Flight(p) THEN None ELSE leader[q]]
  BY DEF Land
<1>2. \A q \in Callers : q \in Flight(p) <=> leader[q] = p  BY DEF Flight
<1>3. \A q \in Callers : leader[q] = p => pc'[q] = r /\ leader'[q] = None  BY <1>1, <1>2
<1>4. \A q \in Callers : leader[q] # p => pc'[q] = pc[q] /\ leader'[q] = leader[q]  BY <1>1, <1>2
<1>5. ASSUME NEW q \in Callers, NEW s \in Callers, leader'[q] = s
      PROVE  Flying(s)' /\ Key(q)' = Key(s)' /\ (Flying(q)' \/ pc'[q] = "joined")
  <2>1. leader[q] # p /\ leader[q] = s  BY <1>3, <1>4, <1>5, ConstantsAssumption
  <2>2. Flying(s) /\ Key(q) = Key(s) /\ (Flying(q) \/ pc[q] = "joined")  BY <2>1 DEF StoreInv, FlightInv
  <2>3. leader[s] = s  BY <2>2 DEF StoreInv, DBInv, LeadersFly
  <2>4. pc'[s] = pc[s] /\ pc'[q] = pc[q]  BY <1>4, <2>1, <2>3
  <2> QED  BY <2>2, <2>4 DEF Flying, Key
<1>6. \A q \in Callers : pc[q] = "idle" => leader[q] # p  BY DEF StoreInv, FlightInv, Flying
<1>7. \A q \in Callers : pc'[q] # "idle" => args'[q] \in Heights \X TxLists
  BY <1>3, <1>4, <1>6 DEF StoreInv, FlightInv, Flying
<1>8. DOMAIN args' = Callers  BY DEF StoreInv, FlightInv
<1> QED  BY <1>5, <1>7, <1>8 DEF FlightInv

LEMMA ReturnFlight == ASSUME StoreInv, NEW p \in Callers, Return(p) PROVE FlightInv'
<1>1. /\ pc[p] \in {"saved", "failed"} /\ pc' = [pc EXCEPT ![p] = "idle"] /\ leader' = leader
      /\ args' = [args EXCEPT ![p] = None]
      /\ DOMAIN pc = Callers /\ DOMAIN args = Callers
  BY DEF Return, StoreInv, DBInv, FlightInv
<1>2. \A q \in Callers : leader[q] # p /\ leader[p] # q  BY <1>1 DEF StoreInv, FlightInv, Flying
<1>3. pc'[p] = "idle" /\ \A q \in Callers \ {p} : pc'[q] = pc[q] /\ args'[q] = args[q]  BY <1>1
<1>4. \A q \in Callers : pc'[q] # "idle" => args'[q] \in Heights \X TxLists
  BY <1>3 DEF StoreInv, FlightInv
<1>5. \A q, r \in Callers : leader'[r] = q => Flying(q)' /\ Key(r)' = Key(q)' /\ (Flying(r)' \/ pc'[r] = "joined")
  BY <1>1, <1>2, <1>3 DEF StoreInv, FlightInv, Flying, Key
<1>6. DOMAIN args' = Callers  BY <1>1
<1> QED  BY <1>4, <1>5, <1>6 DEF FlightInv

\* Commit leaves whole lists and fresh ids.
LEMMA CommitTables == ASSUME StoreInv, NEW p \in Callers, Commit(p) PROVE TablesInv'
<1> DEFINE h == args[p][1]
           l == args[p][2]
           new == [id |-> nextID, height |-> h]
<1>1. pc[p] = "commit" /\ blocks' = wblocks /\ txs' = wtxs /\ nextID' = nextID + 1  BY DEF Commit
<1>2. l \in TxLists  BY <1>1 DEF StoreInv, FlightInv
<1>3. /\ blocks' = {b \in blocks : b.height # h} \cup {new}
      /\ \A b \in blocks, t \in txs' \cup txs :
           b.height # h /\ t.block = b.id => (t \in txs' <=> t \in txs)
      /\ OfBlock(txs', nextID) = RowsUpTo(nextID, l, Len(l))
  BY <1>1 DEF StoreInv, WorkInv, WorkOf
<1>4. new.id = nextID /\ new.height = h  OBVIOUS
<1> HIDE DEF new, h, l
<1>5. nextID \in Nat /\ nextID' \in Nat  BY <1>1 DEF StoreInv, TablesInv
<1>6. \A b \in blocks' : b = new \/ (b \in blocks /\ b.height # h)  BY <1>3
<1>7. \A b \in blocks : b.id \in Nat /\ b.id < nextID  BY DEF StoreInv, TablesInv
<1>8. \A b \in blocks' : b.id \in Nat /\ b.id < nextID'  BY <1>1, <1>4, <1>5, <1>6, <1>7
<1>9. \A b, c \in blocks' : b.id = c.id => b = c
  <2>1. \A b \in blocks : b.id # nextID  BY <1>5, <1>7
  <2> QED  BY <1>4, <1>6, <2>1 DEF StoreInv, TablesInv
<1>10. ASSUME NEW b \in blocks' PROVE \E k \in TxLists : HasRows(txs', b.id, k)
  <2>1. CASE b = new  BY <1>2, <1>3, <1>4, <2>1 DEF HasRows
  <2>2. CASE b # new
    <3>1. b \in blocks /\ b.height # h  BY <1>6, <2>2
    <3>2. OfBlock(txs', b.id) = OfBlock(txs, b.id)  BY <1>3, <3>1 DEF OfBlock
    <3>3. PICK k \in TxLists : HasRows(txs, b.id, k)  BY <3>1 DEF StoreInv, TablesInv
    <3> QED  BY <3>2, <3>3 DEF HasRows
  <2> QED  BY <2>1, <2>2
<1> QED  BY <1>5, <1>8, <1>9, <1>10 DEF TablesInv

LEMMA TablesQuiet == ASSUME StoreInv, UNCHANGED <<tables, nextID>> PROVE TablesInv'
  BY DEF StoreInv, TablesInv, tables, HasRows, OfBlock, RowsUpTo, Row

LEMMA BeginWork == ASSUME StoreInv, NEW p \in Callers, BeginTx(p) PROVE WorkInv'
<1>1. /\ conn = None /\ pc' = [pc EXCEPT ![p] = "replace"] /\ DOMAIN pc = Callers
      /\ wblocks' = blocks /\ wtxs' = txs /\ blocks' = blocks /\ txs' = txs
  BY DEF BeginTx, tables, StoreInv, DBInv
<1>2. \A q \in Callers : ~Holding(q)  BY <1>1, ConstantsAssumption DEF StoreInv, DBInv, HolderConnected
<1>3. pc'[p] = "replace" /\ \A q \in Callers \ {p} : pc'[q] \notin {"replace", "insert", "commit"}
  BY <1>1, <1>2 DEF Holding
<1> QED  BY <1>1, <1>3 DEF WorkInv, WorkOf

\* Nobody else holds the connection.
LEMMA HolderAlone ==
  ASSUME StoreInv, NEW p \in Callers, Holding(p)
  PROVE  \A q \in Callers \ {p} : pc[q] \notin {"replace", "insert", "commit"}
  BY DEF StoreInv, DBInv, HolderConnected, Holding

LEMMA ReplaceWork == ASSUME StoreInv, NEW p \in Callers, ReplaceBlock(p) PROVE WorkInv'
<1> DEFINE h == args[p][1]
           l == args[p][2]
           old == {b \in wblocks : b.height = h}
<1>1. /\ pc[p] = "replace" /\ blocks' = blocks /\ txs' = txs /\ args' = args /\ nextID' = nextID
      /\ wblocks' = (wblocks \ old) \cup {[id |-> nextID, height |-> h]}
      /\ wtxs' = {t \in wtxs : \A b \in old : t.block # b.id}
      /\ blockID' = nextID
      /\ pc' = [pc EXCEPT ![p] = "insert"] /\ DOMAIN pc = Callers
  BY DEF ReplaceBlock, tables, StoreInv, DBInv
<1>2. pc'[p] = "insert" /\ \A q \in Callers \ {p} : pc'[q] \notin {"replace", "insert", "commit"}
  BY <1>1, HolderAlone DEF Holding
<1>3. wblocks = blocks /\ wtxs = txs  BY <1>1 DEF StoreInv, WorkInv, WorkOf
<1>4. wblocks' = {b \in blocks : b.height # h} \cup {[id |-> nextID, height |-> h]}  BY <1>1, <1>3
<1>5. \A b \in blocks, t \in wtxs' \cup txs : b.height # h /\ t.block = b.id => (t \in wtxs' <=> t \in txs)
  BY <1>1, <1>3 DEF StoreInv, TablesInv
<1>6. OfBlock(wtxs', nextID) = RowsUpTo(nextID, l, 0)
  <2>1. \A t \in txs : t.block # nextID
    <3>1. \A t \in txs : \E b \in blocks : b.id = t.block  BY DEF StoreInv, DBInv, Whole
    <3>2. nextID \in Nat /\ \A b \in blocks : b.id \in Nat /\ b.id < nextID  BY DEF StoreInv, TablesInv
    <3> QED  BY <3>1, <3>2
  <2>2. RowsUpTo(nextID, l, 0) = {}  BY DEF RowsUpTo
  <2>3. OfBlock(wtxs', nextID) = {}  BY <1>1, <1>3, <2>1 DEF OfBlock
  <2> QED  BY <2>2, <2>3
<1>7. 0 \in 0..Len(l)
  <2>1. args[p] \in Heights \X TxLists  BY <1>1 DEF StoreInv, FlightInv
  <2> QED  BY <2>1, ListsAssumption
<1> HIDE DEF h, l, old
<1>8. h = args'[p][1] /\ l = args'[p][2]  BY <1>1 DEF h, l
<1>9. WorkOf(p)'  BY <1>1, <1>2, <1>4, <1>5, <1>6, <1>7, <1>8 DEF WorkOf
<1>10. \A q \in Callers \ {p} : WorkOf(q)'  BY <1>2 DEF WorkOf
<1> QED  BY <1>9, <1>10 DEF WorkInv

LEMMA InsertWork == ASSUME StoreInv, NEW p \in Callers, InsertTx(p) PROVE WorkInv'
<1> DEFINE h == args[p][1]
           l == args[p][2]
<1>1. /\ pc[p] = "insert" /\ blocks' = blocks /\ txs' = txs /\ args' = args /\ nextID' = nextID
      /\ wblocks' = wblocks /\ blockID' = blockID /\ DOMAIN pc = Callers
  BY DEF InsertTx, tables, StoreInv, DBInv
<1>2. /\ blockID = nextID
      /\ wblocks = {b \in blocks : b.height # h} \cup {[id |-> nextID, height |-> h]}
      /\ \A b \in blocks, t \in wtxs \cup txs : b.height # h /\ t.block = b.id => (t \in wtxs <=> t \in txs)
  BY <1>1 DEF StoreInv, WorkInv, WorkOf
<1>3. PICK k \in 0..Len(l) : OfBlock(wtxs, nextID) = RowsUpTo(nextID, l, k)
  BY <1>1 DEF StoreInv, WorkInv, WorkOf
<1>4. Len(l) \in Nat
  <2>1. args[p] \in Heights \X TxLists  BY <1>1 DEF StoreInv, FlightInv
  <2> QED  BY <2>1, ListsAssumption
<1>5. Inserted = k
  <2>1. Inserted = Cardinality(OfBlock(wtxs, nextID))  BY <1>2 DEF Inserted, OfBlock
  <2> QED  BY <1>3, <1>4, <2>1, RowsCount
<1>6. \/ /\ k < Len(l) /\ pc' = pc
         /\ wtxs' = wtxs \cup {Row(nextID, l, k + 1)}
      \/ k = Len(l) /\ pc' = [pc EXCEPT ![p] = "commit"] /\ wtxs' = wtxs
  BY <1>2, <1>3, <1>4, <1>5 DEF InsertTx, Row
<1>7. \A q \in Callers \ {p} : pc'[q] \notin {"replace", "insert", "commit"}
  BY <1>1, <1>6, HolderAlone DEF Holding
<1> HIDE DEF h, l
<1>8. h = args'[p][1] /\ l = args'[p][2]  BY <1>1 DEF h, l
<1>9. CASE k < Len(l) /\ pc' = pc /\ wtxs' = wtxs \cup {Row(nextID, l, k + 1)}
  <2>1. Row(nextID, l, k + 1).block = nextID  BY DEF Row
  <2>2. k + 1 \in 0..Len(l) /\ k + 1 \in Nat  BY <1>4, <1>9
  <2>3. RowsUpTo(nextID, l, k + 1) = RowsUpTo(nextID, l, k) \cup {Row(nextID, l, k + 1)}
    <3>1. 1..(k + 1) = (1..k) \cup {k + 1}  BY <1>4
    <3> QED  BY <3>1 DEF RowsUpTo
  <2>4. OfBlock(wtxs', nextID) = RowsUpTo(nextID, l, k + 1)
    <3>1. OfBlock(wtxs', nextID) = OfBlock(wtxs, nextID) \cup {Row(nextID, l, k + 1)}  BY <1>9, <2>1 DEF OfBlock
    <3> QED  BY <1>3, <2>3, <3>1
  <2>5. \A b \in blocks, t \in wtxs' \cup txs : b.height # h /\ t.block = b.id => (t \in wtxs' <=> t \in txs)
    <3>1. \A b \in blocks : b.id # nextID  BY DEF StoreInv, TablesInv
    <3> QED  BY <1>2, <1>9, <2>1, <3>1
  <2>6. pc'[p] = "insert"  BY <1>1, <1>9
  <2> QED
    <3>1. WorkOf(p)'  BY <1>1, <1>2, <1>8, <2>2, <2>4, <2>5, <2>6 DEF WorkOf
    <3>2. \A q \in Callers \ {p} : WorkOf(q)'  BY <1>7 DEF WorkOf
    <3> QED  BY <3>1, <3>2 DEF WorkInv
<1>10. CASE k = Len(l) /\ pc' = [pc EXCEPT ![p] = "commit"] /\ wtxs' = wtxs
  <2>1. pc'[p] = "commit"  BY <1>1, <1>10
  <2>2. WorkOf(p)'  BY <1>1, <1>2, <1>3, <1>8, <1>10, <2>1 DEF WorkOf
  <2>3. \A q \in Callers \ {p} : WorkOf(q)'  BY <1>7 DEF WorkOf
  <2> QED  BY <2>2, <2>3 DEF WorkInv
<1> QED  BY <1>6, <1>9, <1>10

\* Every step keeps the invariant of the refinement.
LEMMA StoreInvStep == StoreInv /\ [Next]_vars => StoreInv'
<1> SUFFICES ASSUME StoreInv, [Next]_vars PROVE FlightInv' /\ TablesInv' /\ WorkInv'
  BY DBInvStep DEF StoreInv
<1>0. DOMAIN pc = Callers /\ DOMAIN args = Callers /\ WorkInv  BY DEF StoreInv, DBInv, FlightInv
<1>1. CASE UNCHANGED vars
  <2>1. FlightInv'  BY <1>1 DEF vars, StoreInv, FlightInv, Flying, Key
  <2>2. WorkInv'  BY <1>0, <1>1, WorkQuiet DEF vars, tables, work
  <2>3. TablesInv'  BY <1>1, TablesQuiet DEF vars, tables
  <2> QED  BY <2>1, <2>2, <2>3
<1>2. ASSUME NEW p \in Callers, Call(p) \/ Join(p) \/ Lead(p) \/ Return(p)
      PROVE  FlightInv' /\ TablesInv' /\ WorkInv'
  <2>1. FlightInv'  BY <1>2, CallFlight, JoinFlight, LeadFlight, ReturnFlight
  <2>2. /\ UNCHANGED <<tables, work, nextID>>
        /\ \E l \in {"do", "joined", "begin", "idle"} : pc' = [pc EXCEPT ![p] = l]
        /\ \A q \in Callers \ {p} : args'[q] = args[q]
    BY <1>0, <1>2 DEF Call, Join, Lead, Return
  <2>3. \A q \in Callers : pc'[q] \in {"replace", "insert", "commit"} => pc'[q] = pc[q] /\ args'[q] = args[q]
    BY <1>0, <2>2
  <2> QED  BY <1>0, <2>1, <2>2, <2>3, WorkQuiet, TablesQuiet
<1>3. ASSUME NEW p \in Callers, BeginTx(p) PROVE FlightInv' /\ TablesInv' /\ WorkInv'
  <2>1. FlightInv'  BY <1>3, FlightMove DEF BeginTx, Flying
  <2> QED  BY <1>3, <2>1, BeginWork, TablesQuiet DEF BeginTx
<1>4. ASSUME NEW p \in Callers, ReplaceBlock(p) PROVE FlightInv' /\ TablesInv' /\ WorkInv'
  <2>1. FlightInv'  BY <1>4, FlightMove DEF ReplaceBlock, Flying
  <2> QED  BY <1>4, <2>1, ReplaceWork, TablesQuiet DEF ReplaceBlock
<1>5. ASSUME NEW p \in Callers, InsertTx(p) PROVE FlightInv' /\ TablesInv' /\ WorkInv'
  <2>1. pc[p] = "insert" /\ UNCHANGED <<args, leader, tables, nextID>>  BY <1>5 DEF InsertTx
  <2>2. pc' = pc \/ pc' = [pc EXCEPT ![p] = "commit"]  BY <1>5 DEF InsertTx
  <2>3. ASSUME pc' = pc PROVE FlightInv'  BY <2>1, <2>3 DEF StoreInv, FlightInv, Flying, Key
  <2>4. ASSUME pc' = [pc EXCEPT ![p] = "commit"] PROVE FlightInv'  BY <2>1, <2>4, FlightMove DEF Flying
  <2> QED  BY <1>5, <2>1, <2>2, <2>3, <2>4, InsertWork, TablesQuiet
<1>6. ASSUME NEW p \in Callers, Commit(p) PROVE FlightInv' /\ TablesInv' /\ WorkInv'
  <2>1. Flying(p) /\ Holding(p) /\ Land(p, "saved") /\ args' = args  BY <1>6 DEF Commit, Flying, Holding
  <2>2. FlightInv'  BY <2>1, LandFlight
  <2>3. leader[p] = p  BY <2>1 DEF StoreInv, DBInv, LeadersFly
  <2>4. \A q \in Callers : pc'[q] \notin {"replace", "insert", "commit"}  BY <2>1, <2>3, HolderAlone DEF Land, Flight
  <2>5. WorkInv'  BY <2>4 DEF WorkInv, WorkOf
  <2> QED  BY <1>6, <2>2, <2>5, CommitTables
<1>7. ASSUME NEW p \in Callers, Rollback(p) PROVE FlightInv' /\ TablesInv' /\ WorkInv'
  <2>1. Flying(p) /\ Land(p, "failed") /\ UNCHANGED <<args, tables, nextID>>  BY <1>7 DEF Rollback
  <2>2. FlightInv'  BY <2>1, LandFlight
  <2>3. leader[p] = p  BY <2>1 DEF StoreInv, DBInv, LeadersFly
  <2>4. /\ pc'[p] = "failed"
        /\ \A q \in Callers : pc'[q] = "failed" \/ pc'[q] = pc[q]
    BY <2>1, <2>3 DEF Land, Flight
  <2>5. ASSUME conn = p PROVE WorkInv'
    <3>1. \A q \in Callers \ {p} : ~Holding(q)  BY <2>5 DEF StoreInv, DBInv, HolderConnected
    <3>2. \A q \in Callers : pc'[q] \notin {"replace", "insert", "commit"}  BY <2>4, <3>1 DEF Holding
    <3> QED  BY <3>2 DEF WorkInv, WorkOf
  <2>6. ASSUME conn # p PROVE WorkInv'
    <3>1. UNCHANGED work  BY <1>7, <2>6 DEF Rollback
    <3> QED  BY <1>0, <2>1, <2>4, <3>1, WorkQuiet
  <2> QED  BY <2>1, <2>2, <2>5, <2>6, TablesQuiet
<1> QED  BY <1>1, <1>2, <1>3, <1>4, <1>5, <1>6, <1>7 DEF Next, Done

\* Everybody on a flight has called and not been answered.
LEMMA FlightCalled ==
  ASSUME StoreInv, NEW p \in Callers, Flying(p)
  PROVE  p \in Flight(p) /\ \A q \in Flight(p) : Status[q] = "called" /\ Key(q) = Key(p)
<1>1. p \in Flight(p)  BY DEF StoreInv, DBInv, LeadersFly, Flight
<1>2. \A q \in Flight(p) : q \in Callers /\ Key(q) = Key(p) /\ (Flying(q) \/ pc[q] = "joined")
  BY DEF StoreInv, FlightInv, Flight
<1> QED  BY <1>1, <1>2 DEF Status, Flying

\* A step that stays within the call is none of the store's business.
LEMMA Stutters ==
  ASSUME UNCHANGED <<args, tables>>, Status' = Status PROVE UNCHANGED Abstract!vars
<1>1. Stored' = Stored  BY StoredReads DEF tables
<1> QED  BY <1>1 DEF Abstract!vars

\* A step that moves one caller moves its status.
LEMMA StatusMoves ==
  ASSUME StoreInv, NEW p \in Callers, NEW l, pc' = [pc EXCEPT ![p] = l]
  PROVE  Status' = [Status EXCEPT ![p] = IF l \in {"idle", "saved", "failed"} THEN l ELSE "called"]
  BY DEF StoreInv, DBInv, Status

LEMMA StatusLands ==
  ASSUME StoreInv, NEW p \in Callers, NEW r \in {"saved", "failed"}, Land(p, r)
  PROVE  Status' = [q \in Callers |-> IF q \in Flight(p) THEN r ELSE Status[q]]
  BY DEF Land, Status

\* Every step of SaveBlock is a step of the store or a stutter.
LEMMA StoreStep == StoreInv /\ [Next]_vars => [Abstract!Next]_(Abstract!vars)
<1> SUFFICES ASSUME StoreInv, [Next]_vars PROVE Abstract!Next \/ UNCHANGED Abstract!vars
  OBVIOUS
<1>1. CASE UNCHANGED vars
  BY <1>1, Stutters DEF vars, tables, Status
<1>2. ASSUME NEW p \in Callers, Call(p) PROVE Abstract!Next
  <2>1. /\ pc[p] = "idle" /\ pc' = [pc EXCEPT ![p] = "do"] /\ UNCHANGED tables
        /\ \E h \in Heights, l \in TxLists : args' = [args EXCEPT ![p] = <<h, l>>]
    BY <1>2 DEF Call
  <2>2. Status' = [Status EXCEPT ![p] = "called"]  BY <2>1, StatusMoves
  <2>3. Status[p] = "idle"  BY <2>1 DEF Status
  <2>4. Stored' = Stored  BY <2>1, StoredReads DEF tables
  <2>5. Abstract!Call(p)  BY <2>1, <2>2, <2>3, <2>4 DEF Abstract!Call
  <2> QED  BY <2>5 DEF Abstract!Next
<1>3. ASSUME NEW p \in Callers, Join(p) \/ Lead(p) \/ BeginTx(p) \/ ReplaceBlock(p) \/ InsertTx(p)
      PROVE  UNCHANGED Abstract!vars
  <2>1. /\ pc[p] \in {"do", "begin", "replace", "insert"} /\ UNCHANGED <<args, tables>>
        /\ \E l \in {"joined", "begin", "replace", "insert", "commit"} : pc' = pc \/ pc' = [pc EXCEPT ![p] = l]
    BY <1>3 DEF Join, Lead, BeginTx, ReplaceBlock, InsertTx
  <2>2. Status' = Status
    <3>1. DOMAIN pc = Callers  BY DEF StoreInv, DBInv
    <3> QED  BY <2>1, <3>1 DEF Status
  <2> QED  BY <2>1, <2>2, Stutters
<1>4. ASSUME NEW p \in Callers, Commit(p) PROVE Abstract!Next
  <2>1. Flying(p) /\ Land(p, "saved") /\ args' = args  BY <1>4 DEF Commit, Flying
  <2>2. Status' = [q \in Callers |-> IF q \in Flight(p) THEN "saved" ELSE Status[q]]  BY <2>1, StatusLands
  <2>3. p \in Flight(p) /\ \A q \in Flight(p) : Status[q] = "called" /\ Key(q) = Key(p)  BY <2>1, FlightCalled
  <2>4. /\ args[p] \in Heights \X TxLists
        /\ Stored' = [Stored EXCEPT ![args[p][1]] = args[p][2]]
    BY <1>4, CommitStores
  <2>5. \A q \in Flight(p) : args[q][1] = args[p][1] /\ HashOf[args[q][2]] = HashOf[args[p][2]]
    BY <2>3 DEF Key
  <2>6. Abstract!Save(Flight(p))  BY <2>1, <2>2, <2>3, <2>4, <2>5 DEF Abstract!Save
  <2> QED  BY <2>6 DEF Abstract!Next, Flight
<1>5. ASSUME NEW p \in Callers, Rollback(p) PROVE Abstract!Next
  <2>1. Flying(p) /\ Land(p, "failed") /\ UNCHANGED <<args, tables>>  BY <1>5 DEF Rollback
  <2>2. Status' = [q \in Callers |-> IF q \in Flight(p) THEN "failed" ELSE Status[q]]  BY <2>1, StatusLands
  <2>3. p \in Flight(p) /\ \A q \in Flight(p) : Status[q] = "called"  BY <2>1, FlightCalled
  <2>4. Stored' = Stored  BY <2>1, StoredReads DEF tables
  <2>5. Abstract!Fail(Flight(p))  BY <2>1, <2>2, <2>3, <2>4 DEF Abstract!Fail
  <2> QED  BY <2>5 DEF Abstract!Next, Flight
<1>6. ASSUME NEW p \in Callers, Return(p) PROVE Abstract!Next
  <2>1. /\ pc[p] \in {"saved", "failed"} /\ pc' = [pc EXCEPT ![p] = "idle"] /\ UNCHANGED tables
        /\ args' = [args EXCEPT ![p] = None]
    BY <1>6 DEF Return
  <2>2. Status' = [Status EXCEPT ![p] = "idle"]  BY <2>1, StatusMoves
  <2>3. Status[p] \in {"saved", "failed"}  BY <2>1 DEF Status
  <2>4. Stored' = Stored  BY <2>1, StoredReads DEF tables
  <2>5. Abstract!Return(p)  BY <2>1, <2>2, <2>3, <2>4 DEF Abstract!Return
  <2> QED  BY <2>5 DEF Abstract!Next
<1> QED  BY <1>1, <1>2, <1>3, <1>4, <1>5, <1>6 DEF Next, Done

\* SaveBlock implements the atomic store: whatever fails and whoever shares a
\* flight, readers of the tables see a block's transactions whole or not at all,
\* and a caller that got nil had its own block stored (chain.go:29-114).
THEOREM SaveBlockImplementsStore == Spec => ImplementsStore
<1>1. Init => Abstract!Init
  <2> SUFFICES ASSUME Init PROVE Abstract!Init  OBVIOUS
  <2>1. Stored = [h \in Heights |-> None]  BY StoredReads DEF Init, StoredOf
  <2>2. Status = [p \in Callers |-> "idle"]  BY DEF Init, Status
  <2> QED  BY <2>1, <2>2 DEF Init, Abstract!Init
<1> QED  BY <1>1, InitStoreInv, StoreInvStep, StoreStep, PTL DEF Spec, ImplementsStore, Abstract!Spec


----------------------------------------------------------------------------
(***************************************************************************)
(* The collectors that fill the database (BlockTracker), for any set of     *)
(* chains and any heights: whatever failed and was retried, and whenever    *)
(* the context ended or Close was called, the database holds exactly the    *)
(* heights below the collector's.                                           *)
(***************************************************************************)
\* The state of the collectors.
CollTypes ==
  /\ DOMAIN g = Chains
  /\ height \in [Chains -> Nat \ {0}]
  /\ chainH \in [Chains -> Nat]
  /\ saved \in [Chains -> SUBSET Nat]

\* A collector that is about to save found its height on the chain: chains grow
\* only, so the answer of FindTxs does not go stale before SaveBlock uses it.
FoundOnChain == \A c \in Chains : g[c] = "save" => height[c] <= chainH[c]

\* The inductive invariant.
CollInv == CollTypes /\ CollectedPrefix /\ FoundOnChain

\* Nothing is collected initially.
LEMMA InitCollInv == TrackerInit => CollInv
  BY DEF TrackerInit, CollInv, CollTypes, CollectedPrefix, FoundOnChain

\* A step that saves nothing and moves no collector to its save.
LEMMA TrackerQuiet ==
  ASSUME CollInv, UNCHANGED <<height, chainH, saved>>, DOMAIN g' = Chains,
         \A c \in Chains : g'[c] = "save" => g[c] = "save" \/ height[c] <= chainH[c]
  PROVE  CollInv'
  BY DEF CollInv, CollTypes, CollectedPrefix, FoundOnChain

\* The steps of TrackBlocks and Close, and the end of the context: only
\* TrackChain touches a collector, and puts it at its first step.
LEMMA MainKeeps == ASSUME CollInv, Main \/ ContextEnds \/ TestOver PROVE CollInv'
<1>1. DOMAIN g = Chains  BY DEF CollInv, CollTypes
<1>2. CASE \E c \in Chains : TrackChain(c)
  <2>1. PICK c \in Chains : TrackChain(c)  BY <1>2
  <2>2. UNCHANGED <<height, chainH, saved>>  BY <2>1 DEF TrackChain
  <2>3. g' = g \/ g' = [g EXCEPT ![c] = "add"]  BY <2>1 DEF TrackChain
  <2> QED  BY <1>1, <2>2, <2>3, TrackerQuiet
<1>3. CASE ~ \E c \in Chains : TrackChain(c)
  <2>1. UNCHANGED <<g, height, chainH, saved>>
    BY <1>3 DEF Main, TrackNothing, ConnectDB, Migrate, CreateTestCase, LoopDone, Close, CloseWait,
                ContextEnds, TestOver, collVars, trackerVars
  <2> QED  BY <1>1, <2>1, TrackerQuiet
<1> QED  BY <1>2, <1>3

\* A block is saved: the prefix grows by the height the collector is at.
LEMMA SaveKeeps == ASSUME CollInv, NEW c \in Chains, SaveBlock(c) PROVE CollInv'
<1>1. /\ DOMAIN g = Chains /\ height \in [Chains -> Nat \ {0}] /\ chainH \in [Chains -> Nat]
      /\ saved \in [Chains -> SUBSET Nat]
  BY DEF CollInv, CollTypes
<1>2. /\ g[c] = "save" /\ chainH' = chainH
      /\ g' = [g EXCEPT ![c] = "loop"]
      /\ height' = [height EXCEPT ![c] = height[c] + 1]
      /\ saved' = [saved EXCEPT ![c] = saved[c] \cup {height[c]}]
  BY DEF SaveBlock
<1>3. CollTypes'  BY <1>1, <1>2 DEF CollTypes
<1>4. FoundOnChain'  BY <1>1, <1>2 DEF CollInv, FoundOnChain
<1>5. CollectedPrefix'
  <2> SUFFICES ASSUME NEW d \in Chains
               PROVE  saved'[d] = 1..(height'[d] - 1) /\ height'[d] - 1 <= chainH'[d]
    BY DEF CollectedPrefix
  <2>1. saved[d] = 1..(height[d] - 1) /\ height[d] - 1 <= chainH[d]  BY DEF CollInv, CollectedPrefix
  <2>2. CASE d = c
    <3>1. height[c] <= chainH[c]  BY <1>2 DEF CollInv, FoundOnChain
    <3>2. height'[c] = height[c] + 1 /\ saved'[c] = saved[c] \cup {height[c]}  BY <1>1, <1>2
    <3>3. (1..(height[c] - 1)) \cup {height[c]} = 1..height[c]  BY <1>1
    <3> QED  BY <1>1, <1>2, <2>1, <2>2, <3>1, <3>2, <3>3
  <2>3. CASE d # c  BY <1>1, <1>2, <2>1, <2>3
  <2> QED  BY <2>2, <2>3
<1> QED  BY <1>3, <1>4, <1>5 DEF CollInv

\* The other steps of a collector.
LEMMA StepKeeps == ASSUME CollInv, NEW c \in Chains, Step(c) PROVE CollInv'
<1>1. DOMAIN g = Chains  BY DEF CollInv, CollTypes
<1>2. CASE SaveBlock(c)  BY <1>2, SaveKeeps
<1>3. CASE FindTxs(c)
  <2>1. /\ UNCHANGED <<height, chainH, saved>> /\ height[c] <= chainH[c]
        /\ g' = [g EXCEPT ![c] = "save"]
    BY <1>3 DEF FindTxs
  <2> QED  BY <1>1, <2>1, TrackerQuiet
<1>4. CASE AddChain(c) \/ Collect(c) \/ Tick(c) \/ CollectDone(c) \/ SaveTxsFails(c)
  <2>1. /\ UNCHANGED <<height, chainH, saved>>
        /\ \E l \in {"made", "ended", "loop", "find"} : g' = [g EXCEPT ![c] = l]
    BY <1>4 DEF AddChain, Collect, Tick, CollectDone, SaveTxsFails
  <2>2. PICK l \in {"made", "ended", "loop", "find"} : g' = [g EXCEPT ![c] = l]  BY <2>1
  <2> QED  BY <1>1, <2>1, <2>2, TrackerQuiet
<1> QED  BY <1>2, <1>3, <1>4 DEF Step

\* A chain's height only grows.
LEMMA NewBlockKeeps == ASSUME CollInv, NEW c \in Chains, NewBlock(c) PROVE CollInv'
<1>1. /\ UNCHANGED <<g, height, saved>> /\ chainH' = [chainH EXCEPT ![c] = chainH[c] + 1]
  BY DEF NewBlock, collVars
<1>2. /\ chainH \in [Chains -> Nat] /\ height \in [Chains -> Nat \ {0}]  BY DEF CollInv, CollTypes
<1>3. chainH' \in [Chains -> Nat] /\ \A d \in Chains : chainH[d] <= chainH'[d]  BY <1>1, <1>2
<1>4. CollTypes'  BY <1>1, <1>3 DEF CollInv, CollTypes
<1>5. CollectedPrefix'
  <2> SUFFICES ASSUME NEW d \in Chains
               PROVE  saved'[d] = 1..(height'[d] - 1) /\ height'[d] - 1 <= chainH'[d]
    BY DEF CollectedPrefix
  <2>1. saved[d] = 1..(height[d] - 1) /\ height[d] - 1 <= chainH[d]  BY DEF CollInv, CollectedPrefix
  <2>2. height[d] \in Nat /\ chainH[d] \in Nat /\ chainH'[d] \in Nat  BY <1>2, <1>3
  <2>3. height[d] - 1 <= chainH'[d]  BY <1>3, <2>1, <2>2
  <2> QED  BY <1>1, <2>1, <2>3
<1>6. FoundOnChain'
  <2> SUFFICES ASSUME NEW d \in Chains, g'[d] = "save" PROVE height'[d] <= chainH'[d]
    BY DEF FoundOnChain
  <2>1. height[d] <= chainH[d]  BY <1>1 DEF CollInv, FoundOnChain
  <2>2. height[d] \in Nat /\ chainH[d] \in Nat /\ chainH'[d] \in Nat  BY <1>2, <1>3
  <2> QED  BY <1>1, <1>3, <2>1, <2>2
<1> QED  BY <1>4, <1>5, <1>6 DEF CollInv

\* The collectors' database is the chain's prefix below their height, for any
\* number of chains (Collect's height only advances on a successful save).
THEOREM CollectedPrefixHolds == TrackerSpec => []CollectedPrefix
<1>1. CollInv /\ [TrackerNext]_trackerVars => CollInv'
  <2> SUFFICES ASSUME CollInv, [TrackerNext]_trackerVars PROVE CollInv'  OBVIOUS
  <2>1. CASE UNCHANGED trackerVars
    BY <2>1 DEF trackerVars, CollInv, CollTypes, CollectedPrefix, FoundOnChain
  <2>2. CASE Main \/ ContextEnds \/ TestOver  BY <2>2, MainKeeps
  <2>3. CASE \E c \in Chains : Step(c)  BY <2>3, StepKeeps
  <2>4. CASE \E c \in Chains : NewBlock(c)  BY <2>4, NewBlockKeeps
  <2> QED  BY <2>1, <2>2, <2>3, <2>4 DEF TrackerNext
<1>2. CollInv => CollectedPrefix  BY DEF CollInv
<1> QED  BY InitCollInv, <1>1, <1>2, PTL DEF TrackerSpec

=============================================================================
