---------------------------- MODULE BlockTracker ----------------------------
(***************************************************************************)
(* chainSet.TrackBlocks and chainSet.Close (chainset.go:157-237) with the   *)
(* collectors they start and stop (blockdb/collect.go).  A save is atomic   *)
(* here: BlockDB shows that SaveBlock is.                                   *)
(*                                                                         *)
(* TrackBlocks has a value receiver: what it assigns to cs.db, cs.trackerEg *)
(* and cs.collectors it assigns to its own copy of the chainSet.            *)
(*                                                                         *)
(* Its specification is TrackerSpec: BlockDB_proofs extends it and BlockDB. *)
(***************************************************************************)
EXTENDS Naturals, FiniteSets

CONSTANTS
  Chains,
  MaxHeight   \* bound: height a chain reaches

ASSUME TrackerAssumption == MaxHeight \in Nat

VARIABLES
  finders,  \* chains that implement blockdb.TxFinder
  main,     \* where the test's goroutine is
  failed,   \* TrackBlocks returned an error
  db,       \* the database handle ConnectDB returned
  cs, copy, \* fields of the *chainSet, and of TrackBlocks' receiver
  todo,     \* chains the loop of TrackBlocks has left
  g,        \* [Chains -> ...]: the goroutine of each chain
  ctxDone,  \* the context passed to Build has ended
  stopped,  \* collectors whose cancel function was called
  height,   \* [Chains -> Nat]: next height of each collector
  chainH,   \* [Chains -> Nat]: height of each chain
  saved,    \* [Chains -> SUBSET Nat]: heights in the database
  panicked

trackerVars == <<finders, main, failed, db, cs, copy, todo, g, ctxDone, stopped, height, chainH, saved, panicked>>
mainVars == <<finders, main, failed, db, cs, copy, todo>>
collVars == <<g, height, saved>>

NoFields == [db |-> FALSE, eg |-> FALSE, collectors |-> {}]

TrackerInit ==
  /\ finders \in SUBSET Chains
  /\ main = "start" /\ failed = FALSE /\ db = "none" /\ cs = NoFields /\ copy = NoFields
  /\ todo = {} /\ g = [c \in Chains |-> "none"] /\ ctxDone = FALSE /\ stopped = {}
  /\ height = [c \in Chains |-> 1] /\ chainH = [c \in Chains |-> 0]
  /\ saved = [c \in Chains |-> {}] /\ panicked = FALSE

TrackBlocksReturns(err) == main' = "tracked" /\ failed' = err

\* dbPath is blank: nop.
TrackNothing ==
  /\ main = "start" /\ TrackBlocksReturns(FALSE)
  /\ UNCHANGED <<finders, db, cs, copy, todo, g, ctxDone, stopped, height, chainH, saved, panicked>>

ConnectDB ==
  /\ main = "start"
  /\ \/ db' = "open" /\ copy' = [copy EXCEPT !.db = TRUE] /\ main' = "migrate" /\ UNCHANGED failed
     \/ TrackBlocksReturns(TRUE) /\ UNCHANGED <<db, copy>>
  /\ UNCHANGED <<finders, cs, todo, g, ctxDone, stopped, height, chainH, saved, panicked>>

\* A failed Migrate returns with the database open.
Migrate ==
  /\ main = "migrate"
  /\ \/ main' = "testCase" /\ UNCHANGED failed
     \/ TrackBlocksReturns(TRUE)
  /\ UNCHANGED <<finders, db, cs, copy, todo, g, ctxDone, stopped, height, chainH, saved, panicked>>

CreateTestCase ==
  /\ main = "testCase"
  /\ \/ /\ main' = "loop" /\ todo' = Chains /\ copy' = [copy EXCEPT !.eg = TRUE]
        /\ UNCHANGED <<failed, db>>
     \/ db' = "closed" /\ TrackBlocksReturns(TRUE) /\ UNCHANGED <<todo, copy>>
  /\ UNCHANGED <<finders, cs, g, ctxDone, stopped, height, chainH, saved, panicked>>

\* One iteration of the loop; a chain that is no TxFinder ends it.
TrackChain(c) ==
  /\ main = "loop" /\ c \in todo
  /\ IF c \in finders
     THEN g' = [g EXCEPT ![c] = "add"] /\ todo' = todo \ {c} /\ UNCHANGED <<main, failed>>
     ELSE TrackBlocksReturns(FALSE) /\ UNCHANGED <<g, todo>>
  /\ UNCHANGED <<finders, db, cs, copy, ctxDone, stopped, height, chainH, saved, panicked>>

LoopDone ==
  /\ main = "loop" /\ todo = {} /\ TrackBlocksReturns(FALSE)
  /\ UNCHANGED <<finders, db, cs, copy, todo, g, ctxDone, stopped, height, chainH, saved, panicked>>

\* testCase.AddChain: on failure the goroutine logs and ends.
AddChain(c) ==
  /\ g[c] = "add"
  /\ \/ g' = [g EXCEPT ![c] = "made"] /\ copy' = [copy EXCEPT !.collectors = @ \cup {c}]
     \/ g' = [g EXCEPT ![c] = "ended"] /\ UNCHANGED copy
  /\ UNCHANGED <<finders, main, failed, db, cs, todo, ctxDone, stopped, height, chainH, saved, panicked>>

\* Collect: p.cancel is assigned when the loop begins.
Collect(c) ==
  /\ g[c] = "made" /\ g' = [g EXCEPT ![c] = "loop"]
  /\ UNCHANGED <<mainVars, ctxDone, stopped, height, chainH, saved, panicked>>

Tick(c) ==
  /\ g[c] = "loop" /\ g' = [g EXCEPT ![c] = "find"]
  /\ UNCHANGED <<mainVars, ctxDone, stopped, height, chainH, saved, panicked>>

\* Mutant: the select does not look at the context, only at Stop.
CollectDoneStopped(c) ==
  /\ g[c] = "loop" /\ c \in stopped
  /\ g' = [g EXCEPT ![c] = "ended"]
  /\ UNCHANGED <<mainVars, ctxDone, stopped, height, chainH, saved, panicked>>

CollectDone(c) ==
  /\ g[c] = "loop" /\ (ctxDone \/ c \in stopped)
  /\ g' = [g EXCEPT ![c] = "ended"]
  /\ UNCHANGED <<mainVars, ctxDone, stopped, height, chainH, saved, panicked>>

FindTxs(c) ==
  /\ g[c] = "find" /\ height[c] <= chainH[c]
  /\ g' = [g EXCEPT ![c] = "save"]
  /\ UNCHANGED <<mainVars, ctxDone, stopped, height, chainH, saved, panicked>>

SaveBlock(c) ==
  /\ g[c] = "save" /\ db = "open"
  /\ saved' = [saved EXCEPT ![c] = @ \cup {height[c]}]
  /\ height' = [height EXCEPT ![c] = @ + 1]
  /\ g' = [g EXCEPT ![c] = "loop"]
  /\ UNCHANGED <<mainVars, ctxDone, stopped, chainH, panicked>>

\* Mutant: the height advances though it was not saved.
SaveTxsFailsSkips(c) ==
  /\ g[c] = "save"
  /\ g' = [g EXCEPT ![c] = "loop"] /\ height' = [height EXCEPT ![c] = @ + 1]
  /\ UNCHANGED <<mainVars, ctxDone, stopped, chainH, saved, panicked>>
\* Mutant: an error ends the collector.
SaveTxsFailsReturns(c) ==
  /\ g[c] \in {"find", "save"}
  /\ g' = [g EXCEPT ![c] = "ended"]
  /\ UNCHANGED <<mainVars, ctxDone, stopped, height, chainH, saved, panicked>>

\* The height is not there yet, the node or the database does not answer, ...
SaveTxsFails(c) ==
  /\ g[c] \in {"find", "save"}
  /\ g' = [g EXCEPT ![c] = "loop"]
  /\ UNCHANGED <<mainVars, ctxDone, stopped, height, chainH, saved, panicked>>

NewBlock(c) ==
  /\ chainH[c] < MaxHeight /\ chainH' = [chainH EXCEPT ![c] = @ + 1]
  /\ UNCHANGED <<mainVars, collVars, ctxDone, stopped, panicked>>

ContextEnds ==
  /\ ~ctxDone /\ ctxDone' = TRUE
  /\ UNCHANGED <<mainVars, collVars, stopped, chainH, panicked>>

\* Close stops the collectors it knows of; Stop panics on one that is not collecting yet.
Close ==
  /\ main = "tracked"
  /\ IF \E c \in cs.collectors : g[c] = "made"
     THEN panicked' = TRUE /\ UNCHANGED <<main, stopped>>
     ELSE main' = "closing" /\ stopped' = stopped \cup cs.collectors /\ UNCHANGED panicked
  /\ UNCHANGED <<finders, failed, db, cs, copy, todo, collVars, ctxDone, chainH>>

\* It then waits for the group it knows of and closes the database it knows of.
CloseWait ==
  /\ main = "closing"
  /\ cs.eg => \A c \in Chains : g[c] \in {"none", "ended"}
  /\ main' = "closed"
  /\ db' = IF cs.db THEN "closed" ELSE db
  /\ UNCHANGED <<finders, failed, cs, copy, todo, collVars, ctxDone, stopped, chainH, panicked>>

TestOver ==
  /\ main = "closed" /\ ctxDone /\ \A c \in Chains : g[c] \in {"none", "ended"}
  /\ UNCHANGED trackerVars

Step(c) == AddChain(c) \/ Collect(c) \/ Tick(c) \/ CollectDone(c) \/ FindTxs(c) \/ SaveBlock(c) \/ SaveTxsFails(c)

Main == TrackNothing \/ ConnectDB \/ Migrate \/ CreateTestCase \/ LoopDone \/ Close \/ CloseWait
        \/ \E c \in Chains : TrackChain(c)

TrackerNext ==
  \/ Main \/ ContextEnds \/ TestOver
  \/ \E c \in Chains : Step(c) \/ NewBlock(c)
TrackerSpec == TrackerInit /\ [][TrackerNext]_trackerVars

(***************************************************************************)
(* Fairness: goroutines run, and a select that finds its context done again *)
(* and again takes that case in the end (Go picks among ready cases at      *)
(* random).  A query or a save that is tried again and again succeeds in    *)
(* the end: errors are transient, as the retry in Collect supposes.         *)
(***************************************************************************)
TrackerFairSpec == TrackerSpec /\ WF_trackerVars(Main) /\ \A c \in Chains :
  WF_trackerVars(Step(c)) /\ SF_trackerVars(CollectDone(c)) /\ SF_trackerVars(FindTxs(c)) /\ SF_trackerVars(SaveBlock(c))

----------------------------------------------------------------------------
(* Properties *)

\* The database has every block of a tracked chain up to the collector's height
\* and none beyond it or beyond the chain's own height, whatever failed and was
\* retried (Collect's height only advances on success).
CollectedPrefix ==
  \A c \in Chains : saved[c] = 1..(height[c] - 1) /\ height[c] - 1 <= chainH[c]

\* A tracked chain's blocks reach the database unless the context ends.
CatchesUp ==
  \A c \in Chains, h \in 1..MaxHeight :
    (g[c] = "loop" /\ chainH[c] >= h) ~> (h \in saved[c] \/ ctxDone)

\* Once the context ends every collector ends, and none starts again.
CollectorsEnd == ctxDone ~> [](\A c \in Chains : g[c] \in {"none", "ended"})

=============================================================================
