---------------------------- MODULE CosmosChain -----------------------------
(***************************************************************************)
(* chain/cosmos CosmosChain: Initialize, Start, and the operations on a     *)
(* running chain, with the errgroups they run over nodes and sidecars, and  *)
(* the block tracker's FindTxs beside them.                                 *)
(*                                                                         *)
(* Node 1 is Validators[0], 1..NVals are the validators, the full nodes     *)
(* follow.  Any command, file operation or docker call may fail, and a test *)
(* gives up after an operation that failed.  Keys, amounts, configuration   *)
(* files and peer strings are left out.                                     *)
(***************************************************************************)
EXTENDS Naturals, Sequences, FiniteSets

CONSTANTS
  NVals,       \* NumValidators
  NFull,       \* full nodes the chain begins with
  MaxFull,     \* bound: full nodes after AddFullNodes
  SidecarIDs,  \* the SidecarConfigs that are not validator processes
  PreStart,    \* those with PreStart
  MaxOps,      \* bound: operations after Start
  None

ASSUME NodesAssumption == NVals \in Nat \ {0} /\ NFull \in Nat /\ MaxFull \in Nat /\ NFull <= MaxFull
ASSUME SidecarsAssumption == PreStart \subseteq SidecarIDs /\ SidecarIDs \cap Nat = {}
ASSUME OpsAssumption == MaxOps \in Nat
ASSUME NoneAssumption == None \notin {"main", "tracker"}

Vals == 1..NVals
Members == 1..(NVals + MaxFull)
Items == Members \cup SidecarIDs
Images == [repo: {"first", "second"}, version: {1, 2}]

VARIABLES
  skip,       \* SkipGenTx
  pc,         \* what the goroutine of the test does
  numFull,    \* c.numFullNodes
  nodes,      \* c.Nodes()
  sidecars,   \* c.Sidecars
  snap,       \* [SidecarIDs -> c.Sidecars as the goroutine that appends to it read it]
  cfgImage,   \* c.cfg.Images[0]
  image,      \* [Members -> Image of the node]
  genesis,    \* [Members -> what the genesis file of the node holds, None before init]
  gentxs,     \* validators whose gentx file is on node 1
  next,       \* the validator whose account and gentx are collected next
  genbz,      \* the genesis file that is given to every node
  ctr,        \* [Items -> "none", "created", "running" or "exited"]
  runs,       \* [Members -> image of the node's container]
  group,      \* items the errgroup has a goroutine for
  at,         \* [Items -> steps the goroutine has made]
  bad,        \* items whose goroutine has returned an error
  findTxMu,   \* who has findTxMu: None, "main" or "tracker"
  tracker,    \* where FindTxs is: "idle", "lock" or "query"
  ops

config == <<skip, numFull, nodes, cfgImage, image>>
files == <<genesis, gentxs, genbz>>
containers == <<ctr, runs>>
sides == <<sidecars, snap>>
txs == <<findTxMu, tracker>>
vars == <<config, pc, sides, files, next, containers, group, at, bad, txs, ops>>

Init ==
  /\ skip \in BOOLEAN /\ pc = "new" /\ numFull = NFull /\ nodes = {}
  /\ sidecars = {} /\ snap = [s \in SidecarIDs |-> {}]
  /\ cfgImage = [repo |-> "first", version |-> 1] /\ image = [n \in Members |-> None]
  /\ genesis = [n \in Members |-> None] /\ gentxs = {} /\ genbz = None /\ next = 2
  /\ ctr = [x \in Items |-> "none"] /\ runs = [n \in Members |-> None]
  /\ group = {} /\ at = [x \in Items |-> 0] /\ bad = {}
  /\ findTxMu = None /\ tracker = "idle" /\ ops = 0

----------------------------------------------------------------------------
(* The goroutines of an errgroup *)

\* The steps of each group's goroutines.
initializeSidecars == <<"load", "append">>
initializeChainNodes == <<"construct">>
StartFiles(n) == IF n \in Vals /\ ~skip THEN <<"init", "gentx">> ELSE <<"init">>
StartSidecars == <<"create", "start">>
StartNodes == <<"start">>
CreateNodes == <<"create">>
StopSteps == <<"stop", "remove">>
RestartSteps == <<"create", "start">>
\* Mutant: a node that is added keeps the genesis file its init made.
AddStepsNoGenesis == <<"init", "create", "start">>

AddSteps == <<"init", "overwrite", "create", "start">>

Program(x) ==
  CASE pc = "sidecars" -> initializeSidecars
    [] pc \in {"nodes", "addNodes"} -> initializeChainNodes
    [] pc = "files" -> StartFiles(x)
    [] pc = "preStart" -> StartSidecars
    [] pc = "create" -> CreateNodes
    [] pc = "start" -> StartNodes
    [] pc \in {"stop", "stopSides"} -> StopSteps
    [] pc \in {"restart", "restartSides"} -> RestartSteps
    [] pc = "addFiles" -> AddSteps

Running(x) == x \in group /\ x \notin bad /\ at[x] < Len(Program(x))
GroupEnds == \A x \in group : ~Running(x)

\* NewSidecarProcess appends to c.Sidecars: a read and a write, without a lock.
AppendSidecar(step, x) ==
  \/ step = "load" /\ snap' = [snap EXCEPT ![x] = sidecars] /\ UNCHANGED sidecars
  \/ step = "append" /\ sidecars' = snap[x] \cup {x} /\ UNCHANGED snap

\* InitFullNodeFiles, InitValidatorGenTx and OverwriteGenesisFile.
WriteGenesis(step, n) ==
  \/ step = "init" /\ genesis' = [genesis EXCEPT ![n] = {}] /\ UNCHANGED gentxs
  \/ /\ step = "gentx" /\ genesis' = [genesis EXCEPT ![n] = @ \cup {<<"account", n>>}]
     /\ gentxs' = IF n = 1 THEN gentxs \cup {n} ELSE gentxs
  \/ step = "overwrite" /\ genesis' = [genesis EXCEPT ![n] = genbz] /\ UNCHANGED gentxs

\* CreateNodeContainer and CreateContainer: the name of a container is taken while it exists.
CreateContainer(x) ==
  /\ ctr[x] = "none" /\ ctr' = [ctr EXCEPT ![x] = "created"]
  /\ runs' = IF x \in Members THEN [runs EXCEPT ![x] = image[x]] ELSE runs

\* StartContainer, StopContainer and RemoveContainer.
MoveContainer(step, x) ==
  /\ \/ step = "start" /\ ctr[x] = "created" /\ ctr' = [ctr EXCEPT ![x] = "running"]
     \/ step = "stop" /\ ctr' = [ctr EXCEPT ![x] = IF @ = "running" THEN "exited" ELSE @]
     \/ step = "remove" /\ ctr' = [ctr EXCEPT ![x] = "none"]
  /\ UNCHANGED runs

Step(x) ==
  /\ Running(x) /\ at' = [at EXCEPT ![x] = @ + 1]
  /\ LET step == Program(x)[at[x] + 1]
     IN \/ step \in {"load", "append"} /\ AppendSidecar(step, x) /\ UNCHANGED <<image, genesis, gentxs, containers>>
        \/ /\ step = "construct" /\ image' = [image EXCEPT ![x] = cfgImage]
           /\ UNCHANGED <<sides, genesis, gentxs, containers>>
        \/ step \in {"init", "gentx", "overwrite"} /\ WriteGenesis(step, x) /\ UNCHANGED <<sides, image, containers>>
        \/ step = "create" /\ CreateContainer(x) /\ UNCHANGED <<sides, image, genesis, gentxs>>
        \/ step \in {"start", "stop", "remove"} /\ MoveContainer(step, x) /\ UNCHANGED <<sides, image, genesis, gentxs>>
  /\ UNCHANGED <<skip, numFull, nodes, cfgImage, pc, genbz, next, group, bad, txs, ops>>

StepFails(x) ==
  /\ Running(x) /\ bad' = bad \cup {x}
  /\ UNCHANGED <<config, pc, sides, files, next, containers, group, at, txs, ops>>

\* A group begins with a goroutine for each of g.
Go(stage, g) == pc' = stage /\ group' = g /\ at' = [x \in Items |-> 0] /\ bad' = {}
NoGroup(stage) == Go(stage, {})

----------------------------------------------------------------------------
(* Initialize *)

Missing == (1..(NVals + numFull)) \ nodes

Initialize ==
  /\ pc = "new" /\ Go("sidecars", SidecarIDs)
  /\ UNCHANGED <<config, sides, files, next, containers, txs, ops>>

SidecarsInitialized ==
  /\ pc = "sidecars" /\ GroupEnds
  /\ IF bad = {} THEN Go("nodes", Missing) ELSE NoGroup("failed")
  /\ UNCHANGED <<config, sides, files, next, containers, txs, ops>>

\* c.Validators and c.FullNodes are set under findTxMu.
NodesInitialized(stage, then, g) ==
  /\ pc = stage /\ GroupEnds
  /\ \/ bad # {} /\ NoGroup("failed") /\ UNCHANGED nodes
     \/ bad = {} /\ findTxMu = None /\ nodes' = nodes \cup group /\ Go(then, g)
  /\ UNCHANGED <<skip, numFull, cfgImage, image, sides, files, next, containers, txs, ops>>

----------------------------------------------------------------------------
(* Start *)

\* ConsumerCopyProviderKey is refused on a chain without a provider.
Start ==
  /\ pc = "initialized" /\ (Go("files", nodes) \/ NoGroup("failed"))
  /\ UNCHANGED <<config, sides, files, next, containers, txs, ops>>

\* PreGenesis may fail, too.
FilesDone ==
  /\ pc = "files" /\ GroupEnds
  /\ \/ bad = {} /\ NoGroup("collect")
     \/ NoGroup("failed")
  /\ UNCHANGED <<config, sides, files, next, containers, txs, ops>>

\* The account and the gentx of one more validator go to the first one.
CollectValidator ==
  /\ pc = "collect" /\ next <= NVals
  /\ \/ /\ genesis' = [genesis EXCEPT ![1] = @ \cup {<<"account", next>>}]
        /\ gentxs' = IF skip THEN gentxs ELSE gentxs \cup {next}
        /\ next' = next + 1 /\ UNCHANGED <<pc, group, at, bad>>
     \/ NoGroup("failed") /\ UNCHANGED <<genesis, gentxs, next>>
  /\ UNCHANGED <<config, sides, genbz, containers, txs, ops>>

\* The first validator's genesis file after the additional wallets and CollectGentxs.
Collected ==
  genesis[1] \cup {<<"wallets", 0>>}
    \cup (IF skip THEN {} ELSE {<<"gentx", v>> : v \in gentxs})

\* What it holds goes to every node, with the denom replaced and ModifyGenesis applied.
CollectGentxs ==
  /\ pc = "collect" /\ next > NVals
  /\ \/ /\ genesis' = [genesis EXCEPT ![1] = Collected]
        /\ genbz' = Collected \cup {<<"modified", 0>>}
        /\ NoGroup("overwrite")
     \/ NoGroup("failed") /\ UNCHANGED <<genesis, genbz>>
  /\ UNCHANGED <<config, sides, gentxs, next, containers, txs, ops>>

\* Node after node; LogGenesisHashes reads them all.
OverwriteGenesisFiles ==
  /\ pc = "overwrite"
  /\ \/ /\ genesis' = [n \in Members |-> IF n \in nodes THEN genbz ELSE genesis[n]]
        /\ Go("preStart", {s \in sidecars \cap PreStart : ctr[s] # "running"})
     \/ /\ \E k \in Members : genesis' = [n \in Members |-> IF n \in nodes /\ n < k THEN genbz ELSE genesis[n]]
        /\ NoGroup("failed")
  /\ UNCHANGED <<config, sides, gentxs, genbz, next, containers, txs, ops>>

Stage(from, to, g) ==
  /\ pc = from /\ GroupEnds
  /\ IF bad = {} THEN Go(to, g) ELSE NoGroup("failed")
  /\ UNCHANGED <<config, sides, files, next, containers, txs, ops>>

\* Mutant: the group of the sidecars is not waited for.
PreStartedEarly ==
  /\ pc = "preStart" /\ Go("create", nodes)
  /\ UNCHANGED <<config, sides, files, next, containers, txs, ops>>

PreStarted == Stage("preStart", "create", nodes)
Created == Stage("create", "start", nodes)
Started == Stage("start", "wait", {})

WaitForBlocks ==
  /\ pc = "wait" /\ \E r \in {"up", "failed"} : NoGroup(r)
  /\ UNCHANGED <<config, sides, files, next, containers, txs, ops>>

----------------------------------------------------------------------------
(* Operations on a chain that has been started *)

Begin(stage, g) == pc = "up" /\ ops < MaxOps /\ ops' = ops + 1 /\ Go(stage, g)

StopAllNodes ==
  /\ Begin("stop", nodes)
  /\ UNCHANGED <<config, sides, files, next, containers, txs>>

StopAllSidecars ==
  /\ Begin("stopSides", sidecars)
  /\ UNCHANGED <<config, sides, files, next, containers, txs>>

\* "prevent client calls during this time"
StartAllNodes ==
  /\ findTxMu = None /\ findTxMu' = "main" /\ Begin("restart", nodes)
  /\ UNCHANGED <<config, sides, files, next, containers, tracker>>

StartAllSidecars ==
  /\ findTxMu = None /\ findTxMu' = "main"
  /\ Begin("restartSides", {s \in sidecars : ctr[s] # "running"})
  /\ UNCHANGED <<config, sides, files, next, containers, tracker>>

\* Mutant: the full nodes are forgotten.
UpgradeVersionValidators(i) ==
  /\ pc = "up" /\ ops < MaxOps /\ ops' = ops + 1
  /\ cfgImage' = [cfgImage EXCEPT !.version = i.version]
  /\ image' = [n \in Members |-> IF n \in Vals THEN i ELSE image[n]]
  /\ UNCHANGED <<skip, numFull, nodes, pc, sides, files, next, containers, group, at, bad, txs>>

\* The repository goes to the nodes, the version to the chain's configuration as well.
UpgradeVersion(i) ==
  /\ pc = "up" /\ ops < MaxOps /\ ops' = ops + 1
  /\ cfgImage' = [cfgImage EXCEPT !.version = i.version]
  /\ image' = [n \in Members |-> IF n \in nodes THEN i ELSE image[n]]
  /\ UNCHANGED <<skip, numFull, nodes, pc, sides, files, next, containers, group, at, bad, txs>>

\* The genesis file of the first validator is read before the count of nodes changes.
AddFullNodes(inc) ==
  /\ pc = "up" /\ ops < MaxOps /\ ops' = ops + 1
  /\ \/ /\ numFull' = numFull + inc /\ numFull' <= MaxFull /\ genbz' = genesis[1]
        /\ Go("addNodes", (1..(NVals + numFull')) \ nodes)
     \/ NoGroup("failed") /\ UNCHANGED <<numFull, genbz>>
  /\ UNCHANGED <<skip, nodes, cfgImage, image, sides, genesis, gentxs, next, containers, txs>>

\* Mutant: findTxMu is not unlocked.
OpDoneKeepsLock ==
  /\ pc \in {"stop", "stopSides", "restart", "restartSides", "addFiles"} /\ GroupEnds
  /\ NoGroup(IF bad = {} THEN "up" ELSE "failed")
  /\ UNCHANGED <<config, sides, files, next, containers, txs, ops>>

\* The operation returns; StartAllNodes and StartAllSidecars unlock findTxMu.
OpDone ==
  /\ pc \in {"stop", "stopSides", "restart", "restartSides", "addFiles"} /\ GroupEnds
  /\ findTxMu' = IF findTxMu = "main" THEN None ELSE findTxMu
  /\ NoGroup(IF bad = {} THEN "up" ELSE "failed")
  /\ UNCHANGED <<config, sides, files, next, containers, tracker, ops>>

----------------------------------------------------------------------------
(* FindTxs, called by the block tracker once Start has returned *)

Tracking == pc \in {"up", "stop", "stopSides", "restart", "restartSides", "addNodes", "addFiles"}

FindTxs ==
  /\ Tracking
  /\ \/ tracker = "idle" /\ tracker' = "lock" /\ UNCHANGED findTxMu
     \/ tracker = "lock" /\ findTxMu = None /\ findTxMu' = "tracker" /\ tracker' = "query"
     \/ tracker = "query" /\ findTxMu' = None /\ tracker' = "idle"
  /\ UNCHANGED <<config, pc, sides, files, next, containers, group, at, bad, ops>>

----------------------------------------------------------------------------

\* A test may do nothing more.
Idle == pc \in {"up", "failed"} /\ UNCHANGED vars

Main ==
  \/ Initialize \/ SidecarsInitialized \/ NodesInitialized("nodes", "initialized", {})
  \/ Start \/ FilesDone \/ CollectValidator \/ CollectGentxs \/ OverwriteGenesisFiles
  \/ PreStarted \/ Created \/ Started \/ WaitForBlocks
  \/ NodesInitialized("addNodes", "addFiles", group) \/ OpDone

Ops ==
  \/ StopAllNodes \/ StopAllSidecars \/ StartAllNodes \/ StartAllSidecars
  \/ (\E i \in Images : UpgradeVersion(i)) \/ (\E inc \in 1..MaxFull : AddFullNodes(inc))

Goroutine(x) == Step(x) \/ StepFails(x)

Next == Main \/ Ops \/ (\E x \in Items : Goroutine(x)) \/ FindTxs \/ Idle

Spec == Init /\ [][Next]_vars

(***************************************************************************)
(* Fairness: every goroutine runs; a call that is made answers or fails.    *)
(* The mutex is handed to who waits for it (SF), as Go's does after 1 ms.   *)
(***************************************************************************)
FairSpec ==
  /\ Spec /\ SF_vars(Main) /\ SF_vars(FindTxs) /\ \A x \in Items : WF_vars(Goroutine(x))

----------------------------------------------------------------------------
(* Properties *)

\* Every node that runs has the same genesis file, whenever it was added, and that
\* file is complete: the wallets and, unless they are skipped, the account and the
\* gentx of every validator (the phases of Start and AddFullNodes).
OneGenesis ==
  \A n \in Members : ctr[n] = "running" =>
    /\ genesis[n] = genesis[1]
    /\ <<"wallets", 0>> \in genesis[n] /\ <<"modified", 0>> \in genesis[n]
    /\ ~skip => \A v \in Vals : <<"account", v>> \in genesis[n] /\ <<"gentx", v>> \in genesis[n]

\* No container of a node exists before every node has its genesis file and every
\* pre-start sidecar of the chain runs ("Start any sidecar processes that should be
\* running before the chain starts", cosmos_chain.go:1009).
NodesAfterSidecars ==
  pc \in {"create", "start", "wait"} =>
    /\ \A s \in sidecars \cap PreStart : ctr[s] = "running"
    /\ \A n \in nodes : genesis[n] = genbz

\* While StartAllNodes replaces the clients of the nodes no FindTxs uses one; when it
\* has returned, every node runs the version of the last UpgradeVersion.
RestartExclusive ==
  /\ pc \in {"restart", "restartSides"} => tracker # "query"
  /\ pc = "restart" /\ GroupEnds /\ bad = {} =>
       \A n \in nodes : ctr[n] = "running" /\ runs[n].version = cfgImage.version

\* Every operation returns, although a failing goroutine or the block tracker's FindTxs
\* may be in its way.  StartAllNodes and StartAllSidecars begin with findTxMu in the model:
\* that they get it is fairness of the mutex, and that they give it back is part of this.
OpsReturn == pc \notin {"up", "failed"} ~> pc \in {"initialized", "up", "failed"}
=============================================================================
