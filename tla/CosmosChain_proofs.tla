-------------------------- MODULE CosmosChain_proofs --------------------------
(***************************************************************************)
(* A cosmos chain with any number of validators, full nodes and sidecars:   *)
(* which genesis file a node runs with, what runs before the nodes do, and  *)
(* that the nodes' clients are replaced only while no FindTxs uses them.    *)
(*                                                                         *)
(* The inductive invariant ChainInv follows every goroutine of a group      *)
(* through its program, since what the next stage relies on is what a       *)
(* goroutine has done after so many steps.                                  *)
(***************************************************************************)
EXTENDS CosmosChain, TLAPS

NodeStages == {"files", "create", "start", "stop", "restart"}      \* a goroutine per node
SideStages == {"sidecars", "preStart", "stopSides", "restartSides"} \* per sidecar
NewStages  == {"nodes", "addNodes"}                                 \* per node to be made
AloneStages == {"new", "initialized", "collect", "overwrite", "wait", "up", "failed"}
Stages == NodeStages \cup SideStages \cup NewStages \cup AloneStages \cup {"addFiles"}

BeforeCreate == {"new", "sidecars", "nodes", "initialized", "files", "collect", "overwrite", "preStart"}
Starting == {"preStart", "create", "start", "wait"}
Shared == Starting \cup {"up", "stop", "stopSides", "restart", "restartSides", "addNodes", "addFiles"}

TypesOK ==
  /\ pc \in Stages /\ skip \in BOOLEAN /\ numFull \in 0..MaxFull
  /\ nodes \subseteq Members /\ sidecars \subseteq SidecarIDs
  /\ snap \in [SidecarIDs -> SUBSET SidecarIDs]
  /\ cfgImage \in Images /\ image \in [Members -> Images \cup {None}]
  /\ runs \in [Members -> Images \cup {None}]
  /\ genesis = [n \in Members |-> genesis[n]]
  /\ ctr \in [Items -> {"none", "created", "running", "exited"}]
  /\ at \in [Items -> 0..4] /\ next \in Nat
  /\ findTxMu \in {None, "main", "tracker"} /\ tracker \in {"idle", "lock", "query"}

\* For whom each stage has a goroutine.  The first validator is never a node to
\* be added.
GroupOK ==
  /\ pc \in AloneStages => group = {}
  /\ pc \in NodeStages => group = nodes
  /\ pc \in SideStages => group \subseteq SidecarIDs
  /\ pc \in NewStages => group \subseteq Members /\ group \cap nodes = {} /\ 1 \in nodes \cup group
  /\ pc = "addFiles" => group \subseteq nodes \ {1}
  /\ pc \in NodeStages \cup (Shared \cup {"initialized", "collect", "overwrite"}) => 1 \in nodes

\* findTxMu is held by StartAllNodes and StartAllSidecars, or by FindTxs.
LocksOK ==
  /\ findTxMu = "main" <=> pc \in {"restart", "restartSides"}
  /\ findTxMu = "tracker" <=> tracker = "query"

\* Every node has the configured version, and a restarted one runs it.
ImagesOK ==
  /\ \A n \in nodes : image[n] \in Images /\ image[n].version = cfgImage.version
  /\ pc \in NewStages => \A x \in group : at[x] # 0 => image[x] = cfgImage
  /\ pc = "restart" => \A x \in group :
       /\ at[x] # 0 => runs[x] = image[x]
       /\ at[x] >= 2 => ctr[x] = "running"

\* The pre-start sidecars run before a container of a node is made.
SidecarsOK ==
  /\ pc = "preStart" => \A s \in sidecars \cap PreStart :
       /\ s \notin group => ctr[s] = "running"
       /\ s \in group /\ at[s] >= 2 => ctr[s] = "running"
  /\ pc \in {"create", "start", "wait"} => \A s \in sidecars \cap PreStart : ctr[s] = "running"

\* Containers come late, and only to nodes.
ContainersOK ==
  /\ pc \in BeforeCreate => \A n \in Members : ctr[n] = "none"
  /\ pc = "create" => \A n \in Members : ctr[n] # "running"
  /\ \A n \in Members \ nodes : ctr[n] = "none"
  /\ pc = "addFiles" => \A n \in group : at[n] < 3 => ctr[n] = "none"

Complete(g) ==
  /\ <<"wallets", 0>> \in g /\ <<"modified", 0>> \in g
  /\ ~skip => \A v \in Vals : <<"account", v>> \in g /\ <<"gentx", v>> \in g

Collects(v) == <<"account", v>> \in genesis[1] /\ v \in gentxs

\* How the genesis file of the first validator becomes complete and that of every
\* node; a node that is added has it after its second step.
GenesisOK ==
  /\ pc = "files" /\ ~skip /\ at[1] >= 2 => Collects(1)
  /\ pc \in BeforeCreate \ {"overwrite", "preStart"} => next >= 2
  /\ pc \in BeforeCreate \ {"collect", "overwrite", "preStart"} => next = 2
  /\ pc = "collect" /\ ~skip => \A v \in Vals : v < next => Collects(v)
  /\ pc = "overwrite" => Complete(genbz)
  /\ pc \in Shared =>
       /\ Complete(genesis[1])
       /\ \A n \in nodes : genesis[n] = genesis[1] \/ (pc = "addFiles" /\ n \in group /\ at[n] < 2)
  /\ pc \in Starting \cup {"addNodes", "addFiles"} => genbz = genesis[1]
  /\ pc = "failed" => OneGenesis

ChainInv ==
  TypesOK /\ GroupOK /\ LocksOK /\ ImagesOK /\ SidecarsOK /\ ContainersOK /\ GenesisOK

USE DEF NodeStages, SideStages, NewStages, AloneStages, Stages, BeforeCreate, Starting, Shared

\* The first validator is a member, and no member is a sidecar.
LEMMA MembersAre ==
  /\ 1 \in Members /\ 1 \in Vals /\ Vals \subseteq Members /\ Members \subseteq Nat
  /\ \A n \in Members : n \notin SidecarIDs
  /\ \A k \in 0..MaxFull : 1..(NVals + k) \subseteq Members /\ 1 \in 1..(NVals + k)
BY NodesAssumption, SidecarsAssumption DEF Members, Vals

\* How long the program of each stage is, and its steps.
LEMMA Programs ==
  ASSUME NEW x
  PROVE  /\ pc = "sidecars" =>
              Len(Program(x)) = 2 /\ Program(x)[1] = "load" /\ Program(x)[2] = "append"
         /\ pc \in NewStages => Len(Program(x)) = 1 /\ Program(x)[1] = "construct"
         /\ pc = "files" => /\ Len(Program(x)) = IF x \in Vals /\ ~skip THEN 2 ELSE 1
                            /\ Program(x)[1] = "init"
                            /\ Len(Program(x)) = 2 => Program(x)[2] = "gentx"
         /\ pc = "create" => Len(Program(x)) = 1 /\ Program(x)[1] = "create"
         /\ pc = "start" => Len(Program(x)) = 1 /\ Program(x)[1] = "start"
         /\ pc \in {"stop", "stopSides"} =>
              Len(Program(x)) = 2 /\ Program(x)[1] = "stop" /\ Program(x)[2] = "remove"
         /\ pc \in {"preStart", "restart", "restartSides"} =>
              Len(Program(x)) = 2 /\ Program(x)[1] = "create" /\ Program(x)[2] = "start"
         /\ pc = "addFiles" =>
              /\ Len(Program(x)) = 4 /\ Program(x)[1] = "init" /\ Program(x)[2] = "overwrite"
              /\ Program(x)[3] = "create" /\ Program(x)[4] = "start"
<1>1. pc = "sidecars" => Program(x) = <<"load", "append">>  BY DEF Program, initializeSidecars
<1>2. pc \in NewStages => Program(x) = <<"construct">>  BY DEF Program, initializeChainNodes
<1>3. pc = "files" => Program(x) = IF x \in Vals /\ ~skip THEN <<"init", "gentx">> ELSE <<"init">>
  BY DEF Program, StartFiles
<1>4. pc = "create" => Program(x) = <<"create">>  BY DEF Program, CreateNodes
<1>5. pc = "start" => Program(x) = <<"start">>  BY DEF Program, StartNodes
<1>6. pc \in {"stop", "stopSides"} => Program(x) = <<"stop", "remove">>  BY DEF Program, StopSteps
<1>7. pc \in {"preStart", "restart", "restartSides"} => Program(x) = <<"create", "start">>
  BY DEF Program, StartSidecars, RestartSteps
<1>8. pc = "addFiles" => Program(x) = <<"init", "overwrite", "create", "start">>
  BY DEF Program, AddSteps
<1>9. /\ \A a, b : Len(<<a, b>>) = 2 /\ <<a, b>>[1] = a /\ <<a, b>>[2] = b
      /\ \A a : Len(<<a>>) = 1 /\ <<a>>[1] = a
  OBVIOUS
<1>10. \A a, b, c, d :
         LET s == <<a, b, c, d>> IN Len(s) = 4 /\ s[1] = a /\ s[2] = b /\ s[3] = c /\ s[4] = d
  OBVIOUS
<1>11. CASE pc = "files" /\ x \in Vals /\ ~skip  BY <1>3, <1>9, <1>11
<1>12. CASE pc = "files" /\ ~(x \in Vals /\ ~skip)  BY <1>3, <1>9, <1>12
<1>13. CASE pc # "files"
  <2>1. CASE pc \in {"sidecars", "stop", "stopSides", "preStart", "restart", "restartSides"}
    BY <1>1, <1>6, <1>7, <1>9, <2>1
  <2>2. CASE pc \in {"nodes", "addNodes", "create", "start"}  BY <1>2, <1>4, <1>5, <1>9, <2>2
  <2>3. CASE pc = "addFiles"  BY <1>8, <1>10, <2>3
  <2> QED  BY <1>13, <2>1, <2>2, <2>3
<1> QED  BY <1>11, <1>12, <1>13

\* The step after k of them.
LEMMA StepNames ==
  ASSUME NEW x, NEW k \in Nat, k < Len(Program(x)), pc \in Stages \ AloneStages,
         NEW step, step = Program(x)[k + 1]
  PROVE  \/ pc = "sidecars" /\ ((k = 0 /\ step = "load") \/ (k = 1 /\ step = "append"))
         \/ pc \in NewStages /\ k = 0 /\ step = "construct"
         \/ pc = "files" /\ ((k = 0 /\ step = "init") \/ (k = 1 /\ step = "gentx"))
         \/ pc = "addFiles" /\ \/ k = 0 /\ step = "init"
                               \/ k = 1 /\ step = "overwrite"
                               \/ k = 2 /\ step = "create"
                               \/ k = 3 /\ step = "start"
         \/ /\ pc \in {"preStart", "restart", "restartSides"}
            /\ (k = 0 /\ step = "create") \/ (k = 1 /\ step = "start")
         \/ pc = "create" /\ k = 0 /\ step = "create"
         \/ pc = "start" /\ k = 0 /\ step = "start"
         \/ pc \in {"stop", "stopSides"} /\ ((k = 0 /\ step = "stop") \/ (k = 1 /\ step = "remove"))
<1>1. /\ k = 0 => step = Program(x)[1]
      /\ k = 1 => step = Program(x)[2]
      /\ k = 2 => step = Program(x)[3]
      /\ k = 3 => step = Program(x)[4]
  OBVIOUS
<1>2. \A n \in {1, 2, 4} : Len(Program(x)) = n => k < n  OBVIOUS
<1>3. k < 1 => k = 0  OBVIOUS
<1>4. k < 2 => k = 0 \/ k = 1  OBVIOUS
<1>5. k < 4 => k = 0 \/ k = 1 \/ k = 2 \/ k = 3  OBVIOUS
<1>6. CASE pc \in NewStages \cup {"create", "start"}
  <2>1. k = 0 /\ step = Program(x)[1]  BY <1>1, <1>2, <1>3, <1>6, Programs
  <2> QED  BY <1>6, <2>1, Programs
<1>7. CASE pc \in {"sidecars", "stop", "stopSides", "preStart", "restart", "restartSides"}
  <2>1. k = 0 \/ k = 1
    <3>1. Len(Program(x)) = 2  BY <1>7, Programs
    <3> QED  BY <3>1, <1>2, <1>4
  <2>2. CASE pc = "sidecars"
    <3>1. Program(x)[1] = "load" /\ Program(x)[2] = "append"  BY <2>2, Programs
    <3> QED  BY <1>1, <2>1, <2>2, <3>1
  <2>3. CASE pc \in {"stop", "stopSides"}
    <3>1. Program(x)[1] = "stop" /\ Program(x)[2] = "remove"  BY <2>3, Programs
    <3> QED  BY <1>1, <2>1, <2>3, <3>1
  <2>4. CASE pc \in {"preStart", "restart", "restartSides"}
    <3>1. Program(x)[1] = "create" /\ Program(x)[2] = "start"  BY <2>4, Programs
    <3> QED  BY <1>1, <2>1, <2>4, <3>1
  <2> QED  BY <1>7, <2>2, <2>3, <2>4
<1>8. CASE pc = "files"
  <2>1. /\ Len(Program(x)) = 1 \/ Len(Program(x)) = 2
        /\ Program(x)[1] = "init" /\ (Len(Program(x)) = 2 => Program(x)[2] = "gentx")
    BY <1>8, Programs
  <2>2. CASE Len(Program(x)) = 1
    <3>1. k = 0  BY <2>2, <1>2, <1>3
    <3> QED  BY <1>1, <1>8, <2>1, <3>1
  <2>3. CASE Len(Program(x)) = 2
    <3>1. k = 0 \/ k = 1  BY <2>3, <1>2, <1>4
    <3> QED  BY <1>1, <1>8, <2>1, <2>3, <3>1
  <2> QED  BY <2>1, <2>2, <2>3
<1>9. CASE pc = "addFiles"
  <2>1. /\ Len(Program(x)) = 4 /\ Program(x)[1] = "init" /\ Program(x)[2] = "overwrite"
        /\ Program(x)[3] = "create" /\ Program(x)[4] = "start"
    BY <1>9, Programs
  <2>2. k = 0 \/ k = 1 \/ k = 2 \/ k = 3  BY <2>1, <1>2, <1>5
  <2> QED  BY <1>1, <1>9, <2>1, <2>2
<1> QED  BY <1>6, <1>7, <1>8, <1>9

\* What every goroutine of a group that ended without an error has done.
LEMMA EndsGive ==
  ASSUME TypesOK, GroupEnds, bad = {}, NEW x \in group, group \subseteq Items
  PROVE  /\ pc \in NewStages => at[x] # 0
         /\ pc = "files" /\ x \in Vals /\ ~skip => at[x] >= 2
         /\ pc \in {"preStart", "restart"} => at[x] >= 2
         /\ pc = "addFiles" => at[x] >= 4
<1>1. at[x] \in 0..4 /\ ~(at[x] < Len(Program(x)))
  BY DEF TypesOK, GroupEnds, Running
<1>2. pc \in NewStages => at[x] # 0  BY <1>1, Programs
<1>3. pc = "files" /\ x \in Vals /\ ~skip => at[x] >= 2  BY <1>1, Programs
<1>4. pc \in {"preStart", "restart"} => at[x] >= 2  BY <1>1, Programs
<1>5. pc = "addFiles" => at[x] >= 4  BY <1>1, Programs
<1> QED  BY <1>2, <1>3, <1>4, <1>5

\* One step of a goroutine: its stage, how many steps it has made, what it does.
LEMMA StepIs ==
  ASSUME TypesOK, GroupOK, NEW x \in Items, Step(x)
  PROVE  /\ x \in group /\ at[x] \in 0..3 /\ at' = [at EXCEPT ![x] = @ + 1]
         /\ UNCHANGED <<skip, numFull, nodes, cfgImage, pc, genbz, next, group, bad, txs, ops>>
         /\ \/ /\ pc = "sidecars" /\ UNCHANGED <<image, genesis, gentxs, containers>>
               /\ \/ snap' = [snap EXCEPT ![x] = sidecars] /\ UNCHANGED sidecars
                  \/ sidecars' = snap[x] \cup {x} /\ UNCHANGED snap
            \/ /\ pc \in NewStages /\ at[x] = 0 /\ image' = [image EXCEPT ![x] = cfgImage]
               /\ UNCHANGED <<sides, genesis, gentxs, containers>>
            \/ /\ pc \in {"files", "addFiles"} /\ at[x] = 0 /\ genesis' = [genesis EXCEPT ![x] = {}]
               /\ UNCHANGED <<sides, image, gentxs, containers>>
            \/ /\ pc = "files" /\ at[x] = 1 /\ genesis' = [genesis EXCEPT ![x] = @ \cup {<<"account", x>>}]
               /\ gentxs' = IF x = 1 THEN gentxs \cup {x} ELSE gentxs
               /\ UNCHANGED <<sides, image, containers>>
            \/ /\ pc = "addFiles" /\ at[x] = 1 /\ genesis' = [genesis EXCEPT ![x] = genbz]
               /\ UNCHANGED <<sides, image, gentxs, containers>>
            \/ /\ \/ pc \in {"preStart", "create", "restart", "restartSides"} /\ at[x] = 0
                  \/ pc = "addFiles" /\ at[x] = 2
               /\ CreateContainer(x) /\ UNCHANGED <<sides, image, genesis, gentxs>>
            \/ /\ \/ pc \in {"preStart", "restart", "restartSides"} /\ at[x] = 1
                  \/ pc = "start" /\ at[x] = 0
                  \/ pc = "addFiles" /\ at[x] = 3
               /\ ctr[x] = "created" /\ ctr' = [ctr EXCEPT ![x] = "running"]
               /\ UNCHANGED <<runs, sides, image, genesis, gentxs>>
            \/ /\ pc \in {"stop", "stopSides"}
               /\ \E c \in {"none", "exited", ctr[x]} : ctr' = [ctr EXCEPT ![x] = c] /\ c # "running"
               /\ UNCHANGED <<runs, sides, image, genesis, gentxs>>
<1> DEFINE k == at[x]
           step == Program(x)[k + 1]
<1>1. x \in group /\ k \in 0..4 /\ k < Len(Program(x)) /\ at' = [at EXCEPT ![x] = @ + 1]
  BY DEF Step, Running, TypesOK
<1>2. UNCHANGED <<skip, numFull, nodes, cfgImage, pc, genbz, next, group, bad, txs, ops>>
  BY DEF Step
<1>3. \/ step \in {"load", "append"} /\ AppendSidecar(step, x) /\ UNCHANGED <<image, genesis, gentxs, containers>>
      \/ /\ step = "construct" /\ image' = [image EXCEPT ![x] = cfgImage]
         /\ UNCHANGED <<sides, genesis, gentxs, containers>>
      \/ step \in {"init", "gentx", "overwrite"} /\ WriteGenesis(step, x) /\ UNCHANGED <<sides, image, containers>>
      \/ step = "create" /\ CreateContainer(x) /\ UNCHANGED <<sides, image, genesis, gentxs>>
      \/ step \in {"start", "stop", "remove"} /\ MoveContainer(step, x) /\ UNCHANGED <<sides, image, genesis, gentxs>>
  BY DEF Step
<1>4. \/ pc = "sidecars" /\ ((k = 0 /\ step = "load") \/ (k = 1 /\ step = "append"))
      \/ pc \in NewStages /\ k = 0 /\ step = "construct"
      \/ pc = "files" /\ ((k = 0 /\ step = "init") \/ (k = 1 /\ step = "gentx"))
      \/ pc = "addFiles" /\ \/ k = 0 /\ step = "init"
                            \/ k = 1 /\ step = "overwrite"
                            \/ k = 2 /\ step = "create"
                            \/ k = 3 /\ step = "start"
      \/ pc \in {"preStart", "restart", "restartSides"} /\ ((k = 0 /\ step = "create") \/ (k = 1 /\ step = "start"))
      \/ pc = "create" /\ k = 0 /\ step = "create"
      \/ pc = "start" /\ k = 0 /\ step = "start"
      \/ pc \in {"stop", "stopSides"} /\ ((k = 0 /\ step = "stop") \/ (k = 1 /\ step = "remove"))
  <2>1. pc \notin AloneStages  BY <1>1 DEF GroupOK
  <2>2. pc \in Stages /\ k \in Nat  BY <1>1 DEF TypesOK
  <2> QED  BY <1>1, <2>1, <2>2, StepNames
<1> HIDE DEF step
<1> QED  BY <1>1, <1>2, <1>3, <1>4 DEF AppendSidecar, WriteGenesis, MoveContainer

\* A node that runs is one that was given the genesis file of the first.
LEMMA RunningHas == ChainInv => OneGenesis
<1> SUFFICES ASSUME ChainInv, NEW n \in Members, ctr[n] = "running"
             PROVE  genesis[n] = genesis[1] /\ Complete(genesis[n])
  BY DEF OneGenesis, Complete
<1>1. CASE pc = "failed"
  BY <1>1 DEF ChainInv, GenesisOK, OneGenesis, Complete
<1>2. CASE pc # "failed"
  <2>1. pc \in Shared /\ n \in nodes  BY <1>2 DEF ChainInv, TypesOK, ContainersOK
  <2>2. ~(pc = "addFiles" /\ n \in group /\ at[n] < 2)
    <3> SUFFICES ASSUME pc = "addFiles", n \in group, at[n] < 2 PROVE FALSE  OBVIOUS
    <3>1. at[n] \in 0..4  BY DEF ChainInv, TypesOK, Items
    <3>2. at[n] < 3  BY <3>1
    <3> QED  BY <3>2 DEF ChainInv, ContainersOK
  <2> QED  BY <2>1, <2>2 DEF ChainInv, GenesisOK
<1> QED  BY <1>1, <1>2


\* A chain that gives up leaves its files and containers as they are.
LEMMA FailedKeeps ==
  ASSUME ChainInv, pc' = "failed", UNCHANGED <<skip, genesis, ctr>>
  PROVE  GenesisOK'
<1>1. OneGenesis'  BY RunningHas DEF OneGenesis
<1> QED  BY <1>1 DEF GenesisOK

\* So does a stage that follows another when every node has its genesis file.
LEMMA SharedKeeps ==
  ASSUME ChainInv, pc \in Shared \ {"addFiles"}, pc' \in Shared \ {"addFiles"},
         UNCHANGED <<skip, nodes, genesis>>,
         pc' \in Starting \cup {"addNodes"} => genbz' = genesis[1]
  PROVE  GenesisOK'
<1>1. Complete(genesis[1]) /\ \A n \in nodes : genesis[n] = genesis[1]
  BY DEF ChainInv, GenesisOK
<1>2. Complete(genesis[1])'  BY <1>1 DEF Complete
<1> QED  BY <1>1, <1>2 DEF GenesisOK

\* Initialize: the sidecars, then the nodes.
LEMMA InitializeSteps ==
  ASSUME ChainInv,
         \/ Initialize
         \/ SidecarsInitialized
         \/ NodesInitialized("nodes", "initialized", {})
  PROVE  ChainInv'
<1> USE NodesAssumption, NoneAssumption
        DEF Go, NoGroup, config, files, containers, sides, txs
<1>1. CASE Initialize
  <2>1. TypesOK'
    BY <1>1 DEF ChainInv, TypesOK, Initialize
  <2>2. GroupOK'
    BY <1>1 DEF ChainInv, GroupOK, Initialize, TypesOK
  <2>3. LocksOK'
    BY <1>1 DEF ChainInv, LocksOK, Initialize, TypesOK
  <2>4. ImagesOK'
    BY <1>1 DEF ChainInv, ImagesOK, Initialize, TypesOK, GroupOK
  <2>5. SidecarsOK'
    BY <1>1 DEF ChainInv, SidecarsOK, Initialize, TypesOK, GroupOK
  <2>6. ContainersOK'
    BY <1>1 DEF ChainInv, ContainersOK, Initialize, TypesOK, GroupOK
  <2>7. GenesisOK'
    BY <1>1 DEF ChainInv, GenesisOK, Initialize, TypesOK, GroupOK, Complete, Collects
  <2> QED  BY <2>1, <2>2, <2>3, <2>4, <2>5, <2>6, <2>7 DEF ChainInv
<1>2. CASE SidecarsInitialized
  <2>1. TypesOK'
    BY <1>2, MembersAre DEF ChainInv, TypesOK, SidecarsInitialized, Missing
  <2>2. GroupOK'
    <3>1. Missing \subseteq Members /\ 1 \in nodes \cup Missing
      BY MembersAre DEF ChainInv, TypesOK, Missing
    <3>2. Missing \cap nodes = {}  BY DEF Missing
    <3> QED  BY <1>2, <3>1, <3>2 DEF ChainInv, GroupOK, SidecarsInitialized
  <2>3. LocksOK'
    BY <1>2, MembersAre DEF ChainInv, LocksOK, SidecarsInitialized, TypesOK
  <2>4. ImagesOK'
    <3>1. Missing \subseteq Items  BY MembersAre DEF ChainInv, TypesOK, Missing, Items
    <3> QED  BY <1>2, <3>1 DEF ChainInv, ImagesOK, SidecarsInitialized
  <2>5. SidecarsOK'
    BY <1>2, MembersAre DEF ChainInv, SidecarsOK, SidecarsInitialized, TypesOK, GroupOK
  <2>6. ContainersOK'
    BY <1>2, MembersAre DEF ChainInv, ContainersOK, SidecarsInitialized, TypesOK, GroupOK
  <2>7. GenesisOK'
    <3>1. /\ pc = "sidecars" /\ UNCHANGED <<skip, genesis, ctr, next>>
          /\ (pc' = "nodes" \/ pc' = "failed")
      BY <1>2 DEF SidecarsInitialized
    <3>2. CASE pc' = "failed"  BY <3>1, <3>2, FailedKeeps
    <3>3. CASE pc' = "nodes"  BY <3>1, <3>3 DEF ChainInv, GenesisOK, TypesOK
    <3> QED  BY <3>1, <3>2, <3>3
  <2> QED  BY <2>1, <2>2, <2>3, <2>4, <2>5, <2>6, <2>7 DEF ChainInv
<1>3. CASE NodesInitialized("nodes", "initialized", {})
  <2>1. /\ pc = "nodes" /\ GroupEnds
        /\ UNCHANGED <<skip, numFull, cfgImage, image, sides, files, next, containers, txs>>
        /\ \/ bad # {} /\ pc' = "failed" /\ group' = {} /\ UNCHANGED nodes
           \/ bad = {} /\ nodes' = nodes \cup group /\ pc' = "initialized" /\ group' = {}
        /\ at' = [x \in Items |-> 0]
    BY <1>3 DEF NodesInitialized
  <2>2. group \subseteq Members /\ group \subseteq Items /\ 1 \in nodes \cup group /\ group \cap nodes = {}
    BY <2>1 DEF ChainInv, GroupOK, Items
  <2>3. TypesOK'
    BY <2>1, <2>2 DEF ChainInv, TypesOK
  <2>4. GroupOK'
    BY <1>3 DEF ChainInv, GroupOK, NodesInitialized, TypesOK
  <2>5. LocksOK'
    BY <1>3 DEF ChainInv, LocksOK, NodesInitialized, TypesOK
  <2>6. ImagesOK'
    <3>1. CASE bad # {}  BY <2>1, <3>1 DEF ChainInv, ImagesOK
    <3>2. CASE bad = {}
      <4>1. \A x \in group : at[x] # 0  BY <2>1, <2>2, <3>2, EndsGive DEF ChainInv
      <4>2. \A x \in group : image[x] = cfgImage /\ cfgImage \in Images
        BY <2>1, <4>1 DEF ChainInv, ImagesOK, TypesOK
      <4> QED  BY <2>1, <3>2, <4>2 DEF ChainInv, ImagesOK
    <3> QED  BY <3>1, <3>2
  <2>7. SidecarsOK'
    BY <1>3 DEF ChainInv, SidecarsOK, NodesInitialized, TypesOK, GroupOK
  <2>8. ContainersOK'
    BY <1>3 DEF ChainInv, ContainersOK, NodesInitialized, TypesOK, GroupOK
  <2>9. GenesisOK'
    <3>1. UNCHANGED <<skip, genesis, ctr, next>>  BY <2>1
    <3>2. CASE pc' = "failed"  BY <3>1, <3>2, FailedKeeps
    <3>3. CASE pc' # "failed"  BY <2>1, <3>1, <3>3 DEF ChainInv, GenesisOK, TypesOK
    <3> QED  BY <3>2, <3>3
  <2> QED  BY <2>3, <2>4, <2>5, <2>6, <2>7, <2>8, <2>9 DEF ChainInv
<1> QED  BY <1>1, <1>2, <1>3

\* Start, until every node has its genesis file.
LEMMA GenesisSteps ==
  ASSUME ChainInv,
         \/ Start
         \/ FilesDone
         \/ CollectValidator
         \/ CollectGentxs
         \/ OverwriteGenesisFiles
  PROVE  ChainInv'
<1> USE NodesAssumption, NoneAssumption
        DEF Go, NoGroup, config, files, containers, sides, txs
<1>1. CASE Start
  <2>1. TypesOK'
    BY <1>1 DEF ChainInv, TypesOK, Start
  <2>2. GroupOK'
    BY <1>1 DEF ChainInv, GroupOK, Start, TypesOK
  <2>3. LocksOK'
    BY <1>1 DEF ChainInv, LocksOK, Start, TypesOK
  <2>4. ImagesOK'
    BY <1>1 DEF ChainInv, ImagesOK, Start, TypesOK, GroupOK
  <2>5. SidecarsOK'
    BY <1>1 DEF ChainInv, SidecarsOK, Start, TypesOK, GroupOK
  <2>6. ContainersOK'
    BY <1>1 DEF ChainInv, ContainersOK, Start, TypesOK, GroupOK
  <2>7. GenesisOK'
    <3>1. /\ pc = "initialized" /\ pc' \in {"files", "failed"} /\ at' = [x \in Items |-> 0]
          /\ UNCHANGED <<skip, next, genesis, containers>>
      BY <1>1 DEF Start
    <3>2. at'[1] = 0  BY <3>1, MembersAre DEF Items
    <3>3. OneGenesis'  BY <3>1 DEF ChainInv, ContainersOK, OneGenesis
    <3> QED  BY <3>1, <3>2, <3>3 DEF ChainInv, GenesisOK
  <2> QED  BY <2>1, <2>2, <2>3, <2>4, <2>5, <2>6, <2>7 DEF ChainInv
<1>2. CASE FilesDone
  <2>1. TypesOK'
    BY <1>2 DEF ChainInv, TypesOK, FilesDone
  <2>2. GroupOK'
    BY <1>2 DEF ChainInv, GroupOK, FilesDone, TypesOK
  <2>3. LocksOK'
    BY <1>2 DEF ChainInv, LocksOK, FilesDone, TypesOK
  <2>4. ImagesOK'
    BY <1>2 DEF ChainInv, ImagesOK, FilesDone, TypesOK, GroupOK
  <2>5. SidecarsOK'
    BY <1>2 DEF ChainInv, SidecarsOK, FilesDone, TypesOK, GroupOK
  <2>6. ContainersOK'
    BY <1>2 DEF ChainInv, ContainersOK, FilesDone, TypesOK, GroupOK
  <2>7. GenesisOK'
    <3>1. /\ pc = "files" /\ GroupEnds /\ UNCHANGED <<skip, next, genesis, gentxs, containers>>
          /\ (bad = {} /\ pc' = "collect") \/ pc' = "failed"
      BY <1>2 DEF FilesDone
    <3>2. OneGenesis'  BY <3>1 DEF ChainInv, ContainersOK, OneGenesis
    <3>3. next = 2  BY <3>1 DEF ChainInv, GenesisOK
    <3>4. pc' = "collect" /\ ~skip => Collects(1)
      <4>1. 1 \in group /\ group \subseteq Items /\ 1 \in Vals
        BY <3>1, MembersAre DEF ChainInv, GroupOK, TypesOK, Items
      <4>2. bad = {} /\ ~skip => at[1] >= 2  BY <3>1, <4>1, EndsGive DEF ChainInv
      <4> QED  BY <3>1, <4>2 DEF ChainInv, GenesisOK
    <3>5. \A v \in Vals : v < next => v = 1  BY <3>3 DEF Vals
    <3>6. pc' = "collect" /\ ~skip => \A v \in Vals : v < next => Collects(v)'
      BY <3>1, <3>4, <3>5 DEF Collects
    <3>7. next >= 2 /\ next' = next  BY <3>1, <3>3
    <3> QED  BY <3>1, <3>2, <3>6, <3>7 DEF GenesisOK
  <2> QED  BY <2>1, <2>2, <2>3, <2>4, <2>5, <2>6, <2>7 DEF ChainInv
<1>3. CASE CollectValidator
  <2>1. TypesOK'
    BY <1>3 DEF ChainInv, TypesOK, CollectValidator
  <2>2. GroupOK'
    BY <1>3 DEF ChainInv, GroupOK, CollectValidator, TypesOK
  <2>3. LocksOK'
    BY <1>3 DEF ChainInv, LocksOK, CollectValidator, TypesOK
  <2>4. ImagesOK'
    BY <1>3 DEF ChainInv, ImagesOK, CollectValidator, TypesOK, GroupOK
  <2>5. SidecarsOK'
    BY <1>3 DEF ChainInv, SidecarsOK, CollectValidator, TypesOK, GroupOK
  <2>6. ContainersOK'
    BY <1>3 DEF ChainInv, ContainersOK, CollectValidator, TypesOK, GroupOK
  <2>7. GenesisOK'
    <3>1. OneGenesis'
      BY <1>3 DEF ChainInv, ContainersOK, OneGenesis, CollectValidator
    <3>2. CASE pc' = "failed"  BY <3>1, <3>2 DEF GenesisOK
    <3>3. CASE pc' # "failed"
      <4>1. /\ pc = "collect" /\ pc' = pc /\ next' = next + 1 /\ UNCHANGED skip
            /\ genesis' = [genesis EXCEPT ![1] = @ \cup {<<"account", next>>}]
            /\ gentxs' = IF skip THEN gentxs ELSE gentxs \cup {next}
        BY <1>3, <3>3 DEF CollectValidator
      <4>2. genesis'[1] = genesis[1] \cup {<<"account", next>>}
        BY <4>1, MembersAre DEF ChainInv, TypesOK
      <4>3. next \in Nat /\ next >= 2  BY <4>1 DEF ChainInv, TypesOK, GenesisOK
      <4>4. ASSUME ~skip, NEW v \in Vals, v < next' PROVE Collects(v)'
        <5>1. CASE v = next  BY <4>1, <4>2, <4>4, <5>1 DEF Collects
        <5>2. CASE v # next
          <6>1. v < next  BY <4>1, <4>3, <4>4, <5>2 DEF Vals
          <6>2. Collects(v)  BY <4>1, <4>4, <6>1 DEF ChainInv, GenesisOK
          <6> QED  BY <4>1, <4>2, <4>4, <6>2 DEF Collects
        <5> QED  BY <5>1, <5>2
      <4>5. next' >= 2  BY <4>1, <4>3
      <4> QED  BY <4>1, <4>4, <4>5 DEF GenesisOK
    <3> QED  BY <3>2, <3>3
  <2> QED  BY <2>1, <2>2, <2>3, <2>4, <2>5, <2>6, <2>7 DEF ChainInv
<1>4. CASE CollectGentxs
  <2>1. TypesOK'
    BY <1>4 DEF ChainInv, TypesOK, CollectGentxs, Collected
  <2>2. GroupOK'
    BY <1>4 DEF ChainInv, GroupOK, CollectGentxs, TypesOK
  <2>3. LocksOK'
    BY <1>4 DEF ChainInv, LocksOK, CollectGentxs, TypesOK
  <2>4. ImagesOK'
    BY <1>4 DEF ChainInv, ImagesOK, CollectGentxs, TypesOK, GroupOK
  <2>5. SidecarsOK'
    BY <1>4 DEF ChainInv, SidecarsOK, CollectGentxs, TypesOK, GroupOK
  <2>6. ContainersOK'
    BY <1>4 DEF ChainInv, ContainersOK, CollectGentxs, TypesOK, GroupOK
  <2>7. GenesisOK'
    <3>1. OneGenesis'
      BY <1>4 DEF ChainInv, ContainersOK, OneGenesis, CollectGentxs
    <3>2. CASE pc' = "failed"  BY <3>1, <3>2 DEF GenesisOK
    <3>3. CASE pc' # "failed"
      <4>1. /\ pc = "collect" /\ pc' = "overwrite" /\ next > NVals /\ UNCHANGED skip
            /\ genbz' = Collected \cup {<<"modified", 0>>}
        BY <1>4, <3>3 DEF CollectGentxs
      <4>2. \A v \in Vals : v < next  BY <4>1 DEF Vals, ChainInv, TypesOK
      <4>3. ~skip => \A v \in Vals : Collects(v)  BY <4>1, <4>2 DEF ChainInv, GenesisOK
      <4>4. Complete(genbz)'  BY <4>1, <4>3 DEF Complete, Collected, Collects
      <4> QED  BY <4>1, <4>4 DEF GenesisOK
    <3> QED  BY <3>2, <3>3
  <2> QED  BY <2>1, <2>2, <2>3, <2>4, <2>5, <2>6, <2>7 DEF ChainInv
<1>5. CASE OverwriteGenesisFiles
  <2>1. TypesOK'
    BY <1>5 DEF ChainInv, TypesOK, OverwriteGenesisFiles
  <2>2. GroupOK'
    BY <1>5 DEF ChainInv, GroupOK, OverwriteGenesisFiles, TypesOK
  <2>3. LocksOK'
    BY <1>5 DEF ChainInv, LocksOK, OverwriteGenesisFiles, TypesOK
  <2>4. ImagesOK'
    BY <1>5 DEF ChainInv, ImagesOK, OverwriteGenesisFiles, TypesOK, GroupOK
  <2>5. SidecarsOK'
    <3>1. CASE pc' = "failed"  BY <3>1 DEF SidecarsOK
    <3>2. CASE pc' # "failed"
      <4>1. /\ pc' = "preStart" /\ group' = {s \in sidecars \cap PreStart : ctr[s] # "running"}
            /\ at' = [x \in Items |-> 0] /\ UNCHANGED <<sidecars, ctr>>
        BY <1>5, <3>2 DEF OverwriteGenesisFiles
      <4>2. \A s \in sidecars : at'[s] = 0  BY <4>1 DEF ChainInv, TypesOK, Items
      <4> QED  BY <4>1, <4>2 DEF SidecarsOK
    <3> QED  BY <3>1, <3>2
  <2>6. ContainersOK'
    BY <1>5 DEF ChainInv, ContainersOK, OverwriteGenesisFiles, TypesOK, GroupOK
  <2>7. GenesisOK'
    <3>1. pc = "overwrite" /\ UNCHANGED <<skip, nodes, genbz, containers>>
      BY <1>5 DEF OverwriteGenesisFiles
    <3>2. CASE pc' = "failed"
      <4>1. OneGenesis'  BY <3>1 DEF ChainInv, ContainersOK, OneGenesis
      <4> QED  BY <3>2, <4>1 DEF GenesisOK
    <3>3. CASE pc' # "failed"
      <4>1. pc' = "preStart" /\ genesis' = [n \in Members |-> IF n \in nodes THEN genbz ELSE genesis[n]]
        BY <1>5, <3>3 DEF OverwriteGenesisFiles
      <4>2. nodes \subseteq Members /\ 1 \in nodes  BY <3>1 DEF ChainInv, TypesOK, GroupOK
      <4>3. \A n \in nodes : genesis'[n] = genbz  BY <4>1, <4>2
      <4>4. Complete(genbz)  BY <3>1 DEF ChainInv, GenesisOK
      <4>5. Complete(genesis[1])'  BY <3>1, <4>2, <4>3, <4>4 DEF Complete
      <4> QED  BY <3>1, <4>1, <4>2, <4>3, <4>5 DEF GenesisOK
    <3> QED  BY <3>2, <3>3
  <2> QED  BY <2>1, <2>2, <2>3, <2>4, <2>5, <2>6, <2>7 DEF ChainInv
<1> QED  BY <1>1, <1>2, <1>3, <1>4, <1>5

\* Start, from the pre-start sidecars on.
LEMMA StartSteps ==
  ASSUME ChainInv,
         \/ PreStarted
         \/ Created
         \/ Started
         \/ WaitForBlocks
  PROVE  ChainInv'
<1> USE NodesAssumption, NoneAssumption
        DEF Go, NoGroup, config, files, containers, sides, txs
<1>1. CASE PreStarted
  <2>1. TypesOK'
    BY <1>1 DEF ChainInv, TypesOK, PreStarted, Stage
  <2>2. GroupOK'
    BY <1>1 DEF ChainInv, GroupOK, PreStarted, Stage, TypesOK
  <2>3. LocksOK'
    BY <1>1 DEF ChainInv, LocksOK, PreStarted, Stage, TypesOK
  <2>4. ImagesOK'
    BY <1>1 DEF ChainInv, ImagesOK, PreStarted, Stage, TypesOK, GroupOK
  <2>5. SidecarsOK'
    <3>1. CASE bad # {}  BY <1>1, <3>1 DEF PreStarted, Stage, SidecarsOK
    <3>2. CASE bad = {}
      <4>1. /\ pc = "preStart" /\ GroupEnds /\ pc' = "create" /\ UNCHANGED <<sidecars, ctr>>
        BY <1>1, <3>2 DEF PreStarted, Stage
      <4>2. group \subseteq Items  BY <4>1 DEF ChainInv, GroupOK, Items
      <4>3. \A s \in group : at[s] >= 2  BY <3>2, <4>1, <4>2, EndsGive DEF ChainInv
      <4> QED  BY <4>1, <4>3 DEF ChainInv, SidecarsOK
    <3> QED  BY <3>1, <3>2
  <2>6. ContainersOK'
    BY <1>1 DEF ChainInv, ContainersOK, PreStarted, Stage, TypesOK, GroupOK
  <2>7. GenesisOK'
    <3>1. /\ pc = "preStart" /\ (pc' = "create" \/ pc' = "failed")
          /\ UNCHANGED <<skip, nodes, genesis, genbz, ctr>>
      BY <1>1 DEF PreStarted, Stage
    <3>2. genbz = genesis[1]  BY <3>1 DEF ChainInv, GenesisOK
    <3>3. CASE pc' = "failed"  BY <3>1, <3>3, FailedKeeps
    <3>4. CASE pc' = "create"  BY <3>1, <3>2, <3>4, SharedKeeps
    <3> QED  BY <3>1, <3>3, <3>4
  <2> QED  BY <2>1, <2>2, <2>3, <2>4, <2>5, <2>6, <2>7 DEF ChainInv
<1>2. CASE Created
  <2>1. TypesOK'
    BY <1>2 DEF ChainInv, TypesOK, Created, Stage
  <2>2. GroupOK'
    BY <1>2 DEF ChainInv, GroupOK, Created, Stage, TypesOK
  <2>3. LocksOK'
    BY <1>2 DEF ChainInv, LocksOK, Created, Stage, TypesOK
  <2>4. ImagesOK'
    BY <1>2 DEF ChainInv, ImagesOK, Created, Stage, TypesOK, GroupOK
  <2>5. SidecarsOK'
    BY <1>2 DEF ChainInv, SidecarsOK, Created, Stage, TypesOK, GroupOK
  <2>6. ContainersOK'
    BY <1>2 DEF ChainInv, ContainersOK, Created, Stage, TypesOK, GroupOK
  <2>7. GenesisOK'
    <3>1. /\ pc = "create" /\ (pc' = "start" \/ pc' = "failed")
          /\ UNCHANGED <<skip, nodes, genesis, genbz, ctr>>
      BY <1>2 DEF Created, Stage
    <3>2. genbz = genesis[1]  BY <3>1 DEF ChainInv, GenesisOK
    <3>3. CASE pc' = "failed"  BY <3>1, <3>3, FailedKeeps
    <3>4. CASE pc' = "start"  BY <3>1, <3>2, <3>4, SharedKeeps
    <3> QED  BY <3>1, <3>3, <3>4
  <2> QED  BY <2>1, <2>2, <2>3, <2>4, <2>5, <2>6, <2>7 DEF ChainInv
<1>3. CASE Started
  <2>1. TypesOK'
    BY <1>3 DEF ChainInv, TypesOK, Started, Stage
  <2>2. GroupOK'
    BY <1>3 DEF ChainInv, GroupOK, Started, Stage, TypesOK
  <2>3. LocksOK'
    BY <1>3 DEF ChainInv, LocksOK, Started, Stage, TypesOK
  <2>4. ImagesOK'
    BY <1>3 DEF ChainInv, ImagesOK, Started, Stage, TypesOK, GroupOK
  <2>5. SidecarsOK'
    BY <1>3 DEF ChainInv, SidecarsOK, Started, Stage, TypesOK, GroupOK
  <2>6. ContainersOK'
    BY <1>3 DEF ChainInv, ContainersOK, Started, Stage, TypesOK, GroupOK
  <2>7. GenesisOK'
    <3>1. /\ pc = "start" /\ (pc' = "wait" \/ pc' = "failed")
          /\ UNCHANGED <<skip, nodes, genesis, genbz, ctr>>
      BY <1>3 DEF Started, Stage
    <3>2. genbz = genesis[1]  BY <3>1 DEF ChainInv, GenesisOK
    <3>3. CASE pc' = "failed"  BY <3>1, <3>3, FailedKeeps
    <3>4. CASE pc' = "wait"  BY <3>1, <3>2, <3>4, SharedKeeps
    <3> QED  BY <3>1, <3>3, <3>4
  <2> QED  BY <2>1, <2>2, <2>3, <2>4, <2>5, <2>6, <2>7 DEF ChainInv
<1>4. CASE WaitForBlocks
  <2>1. TypesOK'
    BY <1>4 DEF ChainInv, TypesOK, WaitForBlocks
  <2>2. GroupOK'
    BY <1>4 DEF ChainInv, GroupOK, WaitForBlocks, TypesOK
  <2>3. LocksOK'
    BY <1>4 DEF ChainInv, LocksOK, WaitForBlocks, TypesOK
  <2>4. ImagesOK'
    BY <1>4 DEF ChainInv, ImagesOK, WaitForBlocks, TypesOK, GroupOK
  <2>5. SidecarsOK'
    BY <1>4 DEF ChainInv, SidecarsOK, WaitForBlocks, TypesOK, GroupOK
  <2>6. ContainersOK'
    BY <1>4 DEF ChainInv, ContainersOK, WaitForBlocks, TypesOK, GroupOK
  <2>7. GenesisOK'
    <3>1. /\ pc = "wait" /\ (pc' = "up" \/ pc' = "failed")
          /\ UNCHANGED <<skip, nodes, genesis, ctr>>
      BY <1>4 DEF WaitForBlocks
    <3>2. CASE pc' = "failed"  BY <3>1, <3>2, FailedKeeps
    <3>3. CASE pc' = "up"  BY <3>1, <3>3, SharedKeeps
    <3> QED  BY <3>1, <3>2, <3>3
  <2> QED  BY <2>1, <2>2, <2>3, <2>4, <2>5, <2>6, <2>7 DEF ChainInv
<1> QED  BY <1>1, <1>2, <1>3, <1>4

\* Operations on a chain that is up, and FindTxs beside them.
LEMMA OperationSteps ==
  ASSUME ChainInv,
         \/ StopAllNodes
         \/ StopAllSidecars
         \/ StartAllNodes
         \/ StartAllSidecars
         \/ \E i \in Images : UpgradeVersion(i)
         \/ \E inc \in 1..MaxFull : AddFullNodes(inc)
         \/ NodesInitialized("addNodes", "addFiles", group)
         \/ OpDone
         \/ FindTxs
  PROVE  ChainInv'
<1> USE NodesAssumption, NoneAssumption
        DEF Go, NoGroup, config, files, containers, sides, txs
<1>1. CASE StopAllNodes
  <2>1. TypesOK'
    BY <1>1 DEF ChainInv, TypesOK, StopAllNodes, Begin
  <2>2. GroupOK'
    BY <1>1 DEF ChainInv, GroupOK, StopAllNodes, Begin, TypesOK
  <2>3. LocksOK'
    BY <1>1 DEF ChainInv, LocksOK, StopAllNodes, Begin, TypesOK
  <2>4. ImagesOK'
    BY <1>1 DEF ChainInv, ImagesOK, StopAllNodes, Begin, TypesOK, GroupOK
  <2>5. SidecarsOK'
    BY <1>1 DEF ChainInv, SidecarsOK, StopAllNodes, Begin, TypesOK, GroupOK
  <2>6. ContainersOK'
    BY <1>1 DEF ChainInv, ContainersOK, StopAllNodes, Begin, TypesOK, GroupOK
  <2>7. GenesisOK'
    BY <1>1 DEF ChainInv, GenesisOK, StopAllNodes, Begin, TypesOK, GroupOK, Complete, Collects
  <2> QED  BY <2>1, <2>2, <2>3, <2>4, <2>5, <2>6, <2>7 DEF ChainInv
<1>2. CASE StopAllSidecars
  <2>1. TypesOK'
    BY <1>2 DEF ChainInv, TypesOK, StopAllSidecars, Begin
  <2>2. GroupOK'
    BY <1>2 DEF ChainInv, GroupOK, StopAllSidecars, Begin, TypesOK
  <2>3. LocksOK'
    BY <1>2 DEF ChainInv, LocksOK, StopAllSidecars, Begin, TypesOK
  <2>4. ImagesOK'
    BY <1>2 DEF ChainInv, ImagesOK, StopAllSidecars, Begin, TypesOK, GroupOK
  <2>5. SidecarsOK'
    BY <1>2 DEF ChainInv, SidecarsOK, StopAllSidecars, Begin, TypesOK, GroupOK
  <2>6. ContainersOK'
    BY <1>2 DEF ChainInv, ContainersOK, StopAllSidecars, Begin, TypesOK, GroupOK
  <2>7. GenesisOK'
    BY <1>2 DEF ChainInv, GenesisOK, StopAllSidecars, Begin, TypesOK, GroupOK, Complete, Collects
  <2> QED  BY <2>1, <2>2, <2>3, <2>4, <2>5, <2>6, <2>7 DEF ChainInv
<1>3. CASE StartAllNodes
  <2>1. TypesOK'
    BY <1>3 DEF ChainInv, TypesOK, StartAllNodes, Begin
  <2>2. GroupOK'
    BY <1>3 DEF ChainInv, GroupOK, StartAllNodes, Begin, TypesOK
  <2>3. LocksOK'
    BY <1>3 DEF ChainInv, LocksOK, StartAllNodes, Begin, TypesOK
  <2>4. ImagesOK'
    <3>1. nodes \subseteq Items  BY DEF ChainInv, TypesOK, Items
    <3> QED  BY <1>3, <3>1 DEF ChainInv, ImagesOK, StartAllNodes, Begin
  <2>5. SidecarsOK'
    BY <1>3 DEF ChainInv, SidecarsOK, StartAllNodes, Begin, TypesOK, GroupOK
  <2>6. ContainersOK'
    BY <1>3 DEF ChainInv, ContainersOK, StartAllNodes, Begin, TypesOK, GroupOK
  <2>7. GenesisOK'
    BY <1>3 DEF ChainInv, GenesisOK, StartAllNodes, Begin, TypesOK, GroupOK, Complete, Collects
  <2> QED  BY <2>1, <2>2, <2>3, <2>4, <2>5, <2>6, <2>7 DEF ChainInv
<1>4. CASE StartAllSidecars
  <2>1. TypesOK'
    BY <1>4 DEF ChainInv, TypesOK, StartAllSidecars, Begin
  <2>2. GroupOK'
    BY <1>4 DEF ChainInv, GroupOK, StartAllSidecars, Begin, TypesOK
  <2>3. LocksOK'
    BY <1>4 DEF ChainInv, LocksOK, StartAllSidecars, Begin, TypesOK
  <2>4. ImagesOK'
    BY <1>4 DEF ChainInv, ImagesOK, StartAllSidecars, Begin, TypesOK, GroupOK
  <2>5. SidecarsOK'
    BY <1>4 DEF ChainInv, SidecarsOK, StartAllSidecars, Begin, TypesOK, GroupOK
  <2>6. ContainersOK'
    BY <1>4 DEF ChainInv, ContainersOK, StartAllSidecars, Begin, TypesOK, GroupOK
  <2>7. GenesisOK'
    BY <1>4 DEF ChainInv, GenesisOK, StartAllSidecars, Begin, TypesOK, GroupOK, Complete, Collects
  <2> QED  BY <2>1, <2>2, <2>3, <2>4, <2>5, <2>6, <2>7 DEF ChainInv
<1>5. CASE \E i \in Images : UpgradeVersion(i)
  <2> PICK i \in Images : UpgradeVersion(i)  BY <1>5
  <2>1. TypesOK'
    <3>1. cfgImage' \in Images
      <4>1. cfgImage' = [cfgImage EXCEPT !.version = i.version]  BY DEF UpgradeVersion
      <4> QED  BY <4>1 DEF ChainInv, TypesOK, Images
    <3>2. image' \in [Members -> Images \cup {None}]  BY DEF ChainInv, TypesOK, UpgradeVersion
    <3> QED  BY <3>1, <3>2 DEF ChainInv, TypesOK, UpgradeVersion
  <2>2. GroupOK'
    BY DEF ChainInv, GroupOK, UpgradeVersion, TypesOK
  <2>3. LocksOK'
    BY DEF ChainInv, LocksOK, UpgradeVersion, TypesOK
  <2>4. ImagesOK'
    BY DEF ChainInv, ImagesOK, UpgradeVersion, TypesOK, GroupOK
  <2>5. SidecarsOK'
    BY DEF ChainInv, SidecarsOK, UpgradeVersion, TypesOK, GroupOK
  <2>6. ContainersOK'
    BY DEF ChainInv, ContainersOK, UpgradeVersion, TypesOK, GroupOK
  <2>7. GenesisOK'
    BY DEF ChainInv, GenesisOK, UpgradeVersion, TypesOK, GroupOK, Complete, Collects
  <2> QED  BY <2>1, <2>2, <2>3, <2>4, <2>5, <2>6, <2>7 DEF ChainInv
<1>6. CASE \E inc \in 1..MaxFull : AddFullNodes(inc)
  <2> PICK inc \in 1..MaxFull : AddFullNodes(inc)  BY <1>6
  <2>1. TypesOK'
    BY DEF ChainInv, TypesOK, AddFullNodes
  <2>2. GroupOK'
    <3>1. CASE pc' = "failed"  BY <3>1 DEF AddFullNodes, GroupOK
    <3>2. CASE pc' # "failed"
      <4>1. /\ pc = "up" /\ pc' = "addNodes" /\ group' = (1..(NVals + numFull')) \ nodes /\ UNCHANGED nodes
            /\ numFull' \in 0..MaxFull
        BY <3>2 DEF AddFullNodes, ChainInv, TypesOK
      <4>2. group' \subseteq Members  BY <4>1, MembersAre
      <4> QED  BY <4>1, <4>2 DEF ChainInv, GroupOK
    <3> QED  BY <3>1, <3>2
  <2>3. LocksOK'
    BY DEF ChainInv, LocksOK, AddFullNodes, TypesOK
  <2>4. ImagesOK'
    <3>1. CASE pc' = "failed"  BY <3>1 DEF ChainInv, ImagesOK, AddFullNodes
    <3>2. CASE pc' # "failed"
      <4>1. /\ pc' = "addNodes" /\ UNCHANGED <<nodes, image, cfgImage>> /\ at' = [x \in Items |-> 0]
        BY <3>2 DEF AddFullNodes
      <4>2. group' \subseteq Items  BY <2>2, <4>1 DEF GroupOK, Items
      <4> QED  BY <4>1, <4>2 DEF ChainInv, ImagesOK
    <3> QED  BY <3>1, <3>2
  <2>5. SidecarsOK'
    BY DEF ChainInv, SidecarsOK, AddFullNodes, TypesOK, GroupOK
  <2>6. ContainersOK'
    BY DEF ChainInv, ContainersOK, AddFullNodes, TypesOK, GroupOK
  <2>7. GenesisOK'
    <3>1. /\ pc = "up" /\ ((pc' = "addNodes" /\ genbz' = genesis[1]) \/ pc' = "failed")
          /\ UNCHANGED <<skip, nodes, genesis, ctr>>
      BY DEF AddFullNodes
    <3>2. CASE pc' = "failed"  BY <3>1, <3>2, FailedKeeps
    <3>3. CASE pc' # "failed"  BY <3>1, <3>3, SharedKeeps
    <3> QED  BY <3>2, <3>3
  <2> QED  BY <2>1, <2>2, <2>3, <2>4, <2>5, <2>6, <2>7 DEF ChainInv
<1>7. CASE NodesInitialized("addNodes", "addFiles", group)
  <2>1. /\ pc = "addNodes" /\ GroupEnds
        /\ UNCHANGED <<skip, numFull, cfgImage, image, sides, files, next, containers, txs>>
        /\ \/ bad # {} /\ pc' = "failed" /\ group' = {} /\ UNCHANGED nodes
           \/ bad = {} /\ nodes' = nodes \cup group /\ pc' = "addFiles" /\ group' = group
        /\ at' = [x \in Items |-> 0]
    BY <1>7 DEF NodesInitialized
  <2>2. group \subseteq Members /\ group \subseteq Items /\ 1 \in nodes \cup group /\ group \cap nodes = {}
    BY <2>1 DEF ChainInv, GroupOK, Items
  <2>3. TypesOK'
    BY <2>1, <2>2 DEF ChainInv, TypesOK
  <2>4. GroupOK'
    BY <1>7 DEF ChainInv, GroupOK, NodesInitialized, TypesOK
  <2>5. LocksOK'
    BY <1>7 DEF ChainInv, LocksOK, NodesInitialized, TypesOK
  <2>6. ImagesOK'
    <3>1. CASE bad # {}  BY <2>1, <3>1 DEF ChainInv, ImagesOK
    <3>2. CASE bad = {}
      <4>1. \A x \in group : at[x] # 0  BY <2>1, <2>2, <3>2, EndsGive DEF ChainInv
      <4>2. \A x \in group : image[x] = cfgImage /\ cfgImage \in Images
        BY <2>1, <4>1 DEF ChainInv, ImagesOK, TypesOK
      <4> QED  BY <2>1, <3>2, <4>2 DEF ChainInv, ImagesOK
    <3> QED  BY <3>1, <3>2
  <2>7. SidecarsOK'
    BY <1>7 DEF ChainInv, SidecarsOK, NodesInitialized, TypesOK, GroupOK
  <2>8. ContainersOK'
    BY <1>7 DEF ChainInv, ContainersOK, NodesInitialized, TypesOK, GroupOK
  <2>9. GenesisOK'
    <3>1. CASE bad # {}
      BY <2>1, <3>1, RunningHas DEF OneGenesis, GenesisOK
    <3>2. CASE bad = {}
      <4>1. \A x \in group : at'[x] < 2  BY <2>1, <2>2
      <4>2. pc' = "addFiles" /\ nodes' = nodes \cup group /\ group' = group /\ UNCHANGED <<skip, genesis, genbz>>
        BY <2>1, <3>2
      <4>3. genbz = genesis[1] /\ Complete(genesis[1]) /\ \A n \in nodes : genesis[n] = genesis[1]
        BY <2>1 DEF ChainInv, GenesisOK
      <4> QED  BY <4>1, <4>2, <4>3 DEF GenesisOK, Complete
    <3> QED  BY <3>1, <3>2
  <2> QED  BY <2>3, <2>4, <2>5, <2>6, <2>7, <2>8, <2>9 DEF ChainInv
<1>8. CASE OpDone
  <2>1. TypesOK'
    BY <1>8 DEF ChainInv, TypesOK, OpDone
  <2>2. GroupOK'
    BY <1>8 DEF ChainInv, GroupOK, OpDone, TypesOK
  <2>3. LocksOK'
    BY <1>8 DEF ChainInv, LocksOK, OpDone, TypesOK
  <2>4. ImagesOK'
    BY <1>8 DEF ChainInv, ImagesOK, OpDone, TypesOK, GroupOK
  <2>5. SidecarsOK'
    BY <1>8 DEF ChainInv, SidecarsOK, OpDone, TypesOK, GroupOK
  <2>6. ContainersOK'
    BY <1>8 DEF ChainInv, ContainersOK, OpDone, TypesOK, GroupOK
  <2>7. GenesisOK'
    <3>1. UNCHANGED <<skip, nodes, genesis, genbz, containers>> /\ GroupEnds
          /\ pc' = IF bad = {} THEN "up" ELSE "failed"
      BY <1>8 DEF OpDone
    <3>2. CASE bad # {}  BY <3>1, <3>2, RunningHas DEF GenesisOK, OneGenesis
    <3>3. CASE bad = {}
      <4>1. pc \in Shared  BY <1>8 DEF OpDone
      <4>2. pc = "addFiles" => \A n \in group : at[n] >= 4 /\ at[n] \in 0..4
        <5>1. pc = "addFiles" => group \subseteq Items  BY DEF ChainInv, GroupOK, TypesOK, Items
        <5> QED  BY <3>1, <3>3, <5>1, EndsGive DEF ChainInv, TypesOK
      <4>3. \A n \in nodes : genesis[n] = genesis[1]
        BY <4>1, <4>2 DEF ChainInv, GenesisOK
      <4> QED  BY <3>1, <3>3, <4>1, <4>3 DEF ChainInv, GenesisOK, Complete
    <3> QED  BY <3>2, <3>3
  <2> QED  BY <2>1, <2>2, <2>3, <2>4, <2>5, <2>6, <2>7 DEF ChainInv
<1>9. CASE FindTxs
  <2>1. TypesOK'
    BY <1>9 DEF ChainInv, TypesOK, FindTxs
  <2>2. GroupOK'
    BY <1>9 DEF ChainInv, GroupOK, FindTxs, TypesOK
  <2>3. LocksOK'
    BY <1>9 DEF ChainInv, LocksOK, FindTxs, TypesOK
  <2>4. ImagesOK'
    BY <1>9 DEF ChainInv, ImagesOK, FindTxs, TypesOK, GroupOK
  <2>5. SidecarsOK'
    BY <1>9 DEF ChainInv, SidecarsOK, FindTxs, TypesOK, GroupOK
  <2>6. ContainersOK'
    BY <1>9 DEF ChainInv, ContainersOK, FindTxs, TypesOK, GroupOK
  <2>7. GenesisOK'
    BY <1>9 DEF ChainInv, GenesisOK, FindTxs, TypesOK, GroupOK, Complete, Collects, OneGenesis
  <2> QED  BY <2>1, <2>2, <2>3, <2>4, <2>5, <2>6, <2>7 DEF ChainInv
<1> QED  BY <1>1, <1>2, <1>3, <1>4, <1>5, <1>6, <1>7, <1>8, <1>9

\* A goroutine of a group goes on or fails.
LEMMA GoroutineSteps ==
  ASSUME ChainInv,
         \/ \E x \in Items : Step(x)
         \/ \E x \in Items : StepFails(x)
  PROVE  ChainInv'
<1> USE NodesAssumption, NoneAssumption
        DEF Go, NoGroup, config, files, containers, sides, txs
<1>1. CASE \E x \in Items : Step(x)
  <2> PICK x \in Items : Step(x)  BY <1>1
  <2>1. /\ x \in group /\ at[x] \in 0..3 /\ at' = [at EXCEPT ![x] = @ + 1]
        /\ UNCHANGED <<skip, numFull, nodes, cfgImage, pc, genbz, next, group, bad, txs, ops>>
    BY StepIs DEF ChainInv
  <2>2. /\ at' \in [Items -> 0..4] /\ at'[x] = at[x] + 1
        /\ \A y \in Items : y # x => at'[y] = at[y]
    BY <2>1 DEF ChainInv, TypesOK
  <2>3. pc \notin AloneStages  BY <2>1 DEF ChainInv, GroupOK
  <2>4. /\ pc = "sidecars" => x \in SidecarIDs
        /\ pc \in SideStages => x \in SidecarIDs /\ x \notin Members
        /\ pc \in NewStages => x \in Members /\ x \notin nodes
        /\ pc \in NodeStages => x \in Members /\ x \in nodes
        /\ pc = "addFiles" => x \in Members /\ x \in nodes /\ x # 1
    BY <2>1, MembersAre DEF ChainInv, GroupOK, TypesOK
  <2>5. /\ ctr' \in [Items -> {"none", "created", "running", "exited"}]
        /\ \A y \in Items : y # x => ctr'[y] = ctr[y]
        /\ UNCHANGED ctr \/ pc \in (NodeStages \cup SideStages \cup {"addFiles"}) \ {"files", "sidecars"}
        /\ pc = "create" => ctr'[x] = "created"
        /\ pc \in {"restart", "preStart"} /\ at[x] = 1 => ctr'[x] = "running"
        /\ pc = "addFiles" /\ at[x] < 2 => UNCHANGED ctr
    BY StepIs DEF ChainInv, TypesOK, CreateContainer
  <2>6. /\ runs' \in [Members -> Images \cup {None}]
        /\ \A y \in Members : y # x => runs'[y] = runs[y]
        /\ pc = "restart" /\ at[x] = 0 => runs'[x] = image[x]
        /\ pc = "restart" /\ at[x] # 0 => UNCHANGED runs
    BY StepIs, <2>4 DEF ChainInv, TypesOK, CreateContainer
  <2>7. /\ image' \in [Members -> Images \cup {None}]
        /\ \A y \in Members : y # x => image'[y] = image[y]
        /\ pc \in NewStages => image'[x] = cfgImage
        /\ pc \notin NewStages => UNCHANGED image
    BY StepIs, <2>4 DEF ChainInv, TypesOK
  <2>8. /\ sidecars' \subseteq SidecarIDs /\ snap' \in [SidecarIDs -> SUBSET SidecarIDs]
        /\ pc # "sidecars" => UNCHANGED sidecars
    BY StepIs, <2>4 DEF ChainInv, TypesOK
  <2>9. /\ genesis' = [n \in Members |-> genesis'[n]]
        /\ \A n \in Members : n # x => genesis'[n] = genesis[n]
        /\ pc \notin {"files", "addFiles"} => UNCHANGED genesis
        /\ pc = "files" => at[x] \in {0, 1}
        /\ pc = "files" /\ at[x] = 1 /\ x = 1 => Collects(1)'
        /\ pc = "files" /\ x # 1 => UNCHANGED gentxs
        /\ pc = "addFiles" /\ at[x] = 1 => genesis'[x] = genbz
        /\ pc = "addFiles" /\ at[x] >= 2 => UNCHANGED genesis
    <3>1. /\ genesis' = [n \in Members |-> genesis'[n]]
          /\ \A n \in Members : n # x => genesis'[n] = genesis[n]
          /\ pc \notin {"files", "addFiles"} => UNCHANGED genesis
          /\ pc = "addFiles" /\ at[x] = 1 => genesis'[x] = genbz
      BY StepIs, <2>4 DEF ChainInv, TypesOK
    <3>2. pc = "addFiles" /\ at[x] \notin {0, 1} => UNCHANGED genesis
      BY StepIs DEF ChainInv
    <3>3. /\ pc = "files" => at[x] \in {0, 1}
          /\ pc = "files" /\ x # 1 => UNCHANGED gentxs
      BY StepIs DEF ChainInv
    <3>4. ASSUME pc = "files", at[x] = 1, x = 1 PROVE Collects(1)'
      <4>1. genesis' = [genesis EXCEPT ![1] = @ \cup {<<"account", 1>>}] /\ gentxs' = gentxs \cup {1}
        BY StepIs, <3>4 DEF ChainInv
      <4> QED  BY <4>1, MembersAre DEF ChainInv, TypesOK, Collects
    <3>5. at[x] >= 2 => at[x] \notin {0, 1}  BY <2>1
    <3> QED  BY <3>1, <3>2, <3>3, <3>4, <3>5
  <2>10. TypesOK'
    BY <2>1, <2>2, <2>5, <2>6, <2>7, <2>8, <2>9 DEF ChainInv, TypesOK
  <2>11. GroupOK'
    BY DEF ChainInv, GroupOK, Step, TypesOK
  <2>12. LocksOK'
    BY DEF ChainInv, LocksOK, Step, TypesOK
  <2>13. ImagesOK'
    <3>1. \A n \in nodes : image'[n] = image[n]
      BY <2>4, <2>7 DEF ChainInv, TypesOK
    <3>2. ASSUME pc \in NewStages, NEW y \in group, at'[y] # 0 PROVE image'[y] = cfgImage
      <4>1. y \in Members /\ y \in Items  BY <3>2 DEF ChainInv, GroupOK, Items
      <4> QED  BY <2>2, <2>7, <3>2, <4>1 DEF ChainInv, ImagesOK
    <3>3. ASSUME pc = "restart", NEW y \in group
          PROVE  /\ at'[y] # 0 => runs'[y] = image'[y]
                 /\ at'[y] >= 2 => ctr'[y] = "running"
      <4>1. y \in Members /\ y \in Items  BY <3>3 DEF ChainInv, GroupOK, TypesOK, Items
      <4>2. CASE y = x
        <5>1. at[x] # 0 => runs[x] = image[x]  BY <2>1, <3>3 DEF ChainInv, ImagesOK
        <5>2. at[x] = 0 \/ at[x] = 1
          BY <3>3, StepIs DEF ChainInv
        <5>3. at'[x] >= 2 => at[x] = 1  BY <2>2, <5>2
        <5> QED  BY <2>5, <2>6, <2>7, <3>3, <4>2, <5>1, <5>3
      <4>3. CASE y # x  BY <2>2, <2>5, <2>6, <2>7, <3>3, <4>1, <4>3 DEF ChainInv, ImagesOK
      <4> QED  BY <4>2, <4>3
    <3> QED  BY <2>1, <3>1, <3>2, <3>3 DEF ChainInv, ImagesOK
  <2>14. SidecarsOK'
    <3>1. CASE pc = "preStart"
      <4>1. ASSUME NEW s \in sidecars \cap PreStart
            PROVE  /\ s \notin group => ctr'[s] = "running"
                   /\ s \in group /\ at'[s] >= 2 => ctr'[s] = "running"
        <5>1. s \in Items  BY DEF ChainInv, TypesOK, Items
        <5>2. CASE s = x
          <6>1. at[x] = 0 \/ at[x] = 1  BY <3>1, StepIs DEF ChainInv
          <6>2. at'[x] >= 2 => at[x] = 1  BY <2>2, <6>1
          <6> QED  BY <2>1, <2>5, <3>1, <5>2, <6>2
        <5>3. CASE s # x  BY <2>2, <2>5, <3>1, <5>1, <5>3 DEF ChainInv, SidecarsOK
        <5> QED  BY <5>2, <5>3
      <4> QED  BY <2>1, <2>8, <3>1, <4>1 DEF SidecarsOK
    <3>2. CASE pc \in {"create", "start"}
      <4>1. \A s \in sidecars : s # x /\ s \in Items
        BY <2>4, <3>2, MembersAre DEF ChainInv, TypesOK, Items
      <4> QED  BY <2>1, <2>5, <2>8, <3>2, <4>1 DEF ChainInv, SidecarsOK
    <3>3. CASE pc \notin {"preStart", "create", "start"}
      BY <2>1, <2>3, <3>3 DEF SidecarsOK
    <3> QED  BY <3>1, <3>2, <3>3
  <2>15. ContainersOK'
    <3>1. Members \subseteq Items  BY DEF Items
    <3>2. pc \in BeforeCreate => \A n \in Members : ctr'[n] = ctr[n]
      BY <2>3, <2>4, <2>5, <3>1
    <3>3. pc = "create" => \A n \in Members : ctr'[n] # "running"
      BY <2>5, <3>1 DEF ChainInv, ContainersOK
    <3>4. \A n \in Members \ nodes : ctr'[n] = ctr[n]
      BY <2>3, <2>4, <2>5, <3>1
    <3>5. ASSUME pc = "addFiles", NEW n \in group, at'[n] < 3 PROVE ctr'[n] = "none"
      <4>1. n \in Items  BY <3>5 DEF ChainInv, GroupOK, TypesOK, Items
      <4>2. CASE n = x
        <5>1. at[x] < 2 /\ at[x] < 3  BY <2>1, <2>2, <3>5, <4>2
        <5> QED  BY <2>1, <2>5, <3>5, <4>2, <5>1 DEF ChainInv, ContainersOK
      <4>3. CASE n # x  BY <2>2, <2>5, <3>5, <4>1, <4>3 DEF ChainInv, ContainersOK
      <4> QED  BY <4>2, <4>3
    <3> QED  BY <2>1, <3>2, <3>3, <3>4, <3>5 DEF ChainInv, ContainersOK
  <2>16. GenesisOK'
    <3>1. CASE pc = "files"
      <4>1. ASSUME ~skip, at'[1] >= 2 PROVE Collects(1)'
        <5>1. 1 \in Items /\ 1 \in Members  BY MembersAre DEF Items
        <5>2. CASE x = 1
          <6>1. at[x] = 1  BY <2>2, <2>9, <3>1, <4>1, <5>2
          <6> QED  BY <2>9, <3>1, <5>2, <6>1
        <5>3. CASE x # 1
          <6>1. Collects(1)  BY <2>2, <3>1, <4>1, <5>1, <5>3 DEF ChainInv, GenesisOK
          <6> QED  BY <2>9, <3>1, <5>1, <5>3, <6>1 DEF Collects
        <5> QED  BY <5>2, <5>3
      <4> QED  BY <2>1, <3>1, <4>1 DEF ChainInv, GenesisOK
    <3>2. CASE pc = "addFiles"
      <4>1. Complete(genesis[1]) /\ genbz = genesis[1]  BY <3>2 DEF ChainInv, GenesisOK
      <4>2. genesis'[1] = genesis[1]  BY <2>4, <2>9, <3>2, MembersAre
      <4>3. Complete(genesis[1])'  BY <2>1, <4>1, <4>2 DEF Complete
      <4>4. ASSUME NEW n \in nodes, ~(n \in group /\ at'[n] < 2) PROVE genesis'[n] = genesis'[1]
        <5>1. n \in Members /\ n \in Items  BY DEF ChainInv, TypesOK, Items
        <5>2. CASE n = x
          <6>1. at[x] = 1 \/ at[x] >= 2  BY <2>1, <2>2, <4>4, <5>2
          <6>2. at[x] >= 2 => ~(at[x] < 2)  BY <2>1
          <6>3. CASE at[x] = 1  BY <2>9, <3>2, <4>1, <4>2, <5>2, <6>3
          <6>4. CASE at[x] >= 2
            BY <2>9, <3>2, <4>2, <5>2, <6>2, <6>4 DEF ChainInv, GenesisOK
          <6> QED  BY <6>1, <6>3, <6>4
        <5>3. CASE n # x
          BY <2>2, <2>9, <3>2, <4>2, <4>4, <5>1, <5>3 DEF ChainInv, GenesisOK
        <5> QED  BY <5>2, <5>3
      <4> QED  BY <2>1, <3>2, <4>1, <4>2, <4>3, <4>4 DEF GenesisOK
    <3>3. CASE pc \in {"sidecars", "nodes"}
      BY <2>1, <3>3 DEF ChainInv, GenesisOK
    <3>4. CASE pc \in Shared \ {"addFiles"}
      <4>1. genbz' = genbz /\ (pc \in Starting \cup {"addNodes"} => genbz = genesis[1])
        BY <2>1, <3>4 DEF ChainInv, GenesisOK
      <4>2. UNCHANGED <<skip, nodes, genesis>> /\ pc' = pc  BY <2>1, <2>9, <3>4
      <4> QED  BY <3>4, <4>1, <4>2, SharedKeeps
    <3> QED  BY <2>3, <3>1, <3>2, <3>3, <3>4 DEF ChainInv, TypesOK
  <2> QED  BY <2>10, <2>11, <2>12, <2>13, <2>14, <2>15, <2>16 DEF ChainInv
<1>2. CASE \E x \in Items : StepFails(x)
  <2> PICK x \in Items : StepFails(x)  BY <1>2
  <2>1. TypesOK'
    BY DEF ChainInv, TypesOK, StepFails
  <2>2. GroupOK'
    BY DEF ChainInv, GroupOK, StepFails, TypesOK
  <2>3. LocksOK'
    BY DEF ChainInv, LocksOK, StepFails, TypesOK
  <2>4. ImagesOK'
    BY DEF ChainInv, ImagesOK, StepFails, TypesOK, GroupOK
  <2>5. SidecarsOK'
    BY DEF ChainInv, SidecarsOK, StepFails, TypesOK, GroupOK
  <2>6. ContainersOK'
    BY DEF ChainInv, ContainersOK, StepFails, TypesOK, GroupOK
  <2>7. GenesisOK'
    BY DEF ChainInv, GenesisOK, StepFails, TypesOK, GroupOK, Complete, Collects, OneGenesis
  <2> QED  BY <2>1, <2>2, <2>3, <2>4, <2>5, <2>6, <2>7 DEF ChainInv
<1> QED  BY <1>1, <1>2

LEMMA InitChain == Init => ChainInv
<1> SUFFICES ASSUME Init PROVE ChainInv  OBVIOUS
<1>1. TypesOK  BY NodesAssumption DEF Init, TypesOK, Images
<1>2. GroupOK  BY DEF Init, GroupOK
<1>3. LocksOK  BY NoneAssumption DEF Init, LocksOK
<1>4. ImagesOK  BY DEF Init, ImagesOK
<1>5. SidecarsOK  BY DEF Init, SidecarsOK
<1>6. ContainersOK  BY DEF Init, ContainersOK, Items
<1>7. GenesisOK  BY DEF Init, GenesisOK
<1> QED  BY <1>1, <1>2, <1>3, <1>4, <1>5, <1>6, <1>7 DEF ChainInv

LEMMA ChainStep == ChainInv /\ [Next]_vars => ChainInv'
<1> SUFFICES ASSUME ChainInv, [Next]_vars PROVE ChainInv'  OBVIOUS
<1>1. CASE Main
  BY <1>1, InitializeSteps, GenesisSteps, StartSteps, OperationSteps DEF Main
<1>2. CASE Ops  BY <1>2, OperationSteps DEF Ops
<1>3. CASE \E x \in Items : Goroutine(x)  BY <1>3, GoroutineSteps DEF Goroutine
<1>4. CASE FindTxs  BY <1>4, OperationSteps
<1>5. CASE UNCHANGED vars
  <2> USE <1>5 DEF vars, config, files, containers, sides, txs
  <2>1. TypesOK'  BY DEF ChainInv, TypesOK
  <2>2. GroupOK'  BY DEF ChainInv, GroupOK
  <2>3. LocksOK'  BY DEF ChainInv, LocksOK
  <2>4. ImagesOK'  BY DEF ChainInv, ImagesOK
  <2>5. SidecarsOK'  BY DEF ChainInv, SidecarsOK
  <2>6. ContainersOK'  BY DEF ChainInv, ContainersOK
  <2>7. GenesisOK'  BY DEF ChainInv, GenesisOK, Complete, Collects, OneGenesis
  <2> QED  BY <2>1, <2>2, <2>3, <2>4, <2>5, <2>6, <2>7 DEF ChainInv
<1> QED  BY <1>1, <1>2, <1>3, <1>4, <1>5 DEF Next, Idle

LEMMA ChainInvHolds == Spec => []ChainInv
BY InitChain, ChainStep, PTL DEF Spec

\* Every node that runs, whenever it was added, has the genesis file of the first
\* validator, and that file is complete: Start and AddFullNodes write it before the
\* container exists (cosmos_chain.go, Start and AddFullNodes).
THEOREM OneGenesisForAll == Spec => []OneGenesis
BY ChainInvHolds, RunningHas, PTL

\* While the containers of the nodes are created and started, every pre-start sidecar
\* of the chain runs and every node has its genesis file (Start).
THEOREM SidecarsFirst == Spec => []NodesAfterSidecars
<1>1. ChainInv => NodesAfterSidecars
  BY DEF ChainInv, SidecarsOK, GenesisOK, NodesAfterSidecars
<1> QED  BY <1>1, ChainInvHolds, PTL

\* StartAllNodes and FindTxs exclude each other, and a restart leaves every node
\* running the version of the last UpgradeVersion (findTxMu, StartAllNodes).
THEOREM RestartsAlone == Spec => []RestartExclusive
<1>1. ChainInv => RestartExclusive
  <2> SUFFICES ASSUME ChainInv PROVE RestartExclusive  OBVIOUS
  <2>1. pc \in {"restart", "restartSides"} => tracker # "query"
    BY NoneAssumption DEF ChainInv, LocksOK
  <2>2. ASSUME pc = "restart", GroupEnds, bad = {}, NEW n \in nodes
        PROVE  ctr[n] = "running" /\ runs[n].version = cfgImage.version
    <3>1. n \in group /\ group \subseteq Items
      BY <2>2 DEF ChainInv, GroupOK, TypesOK, Items
    <3>2. at[n] >= 2 /\ at[n] # 0  BY <2>2, <3>1, EndsGive DEF ChainInv, TypesOK
    <3>3. ctr[n] = "running" /\ runs[n] = image[n]
      BY <2>2, <3>1, <3>2 DEF ChainInv, ImagesOK
    <3> QED  BY <3>3 DEF ChainInv, ImagesOK
  <2> QED  BY <2>1, <2>2 DEF RestartExclusive
<1> QED  BY <1>1, ChainInvHolds, PTL

==============================================================================
