----------------------------- MODULE ChainStart -----------------------------
(***************************************************************************)
(* Start of the chains that are brought up from nothing by phases of        *)
(* goroutines: chain/penumbra, chain/namada, chain/polkadot and             *)
(* chain/thorchain, which may be given the genesis of a live network whose   *)
(* validators it takes the place of ("thorchainFork").                       *)
(*                                                                         *)
(* Start is a script for the goroutine of the caller.  Its steps are calls  *)
(* (docker, commands, files), "go", which gives a goroutine of an errgroup  *)
(* a script of its own, and "wait", the group's Wait.  Any call may fail:   *)
(* the rest of its script is dropped; the error of a goroutine is what Wait *)
(* returns.  A goroutine is named after the container it is about.          *)
(*                                                                         *)
(* Abstractions: a genesis file or chain spec is the record of whom it has  *)
(* as authority and at which index, whom it funds, and which parachains it  *)
(* registers; a key is known by its origin.  Of the lines namada's balances  *)
(* have for a wallet only that of its own address counts, not that of the   *)
(* key it may stand for; SkipGenTx is unset.  An errgroup's context only     *)
(* makes calls fail, which they may do anyway.  Retries of a status query   *)
(* that end are one call.  Initialize has made the nodes.                   *)
(***************************************************************************)
EXTENDS Naturals, Sequences, FiniteSets, SequencesExt

CONSTANTS
  Families,       \* of "penumbra", "namada", "polkadot", "thorchain", "thorchainFork"
  NumValidators, NumFullNodes,   \* nodes of every chain but polkadot's
  NumSidecars,    \* a thorchain's sidecars with preStart
  NumRelay,       \* numRelayChainNodes
  Parachains,     \* NumNodes of each parachain
  Wallets,        \* additionalGenesisWallets, in order
  GasPayer,       \* namada's gas payer
  Bond,           \* thorchain's bond module
  None, Torn      \* no file or nobody; a file in the middle of being written

Validators == 1..NumValidators
Nodes == 1..(NumValidators + NumFullNodes)
Paras == DOMAIN Parachains
Main == <<"main", 0>>

ASSUME StartAssumption ==
  /\ Families \subseteq {"penumbra", "namada", "polkadot", "thorchain", "thorchainFork"}
  /\ {NumValidators, NumRelay} \subseteq Nat \ {0} /\ {NumFullNodes, NumSidecars} \subseteq Nat
  /\ Parachains \in Seq(Nat \ {0}) /\ Wallets \in Seq(Range(Wallets))
  /\ Torn # None

ContainersOf(f) ==
  CASE f = "penumbra" -> ({"tm", "app"} \X Nodes) \cup ({"client"} \X Validators)
    [] f = "namada" -> ({"val"} \X Validators) \cup ({"full"} \X (1..NumFullNodes))
    [] f = "polkadot" ->
         ({"relay"} \X (1..NumRelay))
           \cup UNION {{<<"para", p, i>> : i \in 1..Parachains[p]} : p \in Paras}
    [] f \in {"thorchain", "thorchainFork"} -> ({"thor"} \X Nodes) \cup ({"side"} \X (1..NumSidecars))

Containers == UNION {ContainersOf(f) : f \in Families}
Procs == Containers \cup {Main}

ASSUME NobodyAssumption == None \notin Procs

VARIABLES
  family,
  pc,          \* what each goroutine has left of its script
  failed,      \* a goroutine of the errgroup has returned an error
  result,      \* of Start: "pending", "nil", "err"
  mutex,       \* c.mutex of a penumbra chain, mu of a thorchain's Start
  defs,        \* validatorDefinitions, transactions.toml, authorities, node accounts: pairs of index
               \* and validator; of a forked genesis, pairs of index and field with our own value
  allocations, \* allocations, balances.toml, balances: whom the genesis is to fund
  paras,       \* parachains whose state was exported
  seen,        \* a goroutine's view of allocations or defs when it changes them
  buf,         \* the file content a goroutine has read
  genesis,     \* the genesis file or chain spec, where it was generated
  file,        \* ... in the volume of each node
  spec,        \* the parachain's spec in the volume of each of its nodes
  key,         \* the validator key or wallet in the volume of each node
  container,   \* "none", "created", "running"; "exited": started, and its process has given up
  writers,     \* nodes for whose volume a one-off container of FileWriter exists
  clients,     \* validators with a PenumbraClientNode
  isRunning    \* of a namada chain

genesisVars == <<defs, allocations, paras, genesis>>
volumeVars == <<file, spec, key>>
chainVars == <<container, writers, clients, isRunning>>
localVars == <<mutex, seen, buf>>
vars == <<family, pc, failed, result, localVars, genesisVars, volumeVars, chainVars>>

----------------------------------------------------------------------------
(* Scripts: sequences of steps <<name>> or <<name, argument, ...>>. *)

Do(names) == [i \in DOMAIN names |-> <<names[i]>>]
Each(s, F(_)) == FlattenSeq([i \in DOMAIN s |-> F(s[i])])
UpTo(n) == [i \in 1..n |-> i]
Go(u, script) == <<<<"go", u, script>>>>
Wait == <<<<"wait">>>>

\* One validator: its tendermint files and key, its pcli key and template, its
\* definition at its own index, its allocations under c.mutex.
PenumbraValidator(v) ==
  Do(<<"initFiles", "readKey", "createKey", "template">>)
    \o <<<<"define", v>>, <<"lock">>, <<"append", v>>>>

SetConfigAndPeers == Do(<<"config">>)
TendermintStartContainer == Do(<<"start", "ready">>)
AppStartContainer == Do(<<"start", "ports">>)
ClientStartContainer == Do(<<"start", "ports">>)
CreateClientNode == Do(<<"address", "register", "initialize", "create">>) \o ClientStartContainer

AllNodes == UpTo(NumValidators + NumFullNodes)

\* start: all nodes have the same image, so GetConfigSeparator fails at the first or never.
PenumbraStartNodes ==
  Do(<<"readGenesis">>)
    \o Each(AllNodes, LAMBDA n : <<<<"writeGenesis", <<"tm", n>>>>>>)
    \o Do(<<"hashes", "separator">>)
    \o Each(AllNodes, LAMBDA n :
              Go(<<"tm", n>>, Do(<<"create">>)) \o Go(<<"app", n>>, Do(<<"create">>)))
    \o Wait
    \o Each(AllNodes, LAMBDA n :
              Go(<<"tm", n>>, SetConfigAndPeers \o TendermintStartContainer)
                \o Go(<<"app", n>>, AppStartContainer))
    \o Wait \o Do(<<"waitForBlocks">>)
    \o Each(UpTo(NumValidators), LAMBDA v :
              Go(<<"client", v>>, Do(<<"readConfig">>) \o CreateClientNode))
    \o Wait

PenumbraStart ==
  Each(UpTo(NumValidators), LAMBDA v : Go(<<"tm", v>>, PenumbraValidator(v)))
    \o Each(Wallets, LAMBDA w : <<<<"lock">>, <<"append", w>>>>)
    \o Each(UpTo(NumFullNodes), LAMBDA i :
              Go(<<"tm", NumValidators + i>>, Do(<<"initFiles">>)))
    \o Wait \o Do(<<"generateGenesisFile">>)
    \o Each(UpTo(NumValidators), LAMBDA v : Go(<<"tm", v>>, Do(<<"readKeyOfNode", "writeKey">>)))
    \o Wait \o PenumbraStartNodes

DownloadTemplates == Do(<<"templates">>)
DownloadWasms == Do(<<"wasms">>)
SetValidators == Do(<<"transactions">>) \o Each(UpTo(NumValidators), LAMBDA v : <<<<"define", v>>>>)
InitAccounts ==
  Do(<<"balances">>)
    \o Each(UpTo(NumValidators) \o <<GasPayer>> \o Wallets, LAMBDA w : <<<<"fund", w>>>>)
    \o Do(<<"accounts">>)
UpdateParameters == Do(<<"parameters">>)

\* The archive is written in two steps: docker removes the old file and then
\* writes the new one, and a goroutine may read it in between.
CopyGenesisFiles == Do(<<"readArchive", "openArchive", "writeArchive", "wallet">>)
CopyValidatorWallet == Do(<<"readValidatorWallet", "writeKey">>)
NamadaStartContainer == Do(<<"start", "masp", "ready">>)

NamadaStart ==
  DownloadTemplates \o DownloadWasms \o SetValidators \o InitAccounts \o UpdateParameters
    \o Do(<<"initNetwork">>)
    \o Each(UpTo(NumValidators), LAMBDA v :
              Go(<<"val", v>>, CopyGenesisFiles \o CopyValidatorWallet \o Do(<<"create">>)))
    \o Each(UpTo(NumFullNodes), LAMBDA i : Go(<<"full", i>>, CopyGenesisFiles \o Do(<<"create">>)))
    \o Wait
    \o Each(UpTo(NumValidators), LAMBDA v : Go(<<"val", v>>, NamadaStartContainer))
    \o Each(UpTo(NumFullNodes), LAMBDA i : Go(<<"full", i>>, NamadaStartContainer))
    \o Wait \o Do(<<"waitForBlocks", "setRunning">>)

RelayStartContainer == Do(<<"start", "ready">>)
CollatorStartContainer == Do(<<"start", "ready">>)
GenerateParachainGenesisFile == Do(<<"parachainGenesis">>)
ParachainNodes(p) == [i \in 1..Parachains[p] |-> <<"para", p, i>>]

CopySpecs ==
  Each(UpTo(Len(Parachains)), LAMBDA p :
    GenerateParachainGenesisFile
      \o Each(ParachainNodes(p), LAMBDA u : Go(u, <<<<"copySpec", p>>>>)))

ModifyRelayChainGenesis ==
  Each(UpTo(NumRelay), LAMBDA i : <<<<"define", i>>, <<"fund", i>>>>)
    \o Each(Wallets, LAMBDA w : <<<<"fund", w>>>>)
    \o Each(UpTo(Len(Parachains)), LAMBDA p : <<<<"export", p>>>>)

RelayChainNodes ==
  Each(UpTo(NumRelay), LAMBDA i :
    Go(<<"relay", i>>, (IF i = 1 THEN <<>> ELSE Do(<<"copyRawSpec">>)) \o Do(<<"create">>) \o RelayStartContainer))

CollatorNodes ==
  Each(UpTo(Len(Parachains)), LAMBDA p :
    Each(ParachainNodes(p), LAMBDA u : Go(u, Do(<<"copyRawSpec", "create">>) \o CollatorStartContainer)))

\* Mutant: the parachains' nodes are started together with the relay chain's.
PolkadotStartTogether ==
  CopySpecs \o Wait \o Do(<<"chainSpec">>) \o ModifyRelayChainGenesis
    \o Do(<<"editSpec", "generateRaw", "readGenesis">>)
    \o RelayChainNodes \o CollatorNodes \o Wait

PolkadotStart ==
  CopySpecs \o Wait \o Do(<<"chainSpec">>) \o ModifyRelayChainGenesis
    \o Do(<<"editSpec", "generateRaw", "readGenesis">>)
    \o RelayChainNodes \o Wait \o CollatorNodes \o Wait

\* What genBzReplace puts in the place of a live validator's own.
NodeAccountFields == <<"ValidatorConsPubKey", "NodeAddress", "BondAddress", "Secp256k1", "Ed25519">>

InitFullNodeFiles == Do(<<"initFiles", "config">>)
GetNodeAccount == Do(<<"nodeAccount">>)

\* Accounts go to a node's own genesis file; the first validator's is the one that
\* is used later, the others are overwritten.
AddGenesisAccount(node, w) == IF node = 1 THEN <<<<"fund", w>>>> ELSE Do(<<"ownGenesis">>)
AddNodeAccount(node, v) == IF node = 1 THEN <<<<"define", v>>>> ELSE Do(<<"ownGenesis">>)
InitValidatorGenTx(v) == Do(<<"address">>) \o AddGenesisAccount(v, v)
AddBondModule == AddGenesisAccount(1, Bond)

ThorValidator(f, v) ==
  InitFullNodeFiles \o Do(<<"config", "createKey">>)
    \o (IF f = "thorchain" THEN InitValidatorGenTx(v) ELSE <<>>) \o GetNodeAccount
    \o (IF f = "thorchain" THEN AddNodeAccount(v, v) ELSE Do(<<"ownGenesis">>))

\* initializeChainNodes: Initialize made a fork's first validator.
ThorNewNodes(f) ==
  IF f = "thorchain" THEN <<>>
  ELSE Each(Tail(UpTo(NumValidators)), LAMBDA v : Go(<<"thor", v>>, Do(<<"newNode">>))) \o Wait

PrepNodes(f) ==
  Each(UpTo(NumValidators), LAMBDA v : Go(<<"thor", v>>, ThorValidator(f, v)))
    \o Each(UpTo(NumFullNodes), LAMBDA i :
              Go(<<"thor", NumValidators + i>>, InitFullNodeFiles \o Do(<<"config">>)))
    \o Wait

CollectGenesis ==
  Each(Tail(UpTo(NumValidators)), LAMBDA v :
         Do(<<"address">>) \o AddGenesisAccount(1, v) \o AddNodeAccount(1, v))
    \o Each(Wallets, LAMBDA w : AddGenesisAccount(1, w)) \o AddBondModule \o Do(<<"readFile">>)

GenBzReplace ==
  Each(UpTo(NumValidators), LAMBDA v :
    Go(<<"thor", v>>, Each(NodeAccountFields, LAMBDA x : <<<<"lockGenesis">>, <<"replace", x>>>>)))
    \o Wait

\* The node's own pre-start sidecars, then its container.
ThorStartContainer == Do(<<"sidecars", "start", "ports", "ready">>)

ThorchainStart(f) ==
  ThorNewNodes(f) \o PrepNodes(f) \o Do(<<"preGenesis">>)
    \o (IF f = "thorchain" THEN CollectGenesis ELSE GenBzReplace)
    \o Do(<<"modifyGenesis">>)
    \o Each(AllNodes, LAMBDA n : <<<<"writeGenesis", <<"thor", n>>>>>>)
    \o Do(<<"hashes">>)
    \o Each(UpTo(NumSidecars), LAMBDA i : Go(<<"side", i>>, Do(<<"create", "start">>))) \o Wait
    \o Each(AllNodes, LAMBDA n : Go(<<"thor", n>>, Do(<<"create">>))) \o Wait
    \o Each(AllNodes, LAMBDA n : Go(<<"thor", n>>, Do(<<"config">>) \o ThorStartContainer)) \o Wait
    \o Do(<<"waitForBlocks">>)

Start(f) ==
  CASE f = "penumbra" -> PenumbraStart
    [] f = "namada" -> NamadaStart
    [] f = "polkadot" -> PolkadotStart
    [] f \in {"thorchain", "thorchainFork"} -> ThorchainStart(f)

----------------------------------------------------------------------------
Init ==
  /\ family \in Families
  /\ pc = [t \in Procs |-> IF t = Main THEN Start(family) ELSE <<>>]
  /\ failed = FALSE /\ result = "pending" /\ mutex = None
  /\ defs = {} /\ allocations = {} /\ paras = {} /\ genesis = None
  /\ seen = [t \in Procs |-> {}] /\ buf = [t \in Procs |-> None]
  /\ file = [u \in Containers |-> None]
  /\ spec = [u \in Containers |-> 0]
  /\ key = [u \in Containers |-> None]
  /\ container = [u \in Containers |-> "none"] /\ writers = {}
  /\ clients = {} /\ isRunning = FALSE

----------------------------------------------------------------------------
Busy(t) == pc[t] # <<>>
Name(t) == pc[t][1][1]
At(t, names) == Busy(t) /\ Name(t) \in names
Arg(t) == pc[t][1][2]
Advance(t) == pc' = [pc EXCEPT ![t] = Tail(@)] /\ UNCHANGED <<family, failed, result>>

\* A validator key or wallet: who made it, for which validator.
Key(origin, v) == [origin |-> origin, validator |-> v]

\* getNode: commands of a namada chain run on its first validator.
FirstValidator == <<"val", 1>>

\* Calls whose effects nothing here looks at: they only fail or not.  The one-off
\* containers of commands and file writers come and go within them.  Only a node
\* that runs ever says that it is ready.
Calls == {"readKey", "createKey", "template", "hashes", "separator", "config", "ready", "ports",
          "waitForBlocks", "readConfig", "address", "initialize", "templates", "wasms",
          "transactions", "balances", "accounts", "parameters", "wallet", "masp",
          "parachainGenesis", "chainSpec", "editSpec",
          "ownGenesis", "nodeAccount", "newNode", "preGenesis", "readFile", "sidecars"}

Call(t) ==
  /\ At(t, Calls)
  /\ Name(t) = "ready" => container[t] = "running"
  /\ Advance(t)
  /\ UNCHANGED <<localVars, genesisVars, volumeVars, chainVars>>

\* InitValidatorFiles, InitFullNodeFiles: tendermint makes the node a key.
InitFiles(t) ==
  /\ At(t, {"initFiles"})
  /\ key' = [key EXCEPT ![t] = Key("tendermint", t[2])]
  /\ Advance(t)
  /\ UNCHANGED <<localVars, genesisVars, file, spec, chainVars>>

\* A validator is entered at its own index.
Define(t) ==
  /\ At(t, {"define"})
  /\ defs' = defs \cup {<<Arg(t), Arg(t)>>}
  /\ Advance(t)
  /\ UNCHANGED <<localVars, allocations, paras, genesis, volumeVars, chainVars>>

\* Mutant: allocations are appended without c.mutex.
LockUnguarded(t) ==
  /\ At(t, {"lock"})
  /\ mutex' = t
  /\ seen' = [seen EXCEPT ![t] = allocations]
  /\ Advance(t)
  /\ UNCHANGED <<buf, genesisVars, volumeVars, chainVars>>

\* c.mutex.Lock, and append's reading of the slice.
Lock(t) ==
  /\ At(t, {"lock"})
  /\ mutex = None
  /\ mutex' = t
  /\ seen' = [seen EXCEPT ![t] = allocations]
  /\ Advance(t)
  /\ UNCHANGED <<buf, genesisVars, volumeVars, chainVars>>

\* append(allocations, ...) and the deferred Unlock.
AppendAllocation(t) ==
  /\ At(t, {"append"})
  /\ allocations' = seen[t] \cup {Arg(t)}
  /\ seen' = [seen EXCEPT ![t] = {}]
  /\ mutex' = None
  /\ Advance(t)
  /\ UNCHANGED <<buf, defs, paras, genesis, volumeVars, chainVars>>

\* genBzReplace: the mutex, and what ReplaceAll reads.
LockGenesis(t) ==
  /\ At(t, {"lockGenesis"})
  /\ mutex = None
  /\ mutex' = t
  /\ seen' = [seen EXCEPT ![t] = defs]
  /\ Advance(t)
  /\ UNCHANGED <<buf, genesisVars, volumeVars, chainVars>>

\* ... the new contents, and the deferred Unlock.
Replace(t) ==
  /\ At(t, {"replace"})
  /\ defs' = seen[t] \cup {<<t[2], Arg(t)>>}
  /\ seen' = [seen EXCEPT ![t] = {}]
  /\ mutex' = None
  /\ Advance(t)
  /\ UNCHANGED <<buf, allocations, paras, genesis, volumeVars, chainVars>>

\* A line of balances.toml, an entry of the spec's balances, an account of the first
\* validator's genesis: one goroutine at a time is at it.
Fund(t) ==
  /\ At(t, {"fund"})
  /\ allocations' = allocations \cup {Arg(t)}
  /\ Advance(t)
  /\ UNCHANGED <<localVars, defs, paras, genesis, volumeVars, chainVars>>

\* export-genesis-state and -wasm read the spec in the first collator's volume.
Export(t) ==
  /\ At(t, {"export"})
  /\ spec[<<"para", Arg(t), 1>>] = Arg(t)
  /\ paras' = paras \cup {Arg(t)}
  /\ Advance(t)
  /\ UNCHANGED <<localVars, defs, allocations, genesis, volumeVars, chainVars>>

Generated == [defs |-> defs, allocations |-> allocations, paras |-> paras]

\* pd testnet generate, in the volume of the first validator's application node.
GenerateGenesisFile(t) ==
  /\ At(t, {"generateGenesisFile"})
  /\ genesis' = Generated
  /\ Advance(t)
  /\ UNCHANGED <<localVars, defs, allocations, paras, volumeVars, chainVars>>

\* The archive is in the volume of the first validator, under the chain ID's name.
InitNetwork(t) ==
  /\ At(t, {"initNetwork"})
  /\ genesis' = Generated /\ file' = [file EXCEPT ![FirstValidator] = Generated]
  /\ Advance(t)
  /\ UNCHANGED <<localVars, defs, allocations, paras, spec, key, chainVars>>

\* build-spec --raw, on the first node of the relay chain.
GenerateChainSpecRaw(t) ==
  /\ At(t, {"generateRaw"})
  /\ genesis' = Generated /\ file' = [file EXCEPT ![<<"relay", 1>>] = Generated]
  /\ Advance(t)
  /\ UNCHANGED <<localVars, defs, allocations, paras, spec, key, chainVars>>

ReadGenesis(t) ==
  /\ At(t, {"readGenesis"})
  /\ buf' = [buf EXCEPT ![t] = genesis]
  /\ Advance(t)
  /\ UNCHANGED <<mutex, seen, genesisVars, volumeVars, chainVars>>

\* The contents a thorchain's Start has collected, after ModifyGenesis.
ModifyGenesis(t) ==
  /\ At(t, {"modifyGenesis"})
  /\ buf' = [buf EXCEPT ![t] = Generated]
  /\ Advance(t)
  /\ UNCHANGED <<mutex, seen, genesisVars, volumeVars, chainVars>>

\* OverwriteGenesisFile.
WriteGenesis(t) ==
  /\ At(t, {"writeGenesis"})
  /\ file' = [file EXCEPT ![Arg(t)] = buf[t]]
  /\ Advance(t)
  /\ UNCHANGED <<localVars, genesisVars, spec, key, chainVars>>

\* The raw spec Start has read goes to every other node.
CopyRawSpec(t) ==
  /\ At(t, {"copyRawSpec"})
  /\ file' = [file EXCEPT ![t] = buf[Main]]
  /\ Advance(t)
  /\ UNCHANGED <<localVars, genesisVars, spec, key, chainVars>>

\* FileWriter.WriteFile makes a container on the volume ...
CreateWriter(t) ==
  /\ At(t, {"copySpec"})
  /\ t \notin writers
  /\ writers' = writers \cup {t}
  /\ UNCHANGED <<family, pc, failed, result, localVars, genesisVars, volumeVars, container, clients, isRunning>>

\* ... through which the file goes in, and which docker removes when its command ends.
CopySpec(t) ==
  /\ At(t, {"copySpec"})
  /\ t \in writers
  /\ spec' = [spec EXCEPT ![t] = Arg(t)]
  /\ writers' = writers \ {t}
  /\ Advance(t)
  /\ UNCHANGED <<localVars, genesisVars, file, key, container, clients, isRunning>>

\* The key pd made for the definition at this validator's index, and the wallet
\* namada's pre-genesis has for its alias.
ReadValidatorKey(t) ==
  /\ At(t, {"readKeyOfNode", "readValidatorWallet"})
  /\ \E d \in genesis.defs : d[1] = t[2] /\ buf' = [buf EXCEPT ![t] = Key("genesis", d[2])]
  /\ Advance(t)
  /\ UNCHANGED <<mutex, seen, genesisVars, volumeVars, chainVars>>

WriteKey(t) ==
  /\ At(t, {"writeKey"})
  /\ key' = [key EXCEPT ![t] = buf[t]]
  /\ Advance(t)
  /\ UNCHANGED <<localVars, genesisVars, file, spec, chainVars>>

\* Reading what the first validator's goroutine is just writing may succeed.
ReadArchive(t) ==
  /\ At(t, {"readArchive"})
  /\ buf' = [buf EXCEPT ![t] = file[FirstValidator]]
  /\ Advance(t)
  /\ UNCHANGED <<mutex, seen, genesisVars, volumeVars, chainVars>>

OpenArchive(t) ==
  /\ At(t, {"openArchive"})
  /\ file' = [file EXCEPT ![t] = Torn]
  /\ Advance(t)
  /\ UNCHANGED <<localVars, genesisVars, spec, key, chainVars>>

WriteArchive(t) ==
  /\ At(t, {"writeArchive"})
  /\ file' = [file EXCEPT ![t] = buf[t]]
  /\ Advance(t)
  /\ UNCHANGED <<localVars, genesisVars, spec, key, chainVars>>

CreateContainer(t) ==
  /\ At(t, {"create"})
  /\ container' = [container EXCEPT ![t] = "created"]
  /\ Advance(t)
  /\ UNCHANGED <<localVars, genesisVars, volumeVars, writers, clients, isRunning>>

\* Docker starts the container of a namada node whatever is in its volume; with half an
\* archive, join-network fails and the node's process ends with it.
StartContainer(t) ==
  /\ At(t, {"start"})
  /\ container' = [container EXCEPT ![t] = IF family = "namada" /\ file[t] = Torn THEN "exited" ELSE "running"]
  /\ Advance(t)
  /\ UNCHANGED <<localVars, genesisVars, volumeVars, writers, clients, isRunning>>

Register(t) ==
  /\ At(t, {"register"})
  /\ clients' = clients \cup {t[2]}
  /\ Advance(t)
  /\ UNCHANGED <<localVars, genesisVars, volumeVars, container, writers, isRunning>>

SetRunning(t) ==
  /\ At(t, {"setRunning"})
  /\ isRunning' = TRUE
  /\ Advance(t)
  /\ UNCHANGED <<localVars, genesisVars, volumeVars, container, writers, clients>>

Spawn ==
  /\ At(Main, {"go"})
  /\ pc' = [pc EXCEPT ![Main] = Tail(@), ![Arg(Main)] = pc[Main][1][3]]
  /\ UNCHANGED <<family, failed, result, localVars, genesisVars, volumeVars, chainVars>>

\* Mutant: the first error ends the wait.
WaitGroupFirstError ==
  /\ At(Main, {"wait"})
  /\ failed \/ \A u \in Containers : ~Busy(u)
  /\ pc' = [pc EXCEPT ![Main] = IF failed THEN <<>> ELSE Tail(@)]
  /\ result' = IF failed THEN "err" ELSE result
  /\ UNCHANGED <<family, failed, localVars, genesisVars, volumeVars, chainVars>>

\* eg.Wait, and the return of its error.
WaitGroup ==
  /\ At(Main, {"wait"})
  /\ \A u \in Containers : ~Busy(u)
  /\ pc' = [pc EXCEPT ![Main] = IF failed THEN <<>> ELSE Tail(@)]
  /\ result' = IF failed THEN "err" ELSE result
  /\ UNCHANGED <<family, failed, localVars, genesisVars, volumeVars, chainVars>>

Return ==
  /\ ~Busy(Main) /\ result = "pending"
  /\ result' = "nil"
  /\ UNCHANGED <<family, pc, failed, localVars, genesisVars, volumeVars, chainVars>>

Infallible == {"go", "wait", "lock", "append", "setRunning", "lockGenesis", "replace"}

\* Mutant: a goroutine that fails returns nil.
FailSilent(t) ==
  /\ Busy(t) /\ Name(t) \notin Infallible
  /\ pc' = [pc EXCEPT ![t] = <<>>]
  /\ UNCHANGED failed
  /\ result' = IF t = Main THEN "err" ELSE result
  /\ writers' \in {writers, writers \ {t}}
  /\ UNCHANGED <<family, localVars, genesisVars, volumeVars, container, clients, isRunning>>

\* A call fails: Start returns, with goroutines it has begun left to themselves,
\* or a goroutine returns its error to the group.  A file writer that fails tries to
\* remove its container.
Fail(t) ==
  /\ Busy(t) /\ Name(t) \notin Infallible
  /\ pc' = [pc EXCEPT ![t] = <<>>]
  /\ failed' = (failed \/ t # Main)
  /\ result' = IF t = Main THEN "err" ELSE result
  /\ writers' \in {writers, writers \ {t}}
  /\ UNCHANGED <<family, localVars, genesisVars, volumeVars, container, clients, isRunning>>

Step(t) ==
  \/ Call(t) \/ InitFiles(t) \/ Define(t) \/ Lock(t) \/ AppendAllocation(t) \/ Fund(t) \/ Export(t)
  \/ GenerateGenesisFile(t) \/ InitNetwork(t) \/ GenerateChainSpecRaw(t) \/ ReadGenesis(t) \/ ModifyGenesis(t)
  \/ LockGenesis(t) \/ Replace(t) \/ WriteGenesis(t) \/ CopyRawSpec(t) \/ CreateWriter(t) \/ CopySpec(t)
  \/ ReadValidatorKey(t) \/ WriteKey(t) \/ ReadArchive(t) \/ OpenArchive(t) \/ WriteArchive(t)
  \/ CreateContainer(t) \/ StartContainer(t) \/ Register(t) \/ SetRunning(t) \/ Fail(t)

Returned == result # "pending" /\ \A t \in Procs : ~Busy(t)

Done == Returned /\ UNCHANGED vars

Next == (\E t \in Procs : Step(t)) \/ Spawn \/ WaitGroup \/ Return \/ Done

\* Calls answer or fail, goroutines that can run do.
Fairness == /\ \A t \in Procs : WF_vars(Step(t))
            /\ WF_vars(Spawn \/ WaitGroup \/ Return)

Spec == Init /\ [][Next]_vars /\ Fairness

----------------------------------------------------------------------------
(* Properties *)

Authorities == IF family = "polkadot" THEN 1..NumRelay ELSE Validators

CompleteGenesis ==
  [defs |-> IF family = "thorchainFork" THEN Validators \X Range(NodeAccountFields)
            ELSE {<<v, v>> : v \in Authorities},
   allocations |-> IF family = "thorchainFork" THEN {}
                   ELSE Authorities \cup Range(Wallets) \cup {x \in {GasPayer} : family = "namada"}
                          \cup {x \in {Bond} : family = "thorchain"},
   paras |-> IF family = "polkadot" THEN Paras ELSE {}]

\* A fork keeps the accounts of the live network; whether the wallets are to be among
\* them, as ibc/chain.go:18 has it of every chain, is left open: Start does not add them.
Geneses ==
  {[CompleteGenesis EXCEPT !.allocations = a] :
     a \in IF family = "thorchainFork" THEN SUBSET Range(Wallets) ELSE {CompleteGenesis.allocations}}

\* Every node that runs the chain runs it from the same, complete genesis: all
\* validators, whatever the order in which their goroutines came to the shared
\* slices, all wallets Start was given, all parachains; a validator signs with the
\* key that genesis has for it, and a collator runs its parachain's own spec.  A
\* thorchain that takes over a given genesis has replaced every validator's keys
\* and addresses in it.  A namada node that was given half an archive runs nothing.
RunsWithItsGenesis ==
  \A u \in Containers : container[u] = "running" =>
    /\ u[1] \in {"tm", "val", "full", "relay", "para", "thor"} => file[u] \in Geneses
    /\ u[1] = "val" \/ (u[1] = "tm" /\ u[2] \in Validators) => key[u] = Key("genesis", u[2])
    /\ u[1] = "para" => spec[u] = u[2]

Needs(u) ==
  CASE u[1] = "para" -> {"relay"} \X (1..NumRelay)
    [] u[1] = "client" -> {"tm", "app"} \X Nodes
    [] u[1] = "thor" -> {"side"} \X (1..NumSidecars)
    [] OTHER -> {}

\* A collator exists only when the whole relay chain runs, and a pclientd only when
\* the penumbra network does; a thorchain's nodes come after its pre-start sidecars;
\* of any network but polkadot's no node runs before the containers of all of
\* them exist.
StartsAfterItsNeeds ==
  /\ \A u \in Containers : container[u] # "none" => \A w \in Needs(u) : container[w] = "running"
  /\ family # "polkadot" =>
       \A u, w \in {c \in ContainersOf(family) : c[1] \notin {"client", "side"}} :
         container[u] \in {"running", "exited"} => container[w] # "none"

\* Once Start has returned, whatever the error, nothing it began creates or starts a
\* container: cleanup would miss it.  The exception is polkadot's Start, which returns
\* between the parachains while their specs are being copied (polkadot_chain.go:430):
\* the copies go on, each in a one-off container, and nothing but they does.
QuietAfterReturn ==
  [][result # "pending" =>
       /\ UNCHANGED container
       /\ \A t \in Procs : Busy(t) => family = "polkadot" /\ Name(t) = "copySpec"
       /\ writers' \ writers \subseteq {t \in Containers : Busy(t)}]_vars

\* Start returns: with an error, or with every container of the chain running and a
\* pclientd for every penumbra validator.
StartReturns ==
  result = "pending" ~>
    \/ result = "err"
    \/ /\ result = "nil"
       /\ \A u \in ContainersOf(family) : container[u] = "running"
       /\ family = "penumbra" => clients = Validators
       /\ family = "namada" => isRunning
====
