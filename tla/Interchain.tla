----------------------------- MODULE Interchain -----------------------------
(***************************************************************************)
(* interchain.go and chainset.go: a test declares chains, relayers and      *)
(* links, and Build brings the network up: it initialises and starts the    *)
(* chains (one goroutine per chain, providers before consumers), gives      *)
(* every relayer a funded key on every chain it serves, teaches it its      *)
(* paths and links all of them concurrently.                                *)
(*                                                                         *)
(* Every `for range' over a Go map runs in an arbitrary order.  Each        *)
(* goroutine of an errgroup may fail at any time; the group's Wait returns  *)
(* once all of them have ended.                                             *)
(***************************************************************************)
EXTENDS Naturals, Sequences, FiniteSets

CONSTANTS
  Chains,      \* the ibc.Chain values the test may add
  ChainID,     \* [Chains -> IDs]
  ChainName,   \* [Chains -> names]
  Relayers,    \* the ibc.Relayer values the test may add
  Paths,       \* path names
  Links,       \* the InterchainLinks the test may add
  PCLinks,     \* the ProviderConsumerLinks the test may add
  Validators,  \* [Chains -> Nat]: NumValidators of each chain as created
  None

ASSUME LinksAssumption ==
  /\ \A l \in Links : l.rp \in Relayers \X Paths /\ l.ends \in Chains \X Chains
  /\ \A l \in PCLinks : l.rp \in Relayers \X Paths /\ l.ends \in Chains \X Chains
  /\ None \notin Chains /\ Validators \in [Chains -> Nat]

RelayerPaths == Relayers \X Paths
LinkItems == {"pc", "link"} \X RelayerPaths   \* a link of either map
Items == Chains \cup LinkItems                \* what a goroutine works on

ASSUME ItemsAssumption == Chains \cap LinkItems = {}

VARIABLES
  phase,      \* where Build is
  chains, relayers,   \* ic.chains, ic.relayers
  links,      \* ic.links: relayer and path -> two chains
  pcLinks,    \* ic.providerConsumerLinks: relayer and path -> provider, consumer
  skip,       \* opts.SkipPathCreation
  todo,       \* what the sequential loop of this phase has left
  provider,   \* [Chains -> Chains or None]: CosmosChain.Provider
  consumers,  \* [Chains -> SUBSET Chains]: CosmosChain.Consumers
  nvals,      \* CosmosChain.NumValidators
  gor,        \* the goroutines of the current errgroup
  up,         \* state of each chain
  wallets,    \* ic.relayerWallets: relayer-chain pairs
  faucet,     \* chains with a faucet account
  genesis,    \* accounts funded in each chain's genesis
  configured, keyed,  \* relayer-chain pairs the relayer has a config and a key for
  rpath,      \* the path table of the relayers
  clients,    \* IBC clients of each chain: the chains they track, oldest first
  chosen      \* client picked for each end of a provider-consumer path

declVars  == <<chains, relayers, links, pcLinks>>
wireVars  == <<provider, consumers, nvals>>
relayVars == <<configured, keyed, rpath, clients, chosen>>
vars == <<phase, declVars, skip, todo, wireVars, gor, up, wallets, faucet, genesis, relayVars>>

Init ==
  /\ phase = "declare" /\ chains = {} /\ relayers = {} /\ skip = FALSE /\ todo = {}
  /\ links = [rp \in RelayerPaths |-> None] /\ pcLinks = [rp \in RelayerPaths |-> None]
  /\ provider = [c \in Chains |-> None] /\ consumers = [c \in Chains |-> {}] /\ nvals = Validators
  /\ gor = [i \in Items |-> "none"] /\ up = [c \in Chains |-> "new"]
  /\ wallets = {} /\ faucet = {} /\ genesis = [c \in Chains |-> {}]
  /\ configured = {} /\ keyed = {} /\ rpath = [rp \in RelayerPaths |-> None]
  /\ clients = [c \in Chains |-> <<>>]
  /\ chosen = [rp \in RelayerPaths |-> None]

----------------------------------------------------------------------------
(* Declarations; a failed validation panics, which ends the test. *)

Panic == phase' = "panicked"
Declared(rps) == {rp \in RelayerPaths : rps[rp] # None}

AddChain(c) ==
  /\ phase = "declare"
  /\ IF \E d \in chains : d = c \/ ChainID[d] = ChainID[c] \/ ChainName[d] = ChainName[c]
     THEN Panic /\ UNCHANGED chains
     ELSE chains' = chains \cup {c} /\ UNCHANGED phase
  /\ UNCHANGED <<relayers, links, pcLinks, skip, todo, wireVars, gor, up, wallets, faucet, genesis, relayVars>>

AddRelayer(r) ==
  /\ phase = "declare"
  /\ \/ relayers # {} /\ Panic /\ UNCHANGED relayers  \* added before, or another with its name
     \/ r \notin relayers /\ relayers' = relayers \cup {r} /\ UNCHANGED phase
  /\ UNCHANGED <<chains, links, pcLinks, skip, todo, wireVars, gor, up, wallets, faucet, genesis, relayVars>>

\* The validation AddLink and AddProviderConsumerLink share, each with its own map.
Refused(l, taken) ==
  \/ l.ends[1] \notin chains \/ l.ends[2] \notin chains \/ l.rp[1] \notin relayers
  \/ l.ends[1] = l.ends[2]
  \/ taken[l.rp] # None

AddLink(l) ==
  /\ phase = "declare"
  /\ IF Refused(l, links) THEN Panic /\ UNCHANGED links
     ELSE links' = [links EXCEPT ![l.rp] = l.ends] /\ UNCHANGED phase
  /\ UNCHANGED <<chains, relayers, pcLinks, skip, todo, wireVars, gor, up, wallets, faucet, genesis, relayVars>>

AddProviderConsumerLink(l) ==
  /\ phase = "declare"
  /\ IF Refused(l, pcLinks) THEN Panic /\ UNCHANGED pcLinks
     ELSE pcLinks' = [pcLinks EXCEPT ![l.rp] = l.ends] /\ UNCHANGED phase
  /\ UNCHANGED <<chains, relayers, links, skip, todo, wireVars, gor, up, wallets, faucet, genesis, relayVars>>

----------------------------------------------------------------------------
(* Goroutines of an errgroup *)

Spawn(items) == gor' = [i \in Items |-> IF i \in items THEN "run" ELSE "none"]
Ends(i, result) == gor' = [gor EXCEPT ![i] = result]
AllEnded == \A i \in Items : gor[i] # "run"
SomeFailed == \E i \in Items : gor[i] = "err"

\* eg.Wait: Build goes on to the next phase, or returns the error.
Wait(from, next) ==
  /\ phase = from /\ AllEnded
  /\ phase' = IF SomeFailed THEN "failed" ELSE next

\* Build starts: Calling Build more than once will cause a panic.
Build ==
  /\ phase = "declare"
  /\ skip' \in BOOLEAN
  /\ phase' = "wire" /\ todo' = Declared(pcLinks)
  /\ UNCHANGED <<declVars, wireVars, gor, up, wallets, faucet, genesis, relayVars>>

BuildAgain ==
  /\ phase \in {"built", "failed"} /\ Panic
  /\ UNCHANGED <<declVars, skip, todo, wireVars, gor, up, wallets, faucet, genesis, relayVars>>

\* One iteration of the loop over providerConsumerLinks.
WireConsumer(rp) ==
  /\ phase = "wire" /\ rp \in todo
  /\ LET p == pcLinks[rp][1]
         c == pcLinks[rp][2]
     IN /\ nvals' = [nvals EXCEPT ![c] = nvals[p]]
        /\ provider' = [provider EXCEPT ![c] = p]
        /\ consumers' = [consumers EXCEPT ![p] = @ \cup {c}]
  /\ todo' = todo \ {rp}
  /\ UNCHANGED <<phase, declVars, skip, gor, up, wallets, faucet, genesis, relayVars>>

StartInitialize ==
  /\ phase = "wire" /\ todo = {}
  /\ phase' = "initialize" /\ Spawn(chains)
  /\ UNCHANGED <<declVars, skip, todo, wireVars, up, wallets, faucet, genesis, relayVars>>

InitializeChain(c) ==
  /\ phase = "initialize" /\ gor[c] = "run"
  /\ \/ Ends(c, "ok") /\ up' = [up EXCEPT ![c] = "initialized"]
     \/ Ends(c, "err") /\ UNCHANGED up
  /\ UNCHANGED <<phase, declVars, skip, todo, wireVars, wallets, faucet, genesis, relayVars>>

\* Mutant: Build waits for every chain to report success.
WaitInitializeSuccess ==
  /\ ~SomeFailed /\ Wait("initialize", "wallets")
  /\ UNCHANGED <<declVars, skip, todo, wireVars, gor, up, wallets, faucet, genesis, relayVars>>

WaitInitialize ==
  /\ Wait("initialize", "wallets")
  /\ UNCHANGED <<declVars, skip, todo, wireVars, gor, up, wallets, faucet, genesis, relayVars>>

\* Mutant: the chains of provider-consumer links are forgotten.
RelayerChainsOfLinks == {<<rp[1], links[rp][e]>> : rp \in Declared(links), e \in 1..2}

\* relayerChains: the chains of every link of either kind, without duplicates.
RelayerChains ==
  {<<rp[1], links[rp][e]>> : rp \in Declared(links), e \in 1..2} \cup
  {<<rp[1], pcLinks[rp][e]>> : rp \in Declared(pcLinks), e \in 1..2}

\* generateRelayerWallets; an error leaves the wallets made so far.
GenerateRelayerWallets ==
  /\ phase = "wallets"
  /\ \/ wallets' = RelayerChains /\ phase' = "faucet" /\ Spawn(chains)
     \/ /\ wallets' \in SUBSET RelayerChains /\ wallets' # RelayerChains
        /\ phase' = "failed" /\ UNCHANGED gor
  /\ UNCHANGED <<declVars, skip, todo, wireVars, up, faucet, genesis, relayVars>>

\* CreateCommonAccount: the goroutines share faucetAddresses under a mutex.
CreateFaucet(c) ==
  /\ phase = "faucet" /\ gor[c] = "run"
  /\ \/ Ends(c, "ok") /\ faucet' = faucet \cup {c}
     \/ Ends(c, "err") /\ UNCHANGED faucet
  /\ UNCHANGED <<phase, declVars, skip, todo, wireVars, up, wallets, genesis, relayVars>>

\* genesisWalletAmounts, once every faucet account exists; then chainSet.Start.
FirstWave == {c \in chains : provider[c] = None}
GenesisWalletAmounts ==
  /\ Wait("faucet", "start")
  /\ IF SomeFailed THEN UNCHANGED <<genesis, gor>>
     ELSE /\ genesis' = [c \in Chains |-> (faucet \cap {c}) \cup {w[1] : w \in {v \in wallets : v[2] = c}}]
          /\ Spawn(FirstWave)
  /\ UNCHANGED <<declVars, skip, todo, wireVars, up, wallets, faucet, relayVars>>

\* Start or StartProvider of a chain without a provider.
StartChain(c) ==
  /\ phase = "start" /\ gor[c] = "run"
  /\ \/ Ends(c, "ok") /\ up' = [up EXCEPT ![c] = "running"]
     \/ Ends(c, "err") /\ UNCHANGED up
  /\ UNCHANGED <<phase, declVars, skip, todo, wireVars, wallets, faucet, genesis, relayVars>>

\* Mutant: consumers start without waiting for the first wave.
WaitProvidersEarly ==
  /\ phase = "start" /\ phase' = "startConsumers"
  /\ Spawn(chains \ FirstWave)
  /\ UNCHANGED <<declVars, skip, todo, wireVars, up, wallets, faucet, genesis, relayVars>>

WaitProviders ==
  /\ Wait("start", "startConsumers")
  /\ IF SomeFailed THEN UNCHANGED gor ELSE Spawn(chains \ FirstWave)
  /\ UNCHANGED <<declVars, skip, todo, wireVars, up, wallets, faucet, genesis, relayVars>>

\* StartConsumer: the CCV genesis of the provider carries a client for each side.
StartConsumer(c) ==
  /\ phase = "startConsumers" /\ gor[c] = "run"
  /\ \/ /\ Ends(c, "ok") /\ up' = [up EXCEPT ![c] = "running"]
        /\ clients' = [clients EXCEPT ![c] = Append(@, provider[c]),
                                      ![provider[c]] = Append(@, c)]
     \/ Ends(c, "err") /\ UNCHANGED <<up, clients>>
  /\ UNCHANGED <<phase, declVars, skip, todo, wireVars, wallets, faucet, genesis, configured, keyed, rpath, chosen>>

WaitConsumers ==
  /\ Wait("startConsumers", "track")
  /\ UNCHANGED <<declVars, skip, todo, wireVars, gor, up, wallets, faucet, genesis, relayVars>>

\* TrackBlocks and CreatePenumbraClient: outside this module, each may fail.
TrackBlocks ==
  /\ phase = "track"
  /\ \/ phase' = "keys" /\ todo' = RelayerChains
     \/ phase' = "failed" /\ UNCHANGED todo
  /\ UNCHANGED <<declVars, skip, wireVars, gor, up, wallets, faucet, genesis, relayVars>>

\* One iteration of configureRelayerKeys: AddChainConfiguration, then RestoreKey.
ConfigureRelayerKey(rc) ==
  /\ phase = "keys" /\ rc \in todo
  /\ \/ /\ configured' = configured \cup {rc} /\ keyed' = keyed \cup {rc}
        /\ todo' = todo \ {rc} /\ UNCHANGED phase
     \/ /\ configured' \in {configured, configured \cup {rc}} /\ UNCHANGED <<keyed, todo>>
        /\ phase' = "failed"
  /\ UNCHANGED <<declVars, skip, wireVars, gor, up, wallets, faucet, genesis, rpath, clients, chosen>>

KeysDone ==
  /\ phase = "keys" /\ todo = {}
  /\ phase' = IF skip THEN "built" ELSE "paths"
  /\ todo' = IF skip THEN {} ELSE {"link"} \X Declared(links)
  /\ UNCHANGED <<declVars, skip, wireVars, gor, up, wallets, faucet, genesis, relayVars>>

\* GeneratePath: the path's source is the first chain of a link, the consumer of
\* a provider-consumer link.  A path that exists is replaced.
PathOf(i) == IF i[1] = "link" THEN links[i[2]]
             ELSE <<pcLinks[i[2]][2], pcLinks[i[2]][1]>>

GeneratePath(i) ==
  /\ phase \in {"paths", "pcPaths"} /\ i \in todo
  /\ \/ /\ rpath' = [rpath EXCEPT ![i[2]] = PathOf(i)]
        /\ todo' = todo \ {i} /\ UNCHANGED phase
     \/ phase' = "failed" /\ UNCHANGED <<rpath, todo>>
  /\ UNCHANGED <<declVars, skip, wireVars, gor, up, wallets, faucet, genesis, configured, keyed, clients, chosen>>

LinksGenerated ==
  /\ phase = "paths" /\ todo = {}
  /\ phase' = "pcPaths" /\ todo' = {"pc"} \X Declared(pcLinks)
  /\ UNCHANGED <<declVars, skip, wireVars, gor, up, wallets, faucet, genesis, relayVars>>

PCLinksGenerated ==
  /\ phase = "pcPaths" /\ todo = {}
  /\ phase' = "linking"
  /\ Spawn(({"pc"} \X Declared(pcLinks)) \cup ({"link"} \X Declared(links)))
  /\ UNCHANGED <<declVars, skip, todo, wireVars, up, wallets, faucet, genesis, relayVars>>

Tracks(c, d) == \E k \in 1..Len(clients[c]) : clients[c][k] = d

\* Mutant: the newest client of each list is taken.
ChooseNewestClients(rp) ==
  LET i == <<"pc", rp>>
      c == PathOf(i)[1]
      p == PathOf(i)[2]
  IN /\ phase = "linking" /\ gor[i] = "run" /\ chosen[rp] = None
     /\ Tracks(c, p) /\ Tracks(p, c)
     /\ chosen' = [chosen EXCEPT ![rp] = <<clients[c][Len(clients[c])], clients[p][Len(clients[p])]>>]
     /\ UNCHANGED <<phase, declVars, skip, todo, wireVars, gor, up, wallets, faucet, genesis, configured, keyed, rpath, clients>>

\* A provider-consumer goroutine: both chains need a client that tracks the
\* other one, and the first client of each list is what goes into the path.
ChooseClients(rp) ==
  LET i == <<"pc", rp>>
      c == PathOf(i)[1]
      p == PathOf(i)[2]
  IN /\ phase = "linking" /\ gor[i] = "run" /\ chosen[rp] = None
     /\ \/ /\ Tracks(c, p) /\ Tracks(p, c)
           /\ chosen' = [chosen EXCEPT ![rp] = <<clients[c][1], clients[p][1]>>]
           /\ UNCHANGED gor
        \/ Ends(i, "err") /\ UNCHANGED chosen   \* invalid options, a failed query, no client
     /\ UNCHANGED <<phase, declVars, skip, todo, wireVars, up, wallets, faucet, genesis, configured, keyed, rpath, clients>>

\* CreateConnections and CreateChannel on the path with those clients.
LinkPCPath(rp) ==
  LET i == <<"pc", rp>>
  IN /\ phase = "linking" /\ gor[i] = "run" /\ chosen[rp] # None
     /\ Ends(i, "ok") \/ Ends(i, "err")
     /\ UNCHANGED <<phase, declVars, skip, todo, wireVars, up, wallets, faucet, genesis, relayVars>>

\* LinkPath creates a client on each end of the path the relayer knows.
LinkPath(rp) ==
  LET i == <<"link", rp>>
      a == rpath[rp][1]
      b == rpath[rp][2]
  IN /\ phase = "linking" /\ gor[i] = "run"
     /\ \/ /\ Ends(i, "ok")
           /\ clients' = [clients EXCEPT ![a] = Append(@, b), ![b] = Append(@, a)]
        \/ Ends(i, "err") /\ UNCHANGED clients
     /\ UNCHANGED <<phase, declVars, skip, todo, wireVars, up, wallets, faucet, genesis, configured, keyed, rpath, chosen>>

\* Mutant: Build drops the group's error.
WaitLinksDropsError ==
  /\ phase = "linking" /\ AllEnded /\ phase' = "built"
  /\ UNCHANGED <<declVars, skip, todo, wireVars, gor, up, wallets, faucet, genesis, relayVars>>

WaitLinks ==
  /\ Wait("linking", "built")
  /\ UNCHANGED <<declVars, skip, todo, wireVars, gor, up, wallets, faucet, genesis, relayVars>>

Returned == phase \in {"built", "failed", "panicked"}
TestOver == phase = "panicked" /\ UNCHANGED vars

Declare ==
  \/ \E c \in Chains : AddChain(c)
  \/ \E r \in Relayers : AddRelayer(r)
  \/ \E l \in Links : AddLink(l)
  \/ \E l \in PCLinks : AddProviderConsumerLink(l)
  \/ Build \/ BuildAgain

Proceed ==
  \/ \E rp \in RelayerPaths : WireConsumer(rp) \/ ChooseClients(rp) \/ LinkPCPath(rp) \/ LinkPath(rp)
  \/ StartInitialize \/ WaitInitialize \/ GenerateRelayerWallets \/ GenesisWalletAmounts
  \/ \E c \in Chains : InitializeChain(c) \/ CreateFaucet(c) \/ StartChain(c) \/ StartConsumer(c)
  \/ WaitProviders \/ WaitConsumers \/ TrackBlocks
  \/ \E rc \in Relayers \X Chains : ConfigureRelayerKey(rc)
  \/ KeysDone \/ LinksGenerated \/ PCLinksGenerated \/ WaitLinks
  \/ \E i \in LinkItems : GeneratePath(i)

Next == Declare \/ Proceed \/ TestOver
Spec == Init /\ [][Next]_vars

\* Build and its goroutines run until they return; docker calls end.
FairSpec == Spec /\ WF_vars(Proceed)

----------------------------------------------------------------------------
(* Properties *)

\* While a link is being made, both chains of the relayer's path run, and the
\* relayer has their configuration, its key on them, and that key's account in
\* their genesis: four phases of Build and both link maps have to agree.
LinkedChainsReady ==
  \A i \in LinkItems :
    gor[i] = "run" =>
      \A e \in 1..2 :
        LET c == rpath[i[2]][e]
            rc == <<i[2][1], c>>
        IN up[c] = "running" /\ rc \in configured /\ rc \in keyed /\ rc[1] \in genesis[c]

\* A consumer starts only once its provider runs (chainset.go:112, "wait for
\* provider chains to be started up first").
ProviderUpFirst ==
  \A c \in Chains :
    phase = "startConsumers" /\ gor[c] = "run" => up[provider[c]] = "running"

\* A Build that returns nil brought every declared chain up and linked every
\* declared path, unless path creation was skipped.
BuiltMeansLinked ==
  phase = "built" =>
    /\ \A c \in chains : up[c] = "running" /\ c \in genesis[c]
    /\ ~skip => \A rp \in RelayerPaths :
         /\ links[rp] # None => gor[<<"link", rp>>] = "ok"
         /\ pcLinks[rp] # None => gor[<<"pc", rp>>] = "ok"

\* The clients Build writes into a provider-consumer path track the path's other
\* end, which is what the loops at interchain.go:435-440 and 457-462 look for.
ClientsTrackPeer ==
  \A rp \in RelayerPaths :
    chosen[rp] # None =>
      chosen[rp] = <<PathOf(<<"pc", rp>>)[2], PathOf(<<"pc", rp>>)[1]>>

\* Build returns, whatever fails.
BuildReturns == (phase = "wire") ~> Returned
=============================================================================
