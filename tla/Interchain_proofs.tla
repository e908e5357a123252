-------------------------- MODULE Interchain_proofs --------------------------
(***************************************************************************)
(* What Build guarantees for any chains, relayers and links a test          *)
(* declares, in whatever order its maps are ranged over and its goroutines  *)
(* run and fail.                                                            *)
(*                                                                         *)
(* The inductive invariant BuildInv says what each phase of Build has       *)
(* established for the later ones.                                          *)
(***************************************************************************)
EXTENDS Interchain, SequenceTheorems, TLAPS

Ends2 == Chains \X Chains

\* Phases in which what an earlier one made is there.
Funded == {"start", "startConsumers", "track", "keys", "paths", "pcPaths", "linking", "built"}
AllUp == {"track", "keys", "paths", "pcPaths", "linking", "built"}
Keyed == {"paths", "pcPaths", "linking"}
Wired == {"initialize", "wallets", "faucet"} \cup Funded
Phases == {"declare", "wire", "failed", "panicked"} \cup Wired

TypesOK ==
  /\ phase \in Phases /\ skip \in BOOLEAN
  /\ chains \subseteq Chains
  /\ links \in [RelayerPaths -> Ends2 \cup {None}]
  /\ pcLinks \in [RelayerPaths -> Ends2 \cup {None}]
  /\ provider \in [Chains -> Chains \cup {None}]
  /\ gor \in [Items -> {"none", "run", "ok", "err"}]
  /\ up \in [Chains -> {"new", "initialized", "running"}]
  /\ faucet \subseteq Chains
  /\ rpath = [rp \in RelayerPaths |-> rpath[rp]]
  /\ chosen = [rp \in RelayerPaths |-> chosen[rp]]
  /\ clients \in [Chains -> Seq(Chains)]

\* Links join chains that were added.
DeclaredOK ==
  \A rp \in RelayerPaths :
    /\ links[rp] # None => links[rp] \in chains \X chains /\ links[rp][1] # links[rp][2]
    /\ pcLinks[rp] # None => pcLinks[rp] \in chains \X chains /\ pcLinks[rp][1] # pcLinks[rp][2]

\* A chain has a provider exactly when a link makes it a consumer of it, once
\* the loop over the links is through.
WiredOK ==
  /\ phase = "declare" => \A c \in Chains : provider[c] = None
  /\ \A c \in Chains : provider[c] # None =>
       \E rp \in RelayerPaths : pcLinks[rp] # None /\ pcLinks[rp] = <<provider[c], c>>
  /\ phase = "wire" => todo \subseteq Declared(pcLinks) /\ \A rp \in RelayerPaths :
       rp \in todo \/ pcLinks[rp] = None \/ provider[pcLinks[rp][2]] # None
  /\ phase \in Wired => \A rp \in RelayerPaths :
       pcLinks[rp] = None \/ provider[pcLinks[rp][2]] # None

\* Accounts first, then the genesis that funds them.
FundedOK ==
  /\ phase \in Funded \cup {"faucet"} => wallets = RelayerChains
  /\ phase = "faucet" => \A c \in chains : gor[c] # "none" /\ (gor[c] = "ok" => c \in faucet)
  /\ phase \in Funded =>
       /\ \A c \in chains : c \in genesis[c]
       /\ \A rc \in RelayerChains : rc[1] \in genesis[rc[2]]

\* A group has a goroutine for every chain of its wave, and one that ended
\* without an error has started its chain.
WavesOK ==
  /\ phase = "start" => \A c \in FirstWave : gor[c] # "none" /\ (gor[c] = "ok" => up[c] = "running")
  /\ phase = "startConsumers" =>
       /\ \A c \in FirstWave : up[c] = "running"
       /\ \A c \in chains \ FirstWave : gor[c] # "none" /\ (gor[c] = "ok" => up[c] = "running")
       /\ \A c \in Chains : gor[c] # "none" => c \in chains \ FirstWave
  /\ phase \in AllUp => \A c \in chains : up[c] = "running"

\* The ends of the relayer's path are two chains the relayer serves.
Served(rp) ==
  /\ \A e \in 1..2 : <<rp[1], rpath[rp][e]>> \in RelayerChains
  /\ rpath[rp][1] # rpath[rp][2]

PathsOK ==
  /\ phase = "keys" => \A rc \in RelayerChains : rc \in todo \/ (rc \in configured /\ rc \in keyed)
  /\ phase \in Keyed => \A rc \in RelayerChains : rc \in configured /\ rc \in keyed
  /\ phase = "paths" => todo \subseteq {"link"} \X Declared(links)
  /\ phase = "pcPaths" => todo \subseteq {"pc"} \X Declared(pcLinks)
  /\ phase \in {"paths", "pcPaths", "linking"} => \A rp \in RelayerPaths :
       links[rp] # None => Served(rp) \/ (phase = "paths" /\ <<"link", rp>> \in todo)
  /\ phase \in {"pcPaths", "linking"} => \A rp \in RelayerPaths :
       pcLinks[rp] # None => Served(rp) \/ (phase = "pcPaths" /\ <<"pc", rp>> \in todo)

LinksOK ==
  /\ \A i \in LinkItems : gor[i] = "run" => phase = "linking"
  /\ phase = "linking" => \A rp \in RelayerPaths :
       /\ links[rp] # None <=> gor[<<"link", rp>>] # "none"
       /\ pcLinks[rp] # None <=> gor[<<"pc", rp>>] # "none"
  /\ phase = "built" /\ ~skip => \A rp \in RelayerPaths :
       /\ links[rp] # None => gor[<<"link", rp>>] = "ok"
       /\ pcLinks[rp] # None => gor[<<"pc", rp>>] = "ok"

BuildInv == TypesOK /\ DeclaredOK /\ WiredOK /\ FundedOK /\ WavesOK /\ PathsOK /\ LinksOK

USE DEF Funded, AllUp, Keyed, Wired, Phases, Ends2

\* What relayerChains contains, said with paths and their ends.
LEMMA RelayerChainsAre ==
  ASSUME NEW rp \in RelayerPaths, NEW e \in 1..2
  PROVE  /\ links[rp] # None => <<rp[1], links[rp][e]>> \in RelayerChains
         /\ pcLinks[rp] # None => <<rp[1], pcLinks[rp][e]>> \in RelayerChains
BY DEF RelayerChains, Declared

\* A relayer serves only chains that were added.
LEMMA RelayerChainsAdded ==
  ASSUME TypesOK, DeclaredOK, NEW rc \in RelayerChains
  PROVE  rc \in Relayers \X chains /\ rc = <<rc[1], rc[2]>>
BY DEF RelayerChains, Declared, TypesOK, DeclaredOK, RelayerPaths

\* A test starts with nothing declared.
LEMMA InitBuild == Init => BuildInv
<1> SUFFICES ASSUME Init PROVE BuildInv
  OBVIOUS
<1> USE LinksAssumption
<1>1. clients \in [Chains -> Seq(Chains)]  BY EmptySeq DEF Init
<1>2. TypesOK  BY <1>1 DEF Init, TypesOK
<1>3. DeclaredOK /\ WiredOK  BY DEF Init, DeclaredOK, WiredOK
<1>4. FundedOK /\ WavesOK /\ PathsOK  BY DEF Init, FundedOK, WavesOK, PathsOK
<1>5. LinksOK  BY DEF Init, LinksOK, Items
<1> QED  BY <1>2, <1>3, <1>4, <1>5 DEF BuildInv

\* Declarations, which either panic or extend what was declared.
LEMMA DeclareSteps ==
  ASSUME BuildInv, phase = "declare",
         \/ \E c \in Chains : AddChain(c)
         \/ \E r \in Relayers : AddRelayer(r)
         \/ \E l \in Links : AddLink(l)
         \/ \E l \in PCLinks : AddProviderConsumerLink(l)
  PROVE  BuildInv'
<1> USE LinksAssumption
<1>1. phase' \in {"declare", "panicked"} /\ UNCHANGED <<wireVars, gor, up, wallets, faucet, genesis, relayVars, skip, todo>>
  BY DEF AddChain, AddRelayer, AddLink, AddProviderConsumerLink, Panic
<1>2. TypesOK' /\ DeclaredOK'
  <2>1. CASE \E c \in Chains : AddChain(c)
    BY <2>1, <1>1 DEF BuildInv, TypesOK, DeclaredOK, AddChain, wireVars, relayVars
  <2>2. CASE \E r \in Relayers : AddRelayer(r)
    BY <2>2, <1>1 DEF BuildInv, TypesOK, DeclaredOK, AddRelayer, wireVars, relayVars
  <2>3. CASE \E l \in Links : AddLink(l)
    <3> PICK l \in Links : AddLink(l)  BY <2>3
    <3>1. l.rp \in RelayerPaths /\ l.ends \in Ends2  BY DEF RelayerPaths
    <3>2. CASE Refused(l, links)
      BY <3>2, <1>1 DEF BuildInv, TypesOK, DeclaredOK, AddLink, wireVars, relayVars
    <3>3. CASE ~Refused(l, links)
      <4>1. links' = [links EXCEPT ![l.rp] = l.ends] /\ l.ends \in chains \X chains
        BY <3>1, <3>3 DEF AddLink, Refused
      <4>2. UNCHANGED chains /\ UNCHANGED pcLinks
        BY <3>3 DEF AddLink
      <4>3. TypesOK'  BY <1>1, <3>1, <4>1, <4>2 DEF BuildInv, TypesOK, wireVars, relayVars
      <4>4. l.ends[1] # l.ends[2]  BY <3>3 DEF Refused
      <4>5. links'[l.rp] = l.ends /\ \A rp \in RelayerPaths : rp # l.rp => links'[rp] = links[rp]
        BY <3>1, <4>1 DEF BuildInv, TypesOK
      <4>6. DeclaredOK'  BY <3>1, <4>1, <4>2, <4>4, <4>5 DEF BuildInv, DeclaredOK
      <4> QED  BY <4>3, <4>6
    <3> QED  BY <3>2, <3>3
  <2>4. CASE \E l \in PCLinks : AddProviderConsumerLink(l)
    <3> PICK l \in PCLinks : AddProviderConsumerLink(l)  BY <2>4
    <3>1. l.rp \in RelayerPaths /\ l.ends \in Ends2  BY DEF RelayerPaths
    <3>2. CASE Refused(l, pcLinks)
      BY <3>2, <1>1 DEF BuildInv, TypesOK, DeclaredOK, AddProviderConsumerLink, wireVars, relayVars
    <3>3. CASE ~Refused(l, pcLinks)
      <4>1. pcLinks' = [pcLinks EXCEPT ![l.rp] = l.ends] /\ l.ends \in chains \X chains
        BY <3>1, <3>3 DEF AddProviderConsumerLink, Refused
      <4>2. UNCHANGED chains /\ UNCHANGED links
        BY <3>3 DEF AddProviderConsumerLink
      <4>3. TypesOK'  BY <1>1, <3>1, <4>1, <4>2 DEF BuildInv, TypesOK, wireVars, relayVars
      <4>4. l.ends[1] # l.ends[2]  BY <3>3 DEF Refused
      <4>5. pcLinks'[l.rp] = l.ends /\ \A rp \in RelayerPaths : rp # l.rp => pcLinks'[rp] = pcLinks[rp]
        BY <3>1, <4>1 DEF BuildInv, TypesOK
      <4>6. DeclaredOK'  BY <3>1, <4>1, <4>2, <4>4, <4>5 DEF BuildInv, DeclaredOK
      <4> QED  BY <4>3, <4>6
    <3> QED  BY <3>2, <3>3
  <2> QED  BY <2>1, <2>2, <2>3, <2>4
<1>3. WiredOK'
  BY <1>1 DEF BuildInv, TypesOK, WiredOK, wireVars
<1>4. (FundedOK /\ WavesOK /\ PathsOK)'
  BY <1>1 DEF FundedOK, WavesOK, PathsOK
<1>5. LinksOK'
  BY <1>1 DEF BuildInv, LinksOK
<1> QED  BY <1>2, <1>3, <1>4, <1>5 DEF BuildInv

\* What a step leaves alone when it neither declares nor wires.
Settled == UNCHANGED <<chains, links, pcLinks, provider, skip>>

\* What is read from the declarations does not change, then.
LEMMA SettledFacts ==
  ASSUME BuildInv, Settled
  PROVE  /\ DeclaredOK' /\ RelayerChains' = RelayerChains /\ FirstWave' = FirstWave
         /\ Declared(links)' = Declared(links) /\ Declared(pcLinks)' = Declared(pcLinks)
BY DEF BuildInv, DeclaredOK, Settled, RelayerChains, FirstWave, Declared

\* The providers are known once the phase "wire" is over.
LEMMA WiredStays ==
  ASSUME BuildInv, Settled, phase' \notin {"declare", "wire"}, phase' \in Wired => phase \in Wired
  PROVE  WiredOK'
BY DEF BuildInv, WiredOK, Settled

\* Spawn and Ends on the goroutines.
LEMMA SpawnGives ==
  ASSUME NEW S \in SUBSET Items, Spawn(S)
  PROVE  /\ gor' \in [Items -> {"none", "run", "ok", "err"}]
         /\ \A i \in S : gor'[i] = "run"
         /\ \A i \in Items \ S : gor'[i] = "none"
BY DEF Spawn

\* One goroutine ends, the others go on.
LEMMA EndsGives ==
  ASSUME NEW i \in Items, NEW result \in {"ok", "err"}, Ends(i, result),
         gor \in [Items -> {"none", "run", "ok", "err"}]
  PROVE  /\ gor' \in [Items -> {"none", "run", "ok", "err"}]
         /\ gor'[i] = result
         /\ \A j \in Items : j # i => gor'[j] = gor[j]
BY DEF Ends

\* A client for each of two chains, appended to the other one's list.
LEMMA AppendBoth ==
  ASSUME NEW S, NEW f \in [S -> Seq(S)], NEW a \in S, NEW b \in S, NEW g,
         g = [f EXCEPT ![a] = Append(@, b), ![b] = Append(@, a)]
  PROVE  /\ g \in [S -> Seq(S)]
         /\ \A d \in S \ {a, b} : g[d] = f[d]
         /\ a # b => g[a] = Append(f[a], b) /\ g[b] = Append(f[b], a)
<1>1. \A s \in Seq(S), x \in S : Append(s, x) \in Seq(S)  BY AppendProperties
<1> QED  BY <1>1

\* From the call of Build to the initialised chains.
LEMMA WireSteps ==
  ASSUME BuildInv,
         \/ Build \/ BuildAgain \/ StartInitialize
         \/ \E rp \in RelayerPaths : WireConsumer(rp)
  PROVE  BuildInv'
<1> USE LinksAssumption, ItemsAssumption
<1>1. CASE Build
  <2>1. phase = "declare" /\ phase' = "wire" /\ todo' = Declared(pcLinks) /\ skip' \in BOOLEAN
        /\ UNCHANGED <<declVars, wireVars, gor, up, wallets, faucet, genesis, relayVars>>
    BY <1>1 DEF Build
  <2>2. TypesOK' /\ DeclaredOK'
    BY <2>1 DEF BuildInv, TypesOK, DeclaredOK, declVars, wireVars, relayVars
  <2>3. WiredOK'
    BY <2>1 DEF BuildInv, WiredOK, Declared, declVars, wireVars
  <2>4. (FundedOK /\ WavesOK /\ PathsOK)'
    BY <2>1 DEF FundedOK, WavesOK, PathsOK
  <2>5. LinksOK'
    BY <2>1 DEF BuildInv, LinksOK
  <2> QED  BY <2>2, <2>3, <2>4, <2>5 DEF BuildInv
<1>2. CASE BuildAgain
  <2>1. Settled /\ phase' = "panicked" /\ phase \in {"built", "failed"} /\ DeclaredOK'
        /\ UNCHANGED <<gor, up, faucet, rpath, clients, chosen>>
    BY <1>2, SettledFacts DEF BuildAgain, Panic, Settled, declVars, wireVars, relayVars
  <2>2. TypesOK'  BY <2>1 DEF BuildInv, TypesOK, Settled
  <2>3. WiredOK'  BY <2>1, WiredStays
  <2>4. (FundedOK /\ WavesOK /\ PathsOK)'
    BY <2>1 DEF FundedOK, WavesOK, PathsOK
  <2>5. LinksOK'
    BY <2>1 DEF BuildInv, LinksOK
  <2> QED  BY <2>1, <2>2, <2>3, <2>4, <2>5 DEF BuildInv
<1>3. CASE StartInitialize
  <2>1. Settled /\ phase = "wire" /\ todo = {} /\ phase' = "initialize" /\ Spawn(chains) /\ DeclaredOK'
        /\ UNCHANGED <<up, faucet, rpath, clients, chosen>>
    BY <1>3, SettledFacts DEF StartInitialize, Settled, declVars, wireVars, relayVars
  <2>2. chains \subseteq Items /\ \A i \in LinkItems : i \in Items \ chains
    BY DEF BuildInv, TypesOK, Items
  <2>3. gor' \in [Items -> {"none", "run", "ok", "err"}] /\ \A i \in LinkItems : gor'[i] = "none"
    BY <2>1, <2>2, SpawnGives
  <2>4. TypesOK'  BY <2>1, <2>3 DEF BuildInv, TypesOK, Settled
  <2>5. WiredOK'  BY <2>1 DEF BuildInv, WiredOK, Settled
  <2>6. (FundedOK /\ WavesOK /\ PathsOK)'
    BY <2>1 DEF FundedOK, WavesOK, PathsOK
  <2>7. LinksOK'
    BY <2>1, <2>3 DEF LinksOK
  <2> QED  BY <2>1, <2>4, <2>5, <2>6, <2>7 DEF BuildInv
<1>4. CASE \E rp \in RelayerPaths : WireConsumer(rp)
  <2> PICK rp \in RelayerPaths : WireConsumer(rp)  BY <1>4
  <2> DEFINE p == pcLinks[rp][1]  c == pcLinks[rp][2]
  <2>1. /\ phase = "wire" /\ phase' = "wire" /\ rp \in todo /\ todo' = todo \ {rp}
        /\ provider' = [provider EXCEPT ![c] = p]
        /\ UNCHANGED <<declVars, skip, gor, up, wallets, faucet, genesis, relayVars>>
    BY DEF WireConsumer
  <2>2. pcLinks[rp] # None /\ pcLinks[rp] \in chains \X chains
    BY <2>1 DEF BuildInv, WiredOK, DeclaredOK, Declared
  <2>3. p \in Chains /\ c \in Chains /\ p # None /\ pcLinks[rp] = <<p, c>>
    BY <2>2 DEF BuildInv, TypesOK
  <2>4. TypesOK'  BY <2>1, <2>3 DEF BuildInv, TypesOK, declVars, relayVars
  <2>5. DeclaredOK'  BY <2>1 DEF BuildInv, DeclaredOK, declVars
  <2>6. WiredOK'
    <3>1. provider'[c] = p /\ \A d \in Chains : d # c => provider'[d] = provider[d]
      BY <2>1, <2>3 DEF BuildInv, TypesOK
    <3>2. UNCHANGED <<pcLinks, chains>>  BY <2>1 DEF declVars
    <3>3. \A d \in Chains : provider'[d] # None =>
            \E rq \in RelayerPaths : pcLinks[rq] # None /\ pcLinks[rq] = <<provider'[d], d>>
      BY <2>2, <2>3, <3>1 DEF BuildInv, WiredOK
    <3>4. \A rq \in RelayerPaths : rq \in todo' \/ pcLinks[rq] = None \/ provider'[pcLinks[rq][2]] # None
      <4> TAKE rq \in RelayerPaths
      <4>1. CASE rq \in todo' \/ pcLinks[rq] = None \/ rq = rp  BY <4>1, <2>3, <3>1
      <4>2. CASE rq \notin todo' /\ pcLinks[rq] # None /\ rq # rp
        <5>1. provider[pcLinks[rq][2]] # None /\ pcLinks[rq][2] \in Chains
          BY <4>2, <2>1 DEF BuildInv, WiredOK, DeclaredOK, TypesOK
        <5> QED  BY <5>1, <3>1, <2>3
      <4> QED  BY <4>1, <4>2
    <3>5. todo' \subseteq Declared(pcLinks)'  BY <2>1, <3>2 DEF BuildInv, WiredOK, Declared
    <3> QED  BY <2>1, <3>2, <3>3, <3>4, <3>5 DEF WiredOK
  <2>7. (FundedOK /\ WavesOK /\ PathsOK)'
    BY <2>1 DEF FundedOK, WavesOK, PathsOK
  <2>8. LinksOK'
    BY <2>1 DEF BuildInv, LinksOK
  <2> QED  BY <2>4, <2>5, <2>6, <2>7, <2>8 DEF BuildInv
<1> QED  BY <1>1, <1>2, <1>3, <1>4

\* From the initialised chains to the genesis accounts.
LEMMA AccountSteps ==
  ASSUME BuildInv,
         \/ \E c \in Chains : InitializeChain(c)
         \/ WaitInitialize
         \/ GenerateRelayerWallets
         \/ \E c \in Chains : CreateFaucet(c)
         \/ GenesisWalletAmounts
  PROVE  BuildInv'
<1> USE LinksAssumption, ItemsAssumption
<1>1. CASE \E c \in Chains : InitializeChain(c)
  <2> PICK c \in Chains : InitializeChain(c)  BY <1>1
  <2>1. Settled /\ DeclaredOK' /\ RelayerChains' = RelayerChains /\ FirstWave' = FirstWave
    BY SettledFacts DEF InitializeChain, Settled, declVars, wireVars
  <2>2. PICK result \in {"ok", "err"} : Ends(c, result)  BY DEF InitializeChain
  <2>3. c \in Items /\ Ends(c, result)  BY <2>2 DEF Items
  <2>4. /\ gor' \in [Items -> {"none", "run", "ok", "err"}] /\ gor'[c] = result
        /\ \A j \in Items : j # c => gor'[j] = gor[j]
    BY <2>3, EndsGives DEF BuildInv, TypesOK
  <2>5. \A i \in LinkItems : gor'[i] = gor[i] /\ i \in Items  BY <2>4 DEF Items
  <2>6. \A d \in Chains : d \in Items  BY DEF Items
  <2>7. TypesOK'
    BY <2>1, <2>2, <2>4 DEF BuildInv, InitializeChain, Settled, relayVars, TypesOK
  <2>8. WiredOK'  BY <2>1, WiredStays DEF InitializeChain, BuildInv, Wait
  <2>9. FundedOK'
    BY <2>1, <2>2, <2>4, <2>6 DEF BuildInv, InitializeChain, Settled, relayVars, FundedOK
  <2>10. WavesOK'
    BY <2>1, <2>2, <2>4, <2>6 DEF BuildInv, InitializeChain, Settled, relayVars, WavesOK, TypesOK
  <2>11. PathsOK'
    BY <2>1, <2>2 DEF BuildInv, InitializeChain, Settled, relayVars, PathsOK
  <2>12. LinksOK'
    BY <2>1, <2>2, <2>5 DEF BuildInv, InitializeChain, Settled, relayVars, LinksOK
  <2> QED  BY <2>1, <2>7, <2>8, <2>9, <2>10, <2>11, <2>12 DEF BuildInv
<1>2. CASE WaitInitialize
  <2>1. Settled /\ DeclaredOK' /\ RelayerChains' = RelayerChains /\ FirstWave' = FirstWave
    BY <1>2, SettledFacts DEF WaitInitialize, Settled, declVars, wireVars
  <2>2. TypesOK'
    BY <1>2, <2>1 DEF BuildInv, WaitInitialize, Settled, relayVars, TypesOK, Wait, AllEnded, SomeFailed
  <2>3. WiredOK'  BY <1>2, <2>1, WiredStays DEF WaitInitialize, BuildInv, Wait
  <2>4. FundedOK'
    BY <1>2, <2>1 DEF BuildInv, WaitInitialize, Settled, relayVars, FundedOK, Wait, AllEnded, SomeFailed
  <2>5. WavesOK'
    BY <1>2, <2>1 DEF BuildInv, WaitInitialize, Settled, relayVars, WavesOK, Wait, AllEnded, SomeFailed
  <2>6. PathsOK'
    BY <1>2, <2>1 DEF BuildInv, WaitInitialize, Settled, relayVars, PathsOK, Wait, AllEnded, SomeFailed
  <2>7. LinksOK'
    BY <1>2, <2>1 DEF BuildInv, WaitInitialize, Settled, relayVars, LinksOK, Wait, AllEnded, SomeFailed
  <2> QED  BY <2>1, <2>2, <2>3, <2>4, <2>5, <2>6, <2>7 DEF BuildInv
<1>3. CASE GenerateRelayerWallets
  <2>1. Settled /\ DeclaredOK' /\ RelayerChains' = RelayerChains /\ FirstWave' = FirstWave
    BY <1>3, SettledFacts DEF GenerateRelayerWallets, Settled, declVars, wireVars
  <2>2. chains \subseteq Items /\ \A i \in LinkItems : i \in Items \ (chains)
    BY DEF BuildInv, TypesOK, Items, FirstWave
  <2>3. phase' # "failed" =>
          /\ gor' \in [Items -> {"none", "run", "ok", "err"}]
          /\ \A i \in LinkItems : gor'[i] = "none"
          /\ \A i \in chains : gor'[i] = "run"
          /\ \A i \in Items \ (chains) : gor'[i] = "none"
    BY <1>3, <2>2, SpawnGives DEF GenerateRelayerWallets, Wait
  <2>4. \A i \in Chains \cup LinkItems : i \in Items  BY DEF Items
  <2>5. TypesOK'
    BY <1>3, <2>1, <2>2, <2>3, <2>4 DEF BuildInv, GenerateRelayerWallets, Settled, relayVars, TypesOK
  <2>6. WiredOK'  BY <1>3, <2>1, WiredStays DEF GenerateRelayerWallets, BuildInv, Wait
  <2>7. FundedOK'
    <3>1. CASE phase' = "failed"  BY <3>1 DEF FundedOK
    <3>2. CASE phase' # "failed"
      <4>1. phase' = "faucet" /\ wallets' = RelayerChains  BY <1>3, <3>2 DEF GenerateRelayerWallets
      <4>2. \A c \in chains' : gor'[c] = "run"  BY <2>1, <2>3, <3>2 DEF Settled
      <4> QED  BY <2>1, <4>1, <4>2 DEF FundedOK
    <3> QED  BY <3>1, <3>2
  <2>8. WavesOK'
    BY <1>3, <2>1, <2>2 DEF BuildInv, GenerateRelayerWallets, Settled, relayVars, WavesOK
  <2>9. PathsOK'
    BY <1>3, <2>1, <2>2 DEF BuildInv, GenerateRelayerWallets, Settled, relayVars, PathsOK
  <2>10. LinksOK'
    BY <1>3, <2>1, <2>2, <2>3, <2>4 DEF BuildInv, GenerateRelayerWallets, Settled, relayVars, LinksOK
  <2> QED  BY <2>1, <2>5, <2>6, <2>7, <2>8, <2>9, <2>10 DEF BuildInv
<1>4. CASE \E c \in Chains : CreateFaucet(c)
  <2> PICK c \in Chains : CreateFaucet(c)  BY <1>4
  <2>1. Settled /\ DeclaredOK' /\ RelayerChains' = RelayerChains /\ FirstWave' = FirstWave
    BY SettledFacts DEF CreateFaucet, Settled, declVars, wireVars
  <2>2. PICK result \in {"ok", "err"} : Ends(c, result)  BY DEF CreateFaucet
  <2>3. c \in Items /\ Ends(c, result)  BY <2>2 DEF Items
  <2>4. /\ gor' \in [Items -> {"none", "run", "ok", "err"}] /\ gor'[c] = result
        /\ \A j \in Items : j # c => gor'[j] = gor[j]
    BY <2>3, EndsGives DEF BuildInv, TypesOK
  <2>5. \A i \in LinkItems : gor'[i] = gor[i] /\ i \in Items  BY <2>4 DEF Items
  <2>6. \A d \in Chains : d \in Items  BY DEF Items
  <2>7. TypesOK'
    BY <2>1, <2>2, <2>4 DEF BuildInv, CreateFaucet, Settled, relayVars, TypesOK
  <2>8. WiredOK'  BY <2>1, WiredStays DEF CreateFaucet, BuildInv, Wait
  <2>9. FundedOK'
    <3>1. /\ phase' = phase /\ phase = "faucet" /\ UNCHANGED wallets /\ chains' = chains
          /\ faucet' \in {faucet, faucet \cup {c}} /\ gor'[c] = "ok" => c \in faucet'
      BY <2>4, <2>1 DEF CreateFaucet, Ends, Settled, BuildInv, TypesOK
    <3>2. \A d \in chains : gor'[d] # "none" /\ (gor'[d] = "ok" => d \in faucet')
      BY <3>1, <2>4, <2>2, <2>6 DEF BuildInv, FundedOK, TypesOK, CreateFaucet
    <3> QED  BY <2>1, <3>1, <3>2 DEF BuildInv, FundedOK
  <2>10. WavesOK'
    BY <2>1, <2>2, <2>4, <2>6 DEF BuildInv, CreateFaucet, Settled, relayVars, WavesOK, TypesOK
  <2>11. PathsOK'
    BY <2>1, <2>2 DEF BuildInv, CreateFaucet, Settled, relayVars, PathsOK
  <2>12. LinksOK'
    BY <2>1, <2>2, <2>5 DEF BuildInv, CreateFaucet, Settled, relayVars, LinksOK
  <2> QED  BY <2>1, <2>7, <2>8, <2>9, <2>10, <2>11, <2>12 DEF BuildInv
<1>5. CASE GenesisWalletAmounts
  <2>1. Settled /\ DeclaredOK' /\ RelayerChains' = RelayerChains /\ FirstWave' = FirstWave
    BY <1>5, SettledFacts DEF GenesisWalletAmounts, Settled, declVars, wireVars
  <2>2. FirstWave \subseteq Items /\ \A i \in LinkItems : i \in Items \ (FirstWave)
    BY DEF BuildInv, TypesOK, Items, FirstWave
  <2>3. phase' # "failed" =>
          /\ gor' \in [Items -> {"none", "run", "ok", "err"}]
          /\ \A i \in LinkItems : gor'[i] = "none"
          /\ \A i \in FirstWave : gor'[i] = "run"
          /\ \A i \in Items \ (FirstWave) : gor'[i] = "none"
    BY <1>5, <2>2, SpawnGives DEF GenesisWalletAmounts, Wait
  <2>4. \A i \in Chains \cup LinkItems : i \in Items  BY DEF Items
  <2>5. TypesOK'
    BY <1>5, <2>1, <2>2, <2>3 DEF BuildInv, GenesisWalletAmounts, Settled, relayVars, TypesOK, Wait,
        AllEnded, SomeFailed
  <2>6. WiredOK'  BY <1>5, <2>1, WiredStays DEF GenesisWalletAmounts, BuildInv, Wait
  <2>7. FundedOK'
    <3>1. CASE SomeFailed  BY <1>5, <3>1 DEF GenesisWalletAmounts, Wait, FundedOK
    <3>2. CASE ~SomeFailed
      <4>1. /\ phase = "faucet" /\ phase' = "start" /\ UNCHANGED <<wallets, faucet>> /\ AllEnded
            /\ genesis' = [c \in Chains |-> (faucet \cap {c}) \cup {w[1] : w \in {v \in wallets : v[2] = c}}]
        BY <1>5, <3>2 DEF GenesisWalletAmounts, Wait
      <4>2. \A c \in chains : c \in Chains /\ c \in faucet
        BY <4>1, <3>2, <2>4 DEF BuildInv, FundedOK, TypesOK, AllEnded, SomeFailed
      <4>3. \A c \in chains : c \in genesis'[c]  BY <4>1, <4>2
      <4>4. \A rc \in RelayerChains : rc \in wallets /\ rc[2] \in Chains
        BY <4>1, RelayerChainsAdded DEF BuildInv, FundedOK, TypesOK
      <4>5. \A rc \in RelayerChains : rc[1] \in genesis'[rc[2]]  BY <4>1, <4>4
      <4> QED  BY <2>1, <4>1, <4>3, <4>5 DEF BuildInv, FundedOK, Settled
    <3> QED  BY <3>1, <3>2
  <2>8. WavesOK'
    <3>1. phase' \in {"failed", "start"}  BY <1>5 DEF GenesisWalletAmounts, Wait
    <3>2. phase' # "failed" => \A c \in FirstWave' : gor'[c] = "run"  BY <2>1, <2>3
    <3> QED  BY <3>1, <3>2 DEF WavesOK
  <2>9. PathsOK'
    BY <1>5, <2>1, <2>2 DEF BuildInv, GenesisWalletAmounts, Settled, relayVars, PathsOK, Wait, AllEnded,
        SomeFailed
  <2>10. LinksOK'
    BY <1>5, <2>1, <2>2, <2>3 DEF BuildInv, GenesisWalletAmounts, Settled, relayVars, LinksOK, Wait,
        AllEnded, SomeFailed
  <2> QED  BY <2>1, <2>5, <2>6, <2>7, <2>8, <2>9, <2>10 DEF BuildInv
<1> QED  BY <1>1, <1>2, <1>3, <1>4, <1>5

\* The two waves of starts, and what follows them.
LEMMA StartSteps ==
  ASSUME BuildInv,
         \/ \E c \in Chains : StartChain(c)
         \/ WaitProviders
         \/ \E c \in Chains : StartConsumer(c)
         \/ WaitConsumers
         \/ TrackBlocks
  PROVE  BuildInv'
<1> USE LinksAssumption, ItemsAssumption
<1>1. CASE \E c \in Chains : StartChain(c)
  <2> PICK c \in Chains : StartChain(c)  BY <1>1
  <2>1. Settled /\ DeclaredOK' /\ RelayerChains' = RelayerChains /\ FirstWave' = FirstWave
    BY SettledFacts DEF StartChain, Settled, declVars, wireVars
  <2>2. PICK result \in {"ok", "err"} : Ends(c, result)  BY DEF StartChain
  <2>3. c \in Items /\ Ends(c, result)  BY <2>2 DEF Items
  <2>4. /\ gor' \in [Items -> {"none", "run", "ok", "err"}] /\ gor'[c] = result
        /\ \A j \in Items : j # c => gor'[j] = gor[j]
    BY <2>3, EndsGives DEF BuildInv, TypesOK
  <2>5. \A i \in LinkItems : gor'[i] = gor[i] /\ i \in Items  BY <2>4 DEF Items
  <2>6. \A d \in Chains : d \in Items  BY DEF Items
  <2>7. TypesOK'
    BY <2>1, <2>2, <2>4 DEF BuildInv, StartChain, Settled, relayVars, TypesOK
  <2>8. WiredOK'  BY <2>1, WiredStays DEF StartChain, BuildInv, Wait
  <2>9. FundedOK'
    BY <2>1, <2>2, <2>4, <2>6 DEF BuildInv, StartChain, Settled, relayVars, FundedOK
  <2>10. WavesOK'
    <3>1. /\ phase' = phase /\ phase = "start" /\ chains' = chains
          /\ \A d \in Chains : d # c => up'[d] = up[d]
          /\ up[c] = "running" => up'[c] = "running"
          /\ gor'[c] = "ok" => up'[c] = "running"
      BY <2>4, <2>1, <2>6 DEF StartChain, Ends, Settled, BuildInv, TypesOK
    <3>2. \A d \in chains : d \in Chains  BY DEF BuildInv, TypesOK
    <3>3. \A d \in Chains : gor[d] # "none" => gor'[d] # "none" /\ (up[d] = "running" => up'[d] = "running")
      BY <3>1, <2>4, <2>6
    <3>4. \A d \in Chains : (gor[d] = "ok" => up[d] = "running") => (gor'[d] = "ok" => up'[d] = "running")
      BY <3>1, <2>4, <2>6
    <3>5. gor[c] = "run"  BY DEF StartChain
    <3> QED  BY <2>1, <3>1, <3>2, <3>3, <3>4, <3>5, <2>4, <2>6 DEF BuildInv, WavesOK, FirstWave
  <2>11. PathsOK'
    BY <2>1, <2>2 DEF BuildInv, StartChain, Settled, relayVars, PathsOK
  <2>12. LinksOK'
    BY <2>1, <2>2, <2>5 DEF BuildInv, StartChain, Settled, relayVars, LinksOK
  <2> QED  BY <2>1, <2>7, <2>8, <2>9, <2>10, <2>11, <2>12 DEF BuildInv
<1>2. CASE WaitProviders
  <2>1. Settled /\ DeclaredOK' /\ RelayerChains' = RelayerChains /\ FirstWave' = FirstWave
    BY <1>2, SettledFacts DEF WaitProviders, Settled, declVars, wireVars
  <2>2. (chains \ FirstWave) \subseteq Items /\ \A i \in LinkItems : i \in Items \ (chains \ FirstWave)
    BY DEF BuildInv, TypesOK, Items, FirstWave
  <2>3. phase' # "failed" =>
          /\ gor' \in [Items -> {"none", "run", "ok", "err"}]
          /\ \A i \in LinkItems : gor'[i] = "none"
          /\ \A i \in (chains \ FirstWave) : gor'[i] = "run"
          /\ \A i \in Items \ (chains \ FirstWave) : gor'[i] = "none"
    BY <1>2, <2>2, SpawnGives DEF WaitProviders, Wait
  <2>4. \A i \in Chains \cup LinkItems : i \in Items  BY DEF Items
  <2>5. TypesOK'
    BY <1>2, <2>1, <2>2, <2>3 DEF BuildInv, WaitProviders, Settled, relayVars, TypesOK, Wait, AllEnded,
        SomeFailed
  <2>6. WiredOK'  BY <1>2, <2>1, WiredStays DEF WaitProviders, BuildInv, Wait
  <2>7. FundedOK'
    BY <1>2, <2>1, <2>2 DEF BuildInv, WaitProviders, Settled, relayVars, FundedOK, Wait, AllEnded,
        SomeFailed
  <2>8. WavesOK'
    <3>1. CASE SomeFailed  BY <1>2, <3>1 DEF WaitProviders, Wait, WavesOK
    <3>2. CASE ~SomeFailed
      <4>1. phase = "start" /\ phase' = "startConsumers" /\ UNCHANGED up /\ AllEnded
        BY <1>2, <3>2 DEF WaitProviders, Wait
      <4>2. \A c \in FirstWave : c \in Items  BY DEF FirstWave, BuildInv, TypesOK, Items
      <4>3. \A c \in FirstWave : up[c] = "running"
        BY <4>1, <4>2, <3>2 DEF BuildInv, WavesOK, TypesOK, AllEnded, SomeFailed
      <4>4. \A c \in Chains : IF c \in chains \ FirstWave THEN gor'[c] = "run" ELSE gor'[c] = "none"
        BY <4>1, <2>3, <2>4
      <4>5. \A c \in chains : c \in Chains  BY DEF BuildInv, TypesOK
      <4> QED  BY <2>1, <4>1, <4>3, <4>4, <4>5 DEF WavesOK, Settled
    <3> QED  BY <3>1, <3>2
  <2>9. PathsOK'
    BY <1>2, <2>1, <2>2 DEF BuildInv, WaitProviders, Settled, relayVars, PathsOK, Wait, AllEnded, SomeFailed
  <2>10. LinksOK'
    BY <1>2, <2>1, <2>2, <2>3 DEF BuildInv, WaitProviders, Settled, relayVars, LinksOK, Wait, AllEnded,
        SomeFailed
  <2> QED  BY <2>1, <2>5, <2>6, <2>7, <2>8, <2>9, <2>10 DEF BuildInv
<1>3. CASE \E c \in Chains : StartConsumer(c)
  <2> PICK c \in Chains : StartConsumer(c)  BY <1>3
  <2>1. Settled /\ DeclaredOK' /\ RelayerChains' = RelayerChains /\ FirstWave' = FirstWave
    BY SettledFacts DEF StartConsumer, Settled, declVars, wireVars
  <2>2. PICK result \in {"ok", "err"} : Ends(c, result)  BY DEF StartConsumer
  <2>3. c \in Items /\ Ends(c, result)  BY <2>2 DEF Items
  <2>4. /\ gor' \in [Items -> {"none", "run", "ok", "err"}] /\ gor'[c] = result
        /\ \A j \in Items : j # c => gor'[j] = gor[j]
    BY <2>3, EndsGives DEF BuildInv, TypesOK
  <2>5. \A i \in LinkItems : gor'[i] = gor[i] /\ i \in Items  BY <2>4 DEF Items
  <2>6. \A d \in Chains : d \in Items  BY DEF Items
  <2>7. TypesOK'
    <3>1. phase = "startConsumers" /\ phase' = phase /\ gor[c] = "run" /\ UNCHANGED <<faucet, rpath, chosen>>
      BY DEF StartConsumer
    <3>2. provider[c] \in Chains
      BY <3>1 DEF BuildInv, WavesOK, FirstWave, TypesOK
    <3>3. up' \in [Chains -> {"new", "initialized", "running"}]
      BY DEF StartConsumer, BuildInv, TypesOK
    <3>4. clients' \in [Chains -> Seq(Chains)]
      <4>1. CASE UNCHANGED clients  BY <4>1 DEF BuildInv, TypesOK
      <4>2. CASE clients' = [clients EXCEPT ![c] = Append(@, provider[c]), ![provider[c]] = Append(@, c)]
        BY <3>2, <4>2, AppendBoth DEF BuildInv, TypesOK
      <4> QED  BY <4>1, <4>2 DEF StartConsumer
    <3> QED  BY <2>1, <2>4, <3>1, <3>3, <3>4 DEF BuildInv, TypesOK, Settled
  <2>8. WiredOK'  BY <2>1, WiredStays DEF StartConsumer, BuildInv, Wait
  <2>9. FundedOK'
    BY <2>1, <2>2, <2>4, <2>6 DEF BuildInv, StartConsumer, Settled, relayVars, FundedOK
  <2>10. WavesOK'
    <3>1. /\ phase' = phase /\ phase = "startConsumers" /\ chains' = chains
          /\ \A d \in Chains : d # c => up'[d] = up[d]
          /\ up[c] = "running" => up'[c] = "running"
          /\ gor'[c] = "ok" => up'[c] = "running"
      BY <2>4, <2>1, <2>6 DEF StartConsumer, Ends, Settled, BuildInv, TypesOK
    <3>2. \A d \in chains : d \in Chains  BY DEF BuildInv, TypesOK
    <3>3. \A d \in Chains : gor[d] # "none" => gor'[d] # "none" /\ (up[d] = "running" => up'[d] = "running")
      BY <3>1, <2>4, <2>6
    <3>4. \A d \in Chains : (gor[d] = "ok" => up[d] = "running") => (gor'[d] = "ok" => up'[d] = "running")
      BY <3>1, <2>4, <2>6
    <3>5. gor[c] = "run"  BY DEF StartConsumer
    <3> QED  BY <2>1, <3>1, <3>2, <3>3, <3>4, <3>5, <2>4, <2>6 DEF BuildInv, WavesOK, FirstWave
  <2>11. PathsOK'
    BY <2>1, <2>2 DEF BuildInv, StartConsumer, Settled, relayVars, PathsOK
  <2>12. LinksOK'
    BY <2>1, <2>2, <2>5 DEF BuildInv, StartConsumer, Settled, relayVars, LinksOK
  <2> QED  BY <2>1, <2>7, <2>8, <2>9, <2>10, <2>11, <2>12 DEF BuildInv
<1>4. CASE WaitConsumers
  <2>1. Settled /\ DeclaredOK' /\ RelayerChains' = RelayerChains /\ FirstWave' = FirstWave
    BY <1>4, SettledFacts DEF WaitConsumers, Settled, declVars, wireVars
  <2>2. TypesOK'
    BY <1>4, <2>1 DEF BuildInv, WaitConsumers, Settled, relayVars, TypesOK, Wait, AllEnded, SomeFailed
  <2>3. WiredOK'  BY <1>4, <2>1, WiredStays DEF WaitConsumers, BuildInv, Wait
  <2>4. FundedOK'
    BY <1>4, <2>1 DEF BuildInv, WaitConsumers, Settled, relayVars, FundedOK, Wait, AllEnded, SomeFailed
  <2>5. WavesOK'
    <3>1. CASE SomeFailed  BY <1>4, <3>1 DEF WaitConsumers, Wait, WavesOK
    <3>2. CASE ~SomeFailed
      <4>1. phase = "startConsumers" /\ phase' = "track" /\ UNCHANGED up /\ AllEnded
        BY <1>4, <3>2 DEF WaitConsumers, Wait
      <4>2. \A c \in chains : c \in Items  BY DEF BuildInv, TypesOK, Items
      <4>3. \A c \in chains : up[c] = "running"
        BY <4>1, <4>2, <3>2 DEF BuildInv, WavesOK, TypesOK, AllEnded, SomeFailed, FirstWave
      <4> QED  BY <2>1, <4>1, <4>3 DEF WavesOK, Settled
    <3> QED  BY <3>1, <3>2
  <2>6. PathsOK'
    BY <1>4, <2>1 DEF BuildInv, WaitConsumers, Settled, relayVars, PathsOK, Wait, AllEnded, SomeFailed
  <2>7. LinksOK'
    BY <1>4, <2>1 DEF BuildInv, WaitConsumers, Settled, relayVars, LinksOK, Wait, AllEnded, SomeFailed
  <2> QED  BY <2>1, <2>2, <2>3, <2>4, <2>5, <2>6, <2>7 DEF BuildInv
<1>5. CASE TrackBlocks
  <2>1. Settled /\ DeclaredOK' /\ RelayerChains' = RelayerChains /\ FirstWave' = FirstWave
    BY <1>5, SettledFacts DEF TrackBlocks, Settled, declVars, wireVars
  <2>2. TypesOK'
    BY <1>5, <2>1 DEF BuildInv, TrackBlocks, Settled, relayVars, TypesOK
  <2>3. WiredOK'  BY <1>5, <2>1, WiredStays DEF TrackBlocks, BuildInv, Wait
  <2>4. FundedOK'
    BY <1>5, <2>1 DEF BuildInv, TrackBlocks, Settled, relayVars, FundedOK
  <2>5. WavesOK'
    BY <1>5, <2>1 DEF BuildInv, TrackBlocks, Settled, relayVars, WavesOK
  <2>6. PathsOK'
    BY <1>5, <2>1 DEF BuildInv, TrackBlocks, Settled, relayVars, PathsOK
  <2>7. LinksOK'
    BY <1>5, <2>1 DEF BuildInv, TrackBlocks, Settled, relayVars, LinksOK
  <2> QED  BY <2>1, <2>2, <2>3, <2>4, <2>5, <2>6, <2>7 DEF BuildInv
<1> QED  BY <1>1, <1>2, <1>3, <1>4, <1>5

\* The relayers' keys and paths.
LEMMA PathSteps ==
  ASSUME BuildInv,
         \/ \E rc \in Relayers \X Chains : ConfigureRelayerKey(rc)
         \/ KeysDone
         \/ \E i \in LinkItems : GeneratePath(i)
         \/ LinksGenerated
         \/ PCLinksGenerated
  PROVE  BuildInv'
<1> USE LinksAssumption, ItemsAssumption
<1>1. CASE \E rc \in Relayers \X Chains : ConfigureRelayerKey(rc)
  <2> PICK rc \in Relayers \X Chains : ConfigureRelayerKey(rc)  BY <1>1
  <2>1. Settled /\ DeclaredOK' /\ RelayerChains' = RelayerChains /\ FirstWave' = FirstWave
    BY SettledFacts DEF ConfigureRelayerKey, Settled, declVars, wireVars
  <2>2. TypesOK'
    BY <2>1 DEF BuildInv, ConfigureRelayerKey, Settled, relayVars, TypesOK
  <2>3. WiredOK'  BY <2>1, WiredStays DEF ConfigureRelayerKey, BuildInv, Wait
  <2>4. FundedOK'
    BY <2>1 DEF BuildInv, ConfigureRelayerKey, Settled, relayVars, FundedOK
  <2>5. WavesOK'
    BY <2>1 DEF BuildInv, ConfigureRelayerKey, Settled, relayVars, WavesOK
  <2>6. PathsOK'
    BY <2>1 DEF BuildInv, ConfigureRelayerKey, Settled, relayVars, PathsOK
  <2>7. LinksOK'
    BY <2>1 DEF BuildInv, ConfigureRelayerKey, Settled, relayVars, LinksOK
  <2> QED  BY <2>1, <2>2, <2>3, <2>4, <2>5, <2>6, <2>7 DEF BuildInv
<1>2. CASE KeysDone
  <2>1. Settled /\ DeclaredOK' /\ RelayerChains' = RelayerChains /\ FirstWave' = FirstWave
    BY <1>2, SettledFacts DEF KeysDone, Settled, declVars, wireVars
  <2>2. TypesOK'
    BY <1>2, <2>1 DEF BuildInv, KeysDone, Settled, relayVars, TypesOK
  <2>3. WiredOK'  BY <1>2, <2>1, WiredStays DEF KeysDone, BuildInv, Wait
  <2>4. FundedOK'
    BY <1>2, <2>1 DEF BuildInv, KeysDone, Settled, relayVars, FundedOK
  <2>5. WavesOK'
    BY <1>2, <2>1 DEF BuildInv, KeysDone, Settled, relayVars, WavesOK
  <2>6. PathsOK'
    BY <1>2, <2>1 DEF BuildInv, KeysDone, Settled, relayVars, PathsOK, Served, Declared
  <2>7. LinksOK'
    BY <1>2, <2>1 DEF BuildInv, KeysDone, Settled, relayVars, LinksOK
  <2> QED  BY <2>1, <2>2, <2>3, <2>4, <2>5, <2>6, <2>7 DEF BuildInv
<1>3. CASE \E i \in LinkItems : GeneratePath(i)
  <2> PICK i \in LinkItems : GeneratePath(i)  BY <1>3
  <2>1. Settled /\ DeclaredOK' /\ RelayerChains' = RelayerChains /\ FirstWave' = FirstWave
    BY SettledFacts DEF GeneratePath, Settled, declVars, wireVars
  <2>2. TypesOK'
    BY <2>1 DEF BuildInv, GeneratePath, Settled, relayVars, TypesOK
  <2>3. WiredOK'  BY <2>1, WiredStays DEF GeneratePath, BuildInv, Wait
  <2>4. FundedOK'
    BY <2>1 DEF BuildInv, GeneratePath, Settled, relayVars, FundedOK
  <2>5. WavesOK'
    BY <2>1 DEF BuildInv, GeneratePath, Settled, relayVars, WavesOK
  <2>6. PathsOK'
    <3>1. CASE phase' = "failed"  BY <3>1 DEF PathsOK
    <3>2. CASE phase' # "failed"
      <4>1. /\ rpath' = [rpath EXCEPT ![i[2]] = PathOf(i)] /\ todo' = todo \ {i} /\ i \in todo
            /\ phase' = phase /\ phase \in {"paths", "pcPaths"} /\ UNCHANGED <<configured, keyed>>
        BY <3>2 DEF GeneratePath
      <4>2. PICK rp \in RelayerPaths : i \in {<<"link", rp>>, <<"pc", rp>>}  BY DEF LinkItems
      <4>3. \/ i = <<"link", rp>> /\ phase = "paths" /\ links[rp] # None /\ PathOf(i) = links[rp]
            \/ i = <<"pc", rp>> /\ phase = "pcPaths" /\ pcLinks[rp] # None
               /\ PathOf(i) = <<pcLinks[rp][2], pcLinks[rp][1]>>
        BY <4>1, <4>2 DEF BuildInv, PathsOK, PathOf, Declared
      <4>4. \A e \in 1..2 : <<rp[1], PathOf(i)[e]>> \in RelayerChains
        <5>1. 1 \in 1..2 /\ 2 \in 1..2  OBVIOUS
        <5>2. CASE i = <<"link", rp>>  BY <5>2, <4>3, RelayerChainsAre
        <5>3. CASE i = <<"pc", rp>>
          <6>1. PathOf(i) = <<pcLinks[rp][2], pcLinks[rp][1]>> /\ pcLinks[rp] # None  BY <5>3, <4>3
          <6>2. <<rp[1], pcLinks[rp][2]>> \in RelayerChains /\ <<rp[1], pcLinks[rp][1]>> \in RelayerChains
            BY <6>1, <5>1, RelayerChainsAre
          <6> QED  BY <6>1, <6>2
        <5> QED  BY <4>2, <5>2, <5>3
      <4>5. rpath'[rp] = PathOf(i) /\ \A rq \in RelayerPaths : rq # rp => rpath'[rq] = rpath[rq]
        BY <4>1, <4>3 DEF BuildInv, TypesOK
      <4>6. Served(rp)' /\ \A rq \in RelayerPaths : Served(rq) => Served(rq)'
        <5>1. PathOf(i)[1] # PathOf(i)[2]  BY <4>3 DEF BuildInv, DeclaredOK
        <5> QED  BY <2>1, <4>4, <4>5, <5>1 DEF Served
      <4>7. \A rq \in RelayerPaths : rq # rp =>
              /\ <<"link", rq>> \in todo => <<"link", rq>> \in todo'
              /\ <<"pc", rq>> \in todo => <<"pc", rq>> \in todo'
        BY <4>1, <4>3
      <4> QED  BY <2>1, <4>1, <4>6, <4>7 DEF BuildInv, PathsOK, Settled, Declared
    <3> QED  BY <3>1, <3>2
  <2>7. LinksOK'
    BY <2>1 DEF BuildInv, GeneratePath, Settled, relayVars, LinksOK
  <2> QED  BY <2>1, <2>2, <2>3, <2>4, <2>5, <2>6, <2>7 DEF BuildInv
<1>4. CASE LinksGenerated
  <2>1. Settled /\ DeclaredOK' /\ RelayerChains' = RelayerChains /\ FirstWave' = FirstWave
    BY <1>4, SettledFacts DEF LinksGenerated, Settled, declVars, wireVars
  <2>2. TypesOK'
    BY <1>4, <2>1 DEF BuildInv, LinksGenerated, Settled, relayVars, TypesOK
  <2>3. WiredOK'  BY <1>4, <2>1, WiredStays DEF LinksGenerated, BuildInv, Wait
  <2>4. FundedOK'
    BY <1>4, <2>1 DEF BuildInv, LinksGenerated, Settled, relayVars, FundedOK
  <2>5. WavesOK'
    BY <1>4, <2>1 DEF BuildInv, LinksGenerated, Settled, relayVars, WavesOK
  <2>6. PathsOK'
    BY <1>4, <2>1 DEF BuildInv, LinksGenerated, Settled, relayVars, PathsOK, Served, Declared
  <2>7. LinksOK'
    BY <1>4, <2>1 DEF BuildInv, LinksGenerated, Settled, relayVars, LinksOK
  <2> QED  BY <2>1, <2>2, <2>3, <2>4, <2>5, <2>6, <2>7 DEF BuildInv
<1>5. CASE PCLinksGenerated
  <2>1. Settled /\ DeclaredOK' /\ RelayerChains' = RelayerChains /\ FirstWave' = FirstWave
    BY <1>5, SettledFacts DEF PCLinksGenerated, Settled, declVars, wireVars
  <2>2. /\ ({"pc"} \X Declared(pcLinks)) \cup ({"link"} \X Declared(links)) \subseteq LinkItems
        /\ LinkItems \subseteq Items
    BY DEF LinkItems, Declared, Items
  <2>3. /\ gor' \in [Items -> {"none", "run", "ok", "err"}]
        /\ \A i \in ({"pc"} \X Declared(pcLinks)) \cup ({"link"} \X Declared(links)) : gor'[i] = "run"
        /\ \A i \in Items \ (({"pc"} \X Declared(pcLinks)) \cup ({"link"} \X Declared(links))) : gor'[i] = "none"
    BY <1>5, <2>2, SpawnGives DEF PCLinksGenerated
  <2>4. TypesOK'
    BY <1>5, <2>1, <2>2, <2>3 DEF BuildInv, PCLinksGenerated, Settled, relayVars, TypesOK
  <2>5. WiredOK'  BY <1>5, <2>1, WiredStays DEF PCLinksGenerated, BuildInv, Wait
  <2>6. FundedOK'
    BY <1>5, <2>1, <2>2 DEF BuildInv, PCLinksGenerated, Settled, relayVars, FundedOK
  <2>7. WavesOK'
    BY <1>5, <2>1, <2>2 DEF BuildInv, PCLinksGenerated, Settled, relayVars, WavesOK
  <2>8. PathsOK'
    BY <1>5, <2>1, <2>2 DEF BuildInv, PCLinksGenerated, Settled, relayVars, PathsOK, Served
  <2>9. LinksOK'
    BY <1>5, <2>1, <2>2, <2>3 DEF BuildInv, PCLinksGenerated, Settled, relayVars, LinksOK, Declared,
        LinkItems, RelayerPaths
  <2> QED  BY <2>1, <2>4, <2>5, <2>6, <2>7, <2>8, <2>9 DEF BuildInv
<1> QED  BY <1>1, <1>2, <1>3, <1>4, <1>5

\* The goroutines that link the paths.
LEMMA LinkSteps ==
  ASSUME BuildInv,
         \/ \E rp \in RelayerPaths : ChooseClients(rp)
         \/ \E rp \in RelayerPaths : LinkPCPath(rp)
         \/ \E rp \in RelayerPaths : LinkPath(rp)
         \/ WaitLinks
  PROVE  BuildInv'
<1> USE LinksAssumption, ItemsAssumption
<1>1. CASE \E rp \in RelayerPaths : ChooseClients(rp)
  <2> PICK rp \in RelayerPaths : ChooseClients(rp)  BY <1>1
  <2>1. Settled /\ DeclaredOK' /\ RelayerChains' = RelayerChains /\ FirstWave' = FirstWave
    BY SettledFacts DEF ChooseClients, Settled, declVars, wireVars
  <2>2. /\ <<"pc", rp>> \in LinkItems /\ phase = "linking" /\ phase' = phase
        /\ \E result \in {"ok", "err"} : Ends(<<"pc", rp>>, result) \/ UNCHANGED gor
    BY DEF ChooseClients, LinkItems
  <2>3. /\ gor' \in [Items -> {"none", "run", "ok", "err"}]
        /\ \A i \in LinkItems : gor'[i] = "run" => gor[i] = "run"
        /\ \A i \in LinkItems : gor'[i] = "none" <=> gor[i] = "none"
    <3>1. CASE gor' = gor  BY <3>1 DEF BuildInv, TypesOK
    <3>2. CASE gor' # gor
      <4>1. PICK result \in {"ok", "err"} : Ends(<<"pc", rp>>, result)  BY <2>2, <3>2
      <4>2. <<"pc", rp>> \in Items /\ gor[<<"pc", rp>>] = "run"  BY <2>2 DEF Items, ChooseClients
      <4>3. \A i \in LinkItems : i \in Items  BY DEF Items
      <4> QED  BY <4>1, <4>2, <4>3, EndsGives DEF BuildInv, TypesOK
    <3> QED  BY <3>1, <3>2
  <2>4. UNCHANGED rpath  BY DEF ChooseClients, relayVars
  <2>5. TypesOK'
    BY <2>1, <2>2, <2>3, <2>4 DEF BuildInv, ChooseClients, Settled, relayVars, TypesOK
  <2>6. WiredOK'  BY <2>1, WiredStays DEF ChooseClients, BuildInv, Wait
  <2>7. FundedOK'
    BY <2>1, <2>2 DEF BuildInv, ChooseClients, Settled, relayVars, FundedOK
  <2>8. WavesOK'
    BY <2>1, <2>2 DEF BuildInv, ChooseClients, Settled, relayVars, WavesOK
  <2>9. PathsOK'
    BY <2>1, <2>2, <2>3, <2>4 DEF BuildInv, ChooseClients, Settled, relayVars, PathsOK, Served
  <2>10. LinksOK'
    BY <2>1, <2>2, <2>3 DEF BuildInv, ChooseClients, Settled, relayVars, LinksOK, LinkItems
  <2> QED  BY <2>1, <2>5, <2>6, <2>7, <2>8, <2>9, <2>10 DEF BuildInv
<1>2. CASE \E rp \in RelayerPaths : LinkPCPath(rp)
  <2> PICK rp \in RelayerPaths : LinkPCPath(rp)  BY <1>2
  <2>1. Settled /\ DeclaredOK' /\ RelayerChains' = RelayerChains /\ FirstWave' = FirstWave
    BY SettledFacts DEF LinkPCPath, Settled, declVars, wireVars
  <2>2. /\ <<"pc", rp>> \in LinkItems /\ phase = "linking" /\ phase' = phase
        /\ \E result \in {"ok", "err"} : Ends(<<"pc", rp>>, result)
    BY DEF LinkPCPath, LinkItems
  <2>3. /\ gor' \in [Items -> {"none", "run", "ok", "err"}]
        /\ \A i \in LinkItems : gor'[i] = "run" => gor[i] = "run"
        /\ \A i \in LinkItems : gor'[i] = "none" <=> gor[i] = "none"
    <3>1. CASE gor' = gor  BY <3>1 DEF BuildInv, TypesOK
    <3>2. CASE gor' # gor
      <4>1. PICK result \in {"ok", "err"} : Ends(<<"pc", rp>>, result)  BY <2>2, <3>2
      <4>2. <<"pc", rp>> \in Items /\ gor[<<"pc", rp>>] = "run"  BY <2>2 DEF Items, LinkPCPath
      <4>3. \A i \in LinkItems : i \in Items  BY DEF Items
      <4> QED  BY <4>1, <4>2, <4>3, EndsGives DEF BuildInv, TypesOK
    <3> QED  BY <3>1, <3>2
  <2>4. UNCHANGED rpath  BY DEF LinkPCPath, relayVars
  <2>5. TypesOK'
    BY <2>1, <2>2, <2>3, <2>4 DEF BuildInv, LinkPCPath, Settled, relayVars, TypesOK
  <2>6. WiredOK'  BY <2>1, WiredStays DEF LinkPCPath, BuildInv, Wait
  <2>7. FundedOK'
    BY <2>1, <2>2 DEF BuildInv, LinkPCPath, Settled, relayVars, FundedOK
  <2>8. WavesOK'
    BY <2>1, <2>2 DEF BuildInv, LinkPCPath, Settled, relayVars, WavesOK
  <2>9. PathsOK'
    BY <2>1, <2>2, <2>3, <2>4 DEF BuildInv, LinkPCPath, Settled, relayVars, PathsOK, Served
  <2>10. LinksOK'
    BY <2>1, <2>2, <2>3 DEF BuildInv, LinkPCPath, Settled, relayVars, LinksOK, LinkItems
  <2> QED  BY <2>1, <2>5, <2>6, <2>7, <2>8, <2>9, <2>10 DEF BuildInv
<1>3. CASE \E rp \in RelayerPaths : LinkPath(rp)
  <2> PICK rp \in RelayerPaths : LinkPath(rp)  BY <1>3
  <2>1. Settled /\ DeclaredOK' /\ RelayerChains' = RelayerChains /\ FirstWave' = FirstWave
    BY SettledFacts DEF LinkPath, Settled, declVars, wireVars
  <2>2. /\ <<"link", rp>> \in LinkItems /\ phase = "linking" /\ phase' = phase
        /\ \E result \in {"ok", "err"} : Ends(<<"link", rp>>, result)
    BY DEF LinkPath, LinkItems
  <2>3. /\ gor' \in [Items -> {"none", "run", "ok", "err"}]
        /\ \A i \in LinkItems : gor'[i] = "run" => gor[i] = "run"
        /\ \A i \in LinkItems : gor'[i] = "none" <=> gor[i] = "none"
    <3>1. CASE gor' = gor  BY <3>1 DEF BuildInv, TypesOK
    <3>2. CASE gor' # gor
      <4>1. PICK result \in {"ok", "err"} : Ends(<<"link", rp>>, result)  BY <2>2, <3>2
      <4>2. <<"link", rp>> \in Items /\ gor[<<"link", rp>>] = "run"  BY <2>2 DEF Items, LinkPath
      <4>3. \A i \in LinkItems : i \in Items  BY DEF Items
      <4> QED  BY <4>1, <4>2, <4>3, EndsGives DEF BuildInv, TypesOK
    <3> QED  BY <3>1, <3>2
  <2>4. UNCHANGED rpath  BY DEF LinkPath, relayVars
  <2>5. TypesOK'
    <3>1. links[rp] # None  BY <2>2 DEF LinkPath, BuildInv, LinksOK
    <3>2. rpath[rp][1] \in Chains /\ rpath[rp][2] \in Chains
      <4>1. 1 \in 1..2 /\ 2 \in 1..2  OBVIOUS
      <4>2. <<rp[1], rpath[rp][1]>> \in RelayerChains /\ <<rp[1], rpath[rp][2]>> \in RelayerChains
        BY <3>1, <2>2, <4>1 DEF BuildInv, PathsOK, Served
      <4> QED  BY <4>2, RelayerChainsAdded DEF BuildInv, TypesOK
    <3>3. clients' \in [Chains -> Seq(Chains)]
      <4>1. CASE UNCHANGED clients  BY <4>1 DEF BuildInv, TypesOK
      <4>2. CASE clients' = [clients EXCEPT ![rpath[rp][1]] = Append(@, rpath[rp][2]),
                                            ![rpath[rp][2]] = Append(@, rpath[rp][1])]
        <5>1. PICK a \in Chains, b \in Chains : a = rpath[rp][1] /\ b = rpath[rp][2]  BY <3>2
        <5>2. clients' = [clients EXCEPT ![a] = Append(@, b), ![b] = Append(@, a)]  BY <4>2, <5>1
        <5> QED  BY <5>2, AppendBoth DEF BuildInv, TypesOK
      <4> QED  BY <4>1, <4>2 DEF LinkPath
    <3> QED  BY <2>1, <2>2, <2>3, <2>4, <3>3 DEF BuildInv, LinkPath, Settled, TypesOK
  <2>6. WiredOK'  BY <2>1, WiredStays DEF LinkPath, BuildInv, Wait
  <2>7. FundedOK'
    BY <2>1, <2>2 DEF BuildInv, LinkPath, Settled, relayVars, FundedOK
  <2>8. WavesOK'
    BY <2>1, <2>2 DEF BuildInv, LinkPath, Settled, relayVars, WavesOK
  <2>9. PathsOK'
    BY <2>1, <2>2, <2>3, <2>4 DEF BuildInv, LinkPath, Settled, relayVars, PathsOK, Served
  <2>10. LinksOK'
    BY <2>1, <2>2, <2>3 DEF BuildInv, LinkPath, Settled, relayVars, LinksOK, LinkItems
  <2> QED  BY <2>1, <2>5, <2>6, <2>7, <2>8, <2>9, <2>10 DEF BuildInv
<1>4. CASE WaitLinks
  <2>1. Settled /\ DeclaredOK' /\ RelayerChains' = RelayerChains /\ FirstWave' = FirstWave
    BY <1>4, SettledFacts DEF WaitLinks, Settled, declVars, wireVars
  <2>2. TypesOK'
    BY <1>4, <2>1 DEF BuildInv, WaitLinks, Settled, relayVars, TypesOK, Wait, AllEnded, SomeFailed
  <2>3. WiredOK'  BY <1>4, <2>1, WiredStays DEF WaitLinks, BuildInv, Wait
  <2>4. FundedOK'
    BY <1>4, <2>1 DEF BuildInv, WaitLinks, Settled, relayVars, FundedOK, Wait, AllEnded, SomeFailed
  <2>5. WavesOK'
    BY <1>4, <2>1 DEF BuildInv, WaitLinks, Settled, relayVars, WavesOK, Wait, AllEnded, SomeFailed
  <2>6. PathsOK'
    BY <1>4, <2>1 DEF BuildInv, WaitLinks, Settled, relayVars, PathsOK, Wait, AllEnded, SomeFailed
  <2>7. LinksOK'
    <3>1. phase = "linking" /\ AllEnded /\ UNCHANGED gor /\ phase' = IF SomeFailed THEN "failed" ELSE "built"
      BY <1>4 DEF WaitLinks, Wait
    <3>2. \A i \in LinkItems : i \in Items /\ gor[i] # "run"  BY <3>1 DEF AllEnded, Items
    <3>3. \A rp \in RelayerPaths : <<"link", rp>> \in LinkItems /\ <<"pc",
        rp>> \in LinkItems  BY DEF LinkItems
    <3>4. phase' = "built" => \A rp \in RelayerPaths :
            /\ links[rp] # None => gor[<<"link", rp>>] = "ok"
            /\ pcLinks[rp] # None => gor[<<"pc", rp>>] = "ok"
      BY <3>1, <3>2, <3>3 DEF BuildInv, LinksOK, TypesOK, SomeFailed
    <3> QED  BY <2>1, <3>1, <3>2, <3>4 DEF LinksOK, Settled
  <2> QED  BY <2>1, <2>2, <2>3, <2>4, <2>5, <2>6, <2>7 DEF BuildInv
<1> QED  BY <1>1, <1>2, <1>3, <1>4

\* Every step of Build keeps what the phases have established.
LEMMA BuildStep == BuildInv /\ [Next]_vars => BuildInv'
<1> SUFFICES ASSUME BuildInv, [Next]_vars PROVE BuildInv'
  OBVIOUS
<1>1. CASE \/ \E c \in Chains : AddChain(c)
           \/ \E r \in Relayers : AddRelayer(r)
           \/ \E l \in Links : AddLink(l)
           \/ \E l \in PCLinks : AddProviderConsumerLink(l)
  <2>1. phase = "declare"  BY <1>1 DEF AddChain, AddRelayer, AddLink, AddProviderConsumerLink
  <2> QED  BY <1>1, <2>1, DeclareSteps
<1>2. CASE Build \/ BuildAgain \/ StartInitialize \/ \E rp \in RelayerPaths : WireConsumer(rp)
  BY <1>2, WireSteps
<1>3. CASE \/ \E c \in Chains : InitializeChain(c) \/ CreateFaucet(c)
           \/ WaitInitialize \/ GenerateRelayerWallets \/ GenesisWalletAmounts
  BY <1>3, AccountSteps
<1>4. CASE \/ \E c \in Chains : StartChain(c) \/ StartConsumer(c)
           \/ WaitProviders \/ WaitConsumers \/ TrackBlocks
  BY <1>4, StartSteps
<1>5. CASE \/ \E rc \in Relayers \X Chains : ConfigureRelayerKey(rc)
           \/ \E i \in LinkItems : GeneratePath(i)
           \/ KeysDone \/ LinksGenerated \/ PCLinksGenerated
  BY <1>5, PathSteps
<1>6. CASE \/ \E rp \in RelayerPaths : ChooseClients(rp) \/ LinkPCPath(rp) \/ LinkPath(rp)
           \/ WaitLinks
  BY <1>6, LinkSteps
<1>7. CASE UNCHANGED vars
  <2>1. Settled /\ UNCHANGED <<phase, todo, gor, up, wallets, faucet, genesis, configured, keyed, rpath, clients, chosen>>
    BY <1>7 DEF vars, declVars, wireVars, relayVars, Settled
  <2>2. DeclaredOK' /\ RelayerChains' = RelayerChains /\ FirstWave' = FirstWave
        /\ Declared(links)' = Declared(links) /\ Declared(pcLinks)' = Declared(pcLinks)
    BY <2>1, SettledFacts
  <2>3. TypesOK'  BY <2>1 DEF BuildInv, TypesOK, Settled
  <2>4. WiredOK'  BY <2>1, <2>2 DEF BuildInv, WiredOK, Settled
  <2>5. FundedOK' /\ WavesOK'  BY <2>1, <2>2 DEF BuildInv, FundedOK, WavesOK, Settled
  <2>6. PathsOK' /\ LinksOK'  BY <2>1, <2>2 DEF BuildInv, PathsOK, Served, LinksOK, Settled
  <2> QED  BY <2>2, <2>3, <2>4, <2>5, <2>6 DEF BuildInv
<1> QED
  BY <1>1, <1>2, <1>3, <1>4, <1>5, <1>6, <1>7 DEF Next, Declare, Proceed, TestOver

\* In every state of every test.
LEMMA BuildInvHolds == Spec => []BuildInv
<1> QED  BY InitBuild, BuildStep, PTL DEF Spec

\* Whatever a test declares: a path is linked only between running chains its
\* relayer has a configuration, a key and a funded account for.
THEOREM LinksAreReady == Spec => []LinkedChainsReady
<1>1. BuildInv => LinkedChainsReady
  <2> SUFFICES ASSUME BuildInv, NEW i \in LinkItems, gor[i] = "run", NEW e \in 1..2
               PROVE  LET c == rpath[i[2]][e]
                          rc == <<i[2][1], c>>
                      IN up[c] = "running" /\ rc \in configured /\ rc \in keyed /\ rc[1] \in genesis[c]
    BY DEF LinkedChainsReady
  <2>1. phase = "linking"  BY DEF BuildInv, LinksOK
  <2>2. PICK rp \in RelayerPaths : i \in {<<"link", rp>>, <<"pc", rp>>}  BY DEF LinkItems
  <2>3. links[rp] # None \/ pcLinks[rp] # None  BY <2>1, <2>2 DEF BuildInv, LinksOK
  <2>4. <<rp[1], rpath[rp][e]>> \in RelayerChains  BY <2>1, <2>3 DEF BuildInv, PathsOK, Served
  <2>5. rpath[rp][e] \in chains  BY <2>4, RelayerChainsAdded DEF BuildInv
  <2>6. i[2] = rp  BY <2>2
  <2> QED  BY <2>1, <2>4, <2>5, <2>6 DEF BuildInv, PathsOK, FundedOK, WavesOK
<1> QED  BY <1>1, BuildInvHolds, PTL

\* A Build that returns nil has done all it was declared to do.
THEOREM BuiltIsLinked == Spec => []BuiltMeansLinked
<1>1. BuildInv => BuiltMeansLinked
  BY DEF BuildInv, BuiltMeansLinked, FundedOK, WavesOK, LinksOK
<1> QED  BY <1>1, BuildInvHolds, PTL

----------------------------------------------------------------------------
\* No provider is itself a consumer.
ProvidersStandAlone ==
  \A rp, rq \in RelayerPaths :
    pcLinks[rp] # None /\ pcLinks[rq] # None => pcLinks[rp][1] # pcLinks[rq][2]

\* No consumer starts before its provider runs, unless that is a consumer, too:
\* chainSet.Start has two waves, and all consumers are in the second.
THEOREM ProvidersFirst == Spec => [](ProvidersStandAlone => ProviderUpFirst)
<1>1. BuildInv => (ProvidersStandAlone => ProviderUpFirst)
  <2> SUFFICES ASSUME BuildInv, ProvidersStandAlone, NEW c \in Chains,
                      phase = "startConsumers", gor[c] = "run"
               PROVE  up[provider[c]] = "running"
    BY DEF ProviderUpFirst
  <2>1. c \in chains \ FirstWave  BY DEF BuildInv, WavesOK
  <2>2. provider[c] # None  BY <2>1 DEF FirstWave
  <2>3. PICK rp \in RelayerPaths : pcLinks[rp] # None /\ pcLinks[rp] = <<provider[c], c>>
    BY <2>2 DEF BuildInv, WiredOK
  <2>4. provider[c] \in chains /\ provider[c] \in Chains
    <3>1. <<provider[c], c>> \in chains \X chains  BY <2>3 DEF BuildInv, DeclaredOK
    <3> QED  BY <3>1 DEF BuildInv, TypesOK
  <2>5. provider[provider[c]] = None
    <3> SUFFICES ASSUME provider[provider[c]] # None PROVE FALSE  OBVIOUS
    <3>1. PICK rq \in RelayerPaths : pcLinks[rq] # None /\ pcLinks[rq] = <<provider[provider[c]], provider[c]>>
      BY <2>4 DEF BuildInv, WiredOK
    <3>2. pcLinks[rp][1] = provider[c] /\ pcLinks[rq][2] = provider[c]  BY <2>3, <3>1
    <3> QED  BY <2>3, <3>1, <3>2 DEF ProvidersStandAlone
  <2> QED  BY <2>4, <2>5 DEF BuildInv, WavesOK, FirstWave
<1> QED  BY <1>1, BuildInvHolds, PTL

----------------------------------------------------------------------------
\* The clients Build writes into a provider-consumer path.  The first client of
\* a chain's list is the wrong one when a chain has two partners (the second
\* consumer of a provider gets the client of the first), so the declared links
\* have to be apart: two of them join the same pair or have no chain in common.
PairsApart ==
  \A rp, rq \in RelayerPaths :
    pcLinks[rp] # None /\ pcLinks[rq] # None =>
      pcLinks[rp] = pcLinks[rq] \/ \A e, f \in 1..2 : pcLinks[rp][e] # pcLinks[rq][f]

BeforeConsumers == {"declare", "wire", "initialize", "wallets", "faucet", "start"}
BeforeLinks == BeforeConsumers \cup {"startConsumers", "track", "keys", "paths", "pcPaths"}

\* The first clients of a consumer and of its provider track each other.
Met(c) ==
  /\ clients[c] # <<>> /\ clients[c][1] = provider[c]
  /\ clients[provider[c]] # <<>> /\ clients[provider[c]][1] = c

NoneYet ==
  /\ phase \in BeforeConsumers => \A c \in Chains : clients[c] = <<>>
  /\ phase \in BeforeLinks => \A rp \in RelayerPaths : chosen[rp] = None

MetOK ==
  \A c \in Chains : provider[c] # None =>
    /\ phase = "startConsumers" =>
         /\ gor[c] = "ok" => Met(c)
         /\ gor[c] # "ok" => clients[c] = <<>> /\ clients[provider[c]] = <<>>
    /\ phase \in AllUp => Met(c)

ChosenOK ==
  \A rp \in RelayerPaths :
    chosen[rp] # None => pcLinks[rp] # None /\ chosen[rp] = <<pcLinks[rp][1], pcLinks[rp][2]>>

PeersInv == NoneYet /\ (PairsApart => MetOK /\ ChosenOK)

USE DEF BeforeConsumers, BeforeLinks

\* A provider's link to its consumer is the only pair either of them is in.
LEMMA PartnersAre ==
  ASSUME BuildInv, PairsApart, NEW c \in Chains, provider[c] # None
  PROVE  /\ provider[c] \in chains /\ c \in chains /\ provider[c] \in Chains /\ provider[c] # c
         /\ \A d \in Chains : provider[d] # None /\ d # c =>
              d # provider[c] /\ provider[d] # c /\ provider[d] # provider[c]
<1>1. PICK rp \in RelayerPaths : pcLinks[rp] # None /\ pcLinks[rp] = <<provider[c], c>>
  BY DEF BuildInv, WiredOK
<1>2. /\ <<provider[c], c>> \in chains \X chains
      /\ pcLinks[rp][1] = provider[c] /\ pcLinks[rp][2] = c /\ provider[c] # c
  BY <1>1 DEF BuildInv, DeclaredOK
<1>3. ASSUME NEW d \in Chains, provider[d] # None, d # c
      PROVE  d # provider[c] /\ provider[d] # c /\ provider[d] # provider[c]
  <2>1. PICK rq \in RelayerPaths : pcLinks[rq] # None /\ pcLinks[rq] = <<provider[d], d>>
    BY <1>3 DEF BuildInv, WiredOK
  <2>2. pcLinks[rq][1] = provider[d] /\ pcLinks[rq][2] = d /\ pcLinks[rp] # pcLinks[rq]
    BY <1>2, <1>3, <2>1
  <2>3. \A e, f \in 1..2 : pcLinks[rp][e] # pcLinks[rq][f]
    BY <1>1, <2>1, <2>2 DEF PairsApart
  <2>4. 1 \in 1..2 /\ 2 \in 1..2  OBVIOUS
  <2> QED  BY <1>2, <2>2, <2>3, <2>4
<1> QED  BY <1>2, <1>3 DEF BuildInv, TypesOK

\* Appending leaves the first element of a list that has one.
LEMMA HeadStays ==
  ASSUME NEW S, NEW s \in Seq(S), NEW x \in S
  PROVE  /\ Append(s, x) \in Seq(S) /\ Append(s, x) # <<>>
         /\ s # <<>> => Append(s, x)[1] = s[1]
         /\ s = <<>> => Append(s, x)[1] = x
<1>1. Append(s, x) \in Seq(S) /\ Append(s, x) # <<>>  BY AppendProperties
<1>2. CASE s = <<>>  BY <1>1, <1>2, AppendProperties
<1>3. CASE s # <<>>
  <2>1. Len(s) \in Nat \ {0}  BY <1>3
  <2> QED  BY <1>1, <1>3, <2>1, AppendProperties
<1> QED  BY <1>2, <1>3

\* Steps that leave the clients alone; only the end of a wave says more of them.
LEMMA ClientsAlone ==
  ASSUME BuildInv, PeersInv, Settled, UNCHANGED <<clients, chosen>>,
         phase' \in BeforeConsumers => phase \in BeforeConsumers,
         phase' \in BeforeLinks => phase \in BeforeLinks,
         phase' = "startConsumers" => phase = "startConsumers" /\ \A c \in Chains : gor'[c] = "ok" <=> gor[c] = "ok",
         phase' \in AllUp => phase \in AllUp
  PROVE  PeersInv'
<1>1. NoneYet'  BY DEF PeersInv, NoneYet
<1>2. PairsApart' => PairsApart  BY DEF PairsApart, Settled
<1>3. PairsApart => MetOK' /\ ChosenOK'
  BY DEF PeersInv, MetOK, ChosenOK, Met, Settled
<1> QED  BY <1>1, <1>2, <1>3 DEF PeersInv

\* There are no clients yet.
LEMMA InitPeers == Init => PeersInv
BY DEF Init, PeersInv, NoneYet, MetOK, ChosenOK

\* Every step of Build keeps what is known of the clients.
LEMMA PeersStep == BuildInv /\ PeersInv /\ [Next]_vars => PeersInv'
<1> SUFFICES ASSUME BuildInv, PeersInv, [Next]_vars PROVE PeersInv'
  OBVIOUS
<1> USE LinksAssumption, ItemsAssumption
<1>1. CASE phase = "declare" /\ ~UNCHANGED vars
  <2>1. UNCHANGED <<clients, chosen, provider>> /\ phase' \in {"declare", "wire", "panicked"}
    BY <1>1 DEF Next, Declare, Proceed, TestOver, AddChain, AddRelayer, AddLink, AddProviderConsumerLink,
        Panic,
       Build, BuildAgain, WireConsumer, StartInitialize, InitializeChain, Wait, WaitInitialize,
       GenerateRelayerWallets, CreateFaucet, GenesisWalletAmounts, StartChain, WaitProviders, StartConsumer,
       WaitConsumers, TrackBlocks, ConfigureRelayerKey, KeysDone, GeneratePath, LinksGenerated,
       PCLinksGenerated, ChooseClients, LinkPCPath, LinkPath, WaitLinks, relayVars, wireVars
  <2>2. NoneYet'  BY <1>1, <2>1 DEF PeersInv, NoneYet
  <2>3. \A rp \in RelayerPaths : chosen'[rp] = None  BY <1>1, <2>1 DEF PeersInv, NoneYet
  <2> QED  BY <2>1, <2>2, <2>3 DEF PeersInv, MetOK, ChosenOK
<1>2. CASE \E rp \in RelayerPaths : WireConsumer(rp)
  <2>1. phase = "wire" /\ phase' = "wire" /\ UNCHANGED <<clients, chosen>>
    BY <1>2 DEF WireConsumer, relayVars
  <2>2. NoneYet'  BY <2>1 DEF PeersInv, NoneYet
  <2> QED  BY <2>1, <2>2 DEF PeersInv, NoneYet, MetOK, ChosenOK
<1>3. CASE BuildAgain \/ StartInitialize \/ WaitInitialize \/ GenerateRelayerWallets \/ GenesisWalletAmounts
           \/ TrackBlocks \/ KeysDone \/ LinksGenerated \/ PCLinksGenerated \/ WaitLinks
  <2>1. Settled /\ UNCHANGED <<clients, chosen>>
    BY <1>3 DEF Settled, declVars, wireVars, relayVars, BuildAgain, StartInitialize, WaitInitialize,
       GenerateRelayerWallets, GenesisWalletAmounts, TrackBlocks, KeysDone, LinksGenerated, PCLinksGenerated, WaitLinks
  <2>2. \/ phase = "wire" /\ phase' = "initialize"
        \/ phase = "initialize" /\ phase' \in {"wallets", "failed"}
        \/ phase = "wallets" /\ phase' \in {"faucet", "failed"}
        \/ phase = "faucet" /\ phase' \in {"start", "failed"}
        \/ phase = "track" /\ phase' \in {"keys", "failed"}
        \/ phase = "keys" /\ phase' \in {"built", "paths"}
        \/ phase = "paths" /\ phase' = "pcPaths"
        \/ phase = "pcPaths" /\ phase' = "linking"
        \/ phase = "linking" /\ phase' \in {"built", "failed"}
        \/ phase' = "panicked"
    BY <1>3 DEF BuildAgain, StartInitialize, WaitInitialize, Wait, Panic,
       GenerateRelayerWallets, GenesisWalletAmounts, TrackBlocks, KeysDone, LinksGenerated, PCLinksGenerated, WaitLinks
  <2> QED  BY <2>1, <2>2, ClientsAlone
<1>4. CASE \/ \E c \in Chains : InitializeChain(c) \/ CreateFaucet(c) \/ StartChain(c)
           \/ \E rc \in Relayers \X Chains : ConfigureRelayerKey(rc)
           \/ \E i \in LinkItems : GeneratePath(i)
           \/ \E rp \in RelayerPaths : LinkPCPath(rp)
  <2>1. Settled /\ UNCHANGED <<clients, chosen>> /\ phase # "startConsumers" /\ phase' \in {phase, "failed"}
    BY <1>4 DEF Settled, declVars, wireVars, relayVars, InitializeChain, CreateFaucet, StartChain,
       ConfigureRelayerKey, GeneratePath, LinkPCPath
  <2> QED  BY <2>1, ClientsAlone
<1>5. CASE WaitProviders
  <2>1. Settled /\ UNCHANGED <<clients, chosen>> /\ phase = "start" /\ phase' \in {"startConsumers", "failed"}
    BY <1>5 DEF Settled, declVars, wireVars, relayVars, WaitProviders, Wait
  <2>2. CASE phase' = "failed"  BY <2>1, <2>2, ClientsAlone
  <2>3. CASE phase' = "startConsumers"
    <3>1. \A c \in Chains : c \in Items /\ gor'[c] # "ok"
      BY <1>5, <2>3 DEF WaitProviders, Wait, Spawn, Items
    <3>2. \A c \in Chains : provider'[c] # None => provider'[c] \in Chains
      BY <2>1 DEF BuildInv, TypesOK, Settled
    <3>3. NoneYet' /\ MetOK'
      BY <2>1, <2>3, <3>1, <3>2 DEF PeersInv, NoneYet, MetOK
    <3>4. ChosenOK'  BY <2>1 DEF PeersInv, NoneYet, ChosenOK
    <3> QED  BY <3>3, <3>4 DEF PeersInv
  <2> QED  BY <2>1, <2>2, <2>3
<1>6. CASE \E c \in Chains : StartConsumer(c)
  <2> PICK c \in Chains : StartConsumer(c)  BY <1>6
  <2>1. /\ phase = "startConsumers" /\ phase' = phase /\ gor[c] = "run" /\ c \in Items
        /\ Settled /\ UNCHANGED chosen
    BY DEF StartConsumer, Settled, declVars, wireVars, Items
  <2>2. NoneYet'  BY <2>1 DEF PeersInv, NoneYet
  <2>3. CASE Ends(c, "err") /\ UNCHANGED clients
    <3>1. \A d \in Chains : d \in Items /\ (gor'[d] = "ok" <=> gor[d] = "ok")
      BY <2>1, <2>3, EndsGives DEF BuildInv, TypesOK, Items
    <3> QED  BY <2>1, <2>3, <3>1, ClientsAlone
  <2>4. CASE /\ Ends(c, "ok")
             /\ clients' = [clients EXCEPT ![c] = Append(@, provider[c]), ![provider[c]] = Append(@, c)]
    <3> SUFFICES ASSUME PairsApart PROVE MetOK' /\ ChosenOK'
      BY <2>1, <2>2 DEF PeersInv, PairsApart, Settled
    <3>1. provider[c] # None /\ c \in chains
      BY <2>1 DEF BuildInv, WavesOK, FirstWave
    <3> DEFINE p == provider[c]
    <3>2. p \in Chains /\ p # c  BY <3>1, PartnersAre
    <3>3. clients[c] = <<>> /\ clients[p] = <<>>  BY <2>1, <3>1 DEF PeersInv, MetOK
    <3>4. /\ \A d \in Chains \ {c, p} : clients'[d] = clients[d]
          /\ clients'[c] = Append(clients[c], p) /\ clients'[p] = Append(clients[p], c)
      BY <2>4, <3>2, AppendBoth DEF BuildInv, TypesOK
    <3>5. Met(c)'
      <4>1. clients'[c] # <<>> /\ clients'[c][1] = p  BY <3>2, <3>3, <3>4, HeadStays DEF BuildInv, TypesOK
      <4>2. clients'[p] # <<>> /\ clients'[p][1] = c  BY <3>2, <3>3, <3>4, HeadStays DEF BuildInv, TypesOK
      <4> QED  BY <2>1, <4>1, <4>2 DEF Met, Settled
    <3>6. gor'[c] = "ok" /\ \A d \in Chains : d # c => gor'[d] = gor[d]
      BY <2>1, <2>4, EndsGives DEF BuildInv, TypesOK, Items
    <3>7. ASSUME NEW d \in Chains, provider[d] # None, d # c
          PROVE  clients'[d] = clients[d] /\ clients'[provider[d]] = clients[provider[d]]
      BY <3>1, <3>4, <3>7, PartnersAre DEF BuildInv, TypesOK
    <3>8. MetOK'
      BY <2>1, <3>5, <3>6, <3>7 DEF PeersInv, MetOK, Met, Settled
    <3>9. ChosenOK'  BY <2>1 DEF PeersInv, NoneYet, ChosenOK
    <3> QED  BY <3>8, <3>9
  <2> QED  BY <2>3, <2>4 DEF StartConsumer
<1>7. CASE WaitConsumers
  <2>1. /\ Settled /\ UNCHANGED <<clients, chosen>> /\ phase = "startConsumers"
        /\ phase' \in {"track", "failed"} /\ AllEnded /\ (phase' = "track" => ~SomeFailed)
    BY <1>7 DEF Settled, declVars, wireVars, relayVars, WaitConsumers, Wait
  <2>2. CASE phase' = "failed"  BY <2>1, <2>2, ClientsAlone
  <2>3. CASE phase' = "track"
    <3>1. NoneYet' /\ ChosenOK'  BY <2>1, <2>3 DEF PeersInv, NoneYet, ChosenOK
    <3>2. ASSUME PairsApart, NEW c \in Chains, provider[c] # None PROVE Met(c)
      <4>1. c \in chains \ FirstWave /\ c \in Items
        BY <3>2, PartnersAre DEF FirstWave, Items
      <4>2. gor[c] = "ok"
        BY <2>1, <2>3, <4>1 DEF BuildInv, WavesOK, TypesOK, AllEnded, SomeFailed
      <4> QED  BY <2>1, <3>2, <4>2 DEF PeersInv, MetOK
    <3>3. PairsApart => MetOK'  BY <2>1, <2>3, <3>2 DEF MetOK, Met, Settled
    <3> QED  BY <2>1, <3>1, <3>3 DEF PeersInv, PairsApart, Settled
  <2> QED  BY <2>1, <2>2, <2>3
<1>8. CASE \E rp \in RelayerPaths : ChooseClients(rp)
  <2> PICK rp \in RelayerPaths : ChooseClients(rp)  BY <1>8
  <2>1. /\ phase = "linking" /\ phase' = phase /\ <<"pc", rp>> \in LinkItems /\ gor[<<"pc", rp>>] = "run"
        /\ Settled /\ UNCHANGED clients
    BY DEF ChooseClients, Settled, declVars, wireVars, LinkItems
  <2>2. NoneYet'  BY <2>1 DEF PeersInv, NoneYet
  <2> SUFFICES ASSUME PairsApart PROVE MetOK' /\ ChosenOK'
    BY <2>1, <2>2 DEF PeersInv, PairsApart, Settled
  <2>3. MetOK'  BY <2>1 DEF PeersInv, MetOK, Met, Settled
  <2>4. pcLinks[rp] # None  BY <2>1 DEF BuildInv, LinksOK
  <2> DEFINE p == pcLinks[rp][1]  c == pcLinks[rp][2]
  <2>5. c \in Chains /\ provider[c] # None
    BY <2>1, <2>4 DEF BuildInv, WiredOK, DeclaredOK, TypesOK
  <2>6. provider[c] = p
    <3>1. PICK rq \in RelayerPaths : pcLinks[rq] # None /\ pcLinks[rq] = <<provider[c], c>>
      BY <2>5 DEF BuildInv, WiredOK
    <3>2. 2 \in 1..2 /\ pcLinks[rq][2] = c /\ pcLinks[rq][1] = provider[c]  BY <3>1
    <3> QED  BY <2>4, <3>1, <3>2, SMTT(30) DEF PairsApart
  <2>7. clients[c][1] = p /\ clients[p][1] = c
    BY <2>1, <2>5, <2>6 DEF PeersInv, MetOK, Met
  <2>8. chosen' \in {chosen, [chosen EXCEPT ![rp] = <<p, c>>]}
    BY <2>7 DEF ChooseClients, PathOf
  <2>9. ChosenOK'
    BY <2>1, <2>4, <2>8 DEF PeersInv, ChosenOK, BuildInv, TypesOK, Settled
  <2> QED  BY <2>3, <2>9
<1>9. CASE \E rp \in RelayerPaths : LinkPath(rp)
  <2> PICK rp \in RelayerPaths : LinkPath(rp)  BY <1>9
  <2>1. /\ phase = "linking" /\ phase' = phase /\ <<"link", rp>> \in LinkItems /\ gor[<<"link", rp>>] = "run"
        /\ Settled /\ UNCHANGED chosen
    BY DEF LinkPath, Settled, declVars, wireVars, LinkItems
  <2>2. NoneYet'  BY <2>1 DEF PeersInv, NoneYet
  <2> SUFFICES ASSUME PairsApart PROVE MetOK' /\ ChosenOK'
    BY <2>1, <2>2 DEF PeersInv, PairsApart, Settled
  <2>3. ChosenOK'  BY <2>1 DEF PeersInv, ChosenOK, Settled
  <2>4. \A d \in Chains : clients[d] # <<>> => clients'[d] # <<>> /\ clients'[d][1] = clients[d][1]
    <3>1. CASE UNCHANGED clients  BY <3>1
    <3>2. CASE clients' = [clients EXCEPT ![rpath[rp][1]] = Append(@, rpath[rp][2]),
                                          ![rpath[rp][2]] = Append(@, rpath[rp][1])]
      <4>1. links[rp] # None  BY <2>1 DEF BuildInv, LinksOK
      <4>2. <<rp[1], rpath[rp][1]>> \in RelayerChains /\ <<rp[1], rpath[rp][2]>> \in RelayerChains
        <5>1. 1 \in 1..2 /\ 2 \in 1..2  OBVIOUS
        <5> QED  BY <2>1, <4>1, <5>1 DEF BuildInv, PathsOK, Served
      <4>3. PICK a \in Chains, b \in Chains : a = rpath[rp][1] /\ b = rpath[rp][2] /\ a # b
        <5>1. rpath[rp][1] # rpath[rp][2]  BY <2>1, <4>1 DEF BuildInv, PathsOK, Served
        <5> QED  BY <4>2, <5>1, RelayerChainsAdded DEF BuildInv, TypesOK
      <4>4. clients' = [clients EXCEPT ![a] = Append(@, b), ![b] = Append(@, a)]  BY <3>2, <4>3
      <4>5. clients \in [Chains -> Seq(Chains)]  BY DEF BuildInv, TypesOK
      <4>6. /\ \A d \in Chains \ {a, b} : clients'[d] = clients[d]
            /\ clients'[a] = Append(clients[a], b) /\ clients'[b] = Append(clients[b], a)
        BY <4>3, <4>4, <4>5, AppendBoth, ZenonT(60)
      <4>7. \A s \in Seq(Chains), x \in Chains : s # <<>> => Append(s, x) # <<>> /\ Append(s, x)[1] = s[1]
        BY HeadStays
      <4>8. \A d \in {a, b} : clients[d] # <<>> => clients'[d] # <<>> /\ clients'[d][1] = clients[d][1]
        <5>1. clients[a] \in Seq(Chains) /\ clients[b] \in Seq(Chains) /\ a \in Chains /\ b \in Chains
          BY <4>5
        <5>2. clients[a] # <<>> => clients'[a] # <<>> /\ clients'[a][1] = clients[a][1]
          BY <4>6, <4>7, <5>1
        <5>3. clients[b] # <<>> => clients'[b] # <<>> /\ clients'[b][1] = clients[b][1]
          BY <4>6, <4>7, <5>1
        <5> QED  BY <5>2, <5>3
      <4> QED  BY <4>6, <4>8
    <3> QED  BY <3>1, <3>2 DEF LinkPath
  <2>5. \A c \in Chains : provider[c] # None => Met(c) /\ provider[c] \in Chains
    BY <2>1 DEF PeersInv, MetOK, BuildInv, TypesOK
  <2>6. MetOK'  BY <2>1, <2>4, <2>5 DEF MetOK, Met, Settled
  <2> QED  BY <2>3, <2>6
<1>10. CASE UNCHANGED vars
  BY <1>10, ClientsAlone DEF vars, declVars, wireVars, relayVars, Settled
<1> QED
  <2>1. ASSUME phase # "declare", Next, ~UNCHANGED vars PROVE Proceed \/ BuildAgain
    BY <2>1 DEF Next, Declare, TestOver, AddChain, AddRelayer, AddLink, AddProviderConsumerLink, Build
  <2> QED  BY <1>1, <1>2, <1>3, <1>4, <1>5, <1>6, <1>7, <1>8, <1>9, <1>10, <2>1 DEF Proceed

\* Whatever else is declared, started and linked: as long as the provider-consumer
\* links are apart, a path gets the clients that track its ends.
THEOREM PeersTracked == Spec => [](PairsApart => ClientsTrackPeer)
<1>1. PeersInv => (PairsApart => ClientsTrackPeer)
  BY DEF PeersInv, ChosenOK, ClientsTrackPeer, PathOf
<1>2. Spec => []PeersInv
  BY InitPeers, PeersStep, BuildInvHolds, PTL DEF Spec
<1> QED  BY <1>1, <1>2, PTL
============================================================================
