-------------------------- MODULE ChainStartPhases --------------------------
(***************************************************************************)
(* The phases of ChainStart's Start, and its inductive invariant.           *)
(*                                                                         *)
(* A phase is what Start does between two Waits, or two changes of the      *)
(* genesis it makes; the same number stands for the same moment in every    *)
(* family:  0 preparations, 1 the validators' files, 2 the genesis is put   *)
(* together, 3 and 4 keys, and those of a fork in its genesis, 5 genesis files are written, 6 sidecars, 7       *)
(* containers are created, 8 nodes are started, 9 blocks are awaited, 10    *)
(* collators and pclientds, 11 nothing is left.                             *)
(***************************************************************************)
EXTENDS ChainStart

----------------------------------------------------------------------------
(* Phases of Start. *)

\* The names and arguments of steps.
Args == Nodes \cup (1..NumRelay) \cup Paras \cup Range(Wallets) \cup {GasPayer, Bond} \cup Range(NodeAccountFields)
          \cup Containers
Names == Calls \cup
  {"initFiles", "define", "lock", "append", "lockGenesis", "replace", "fund", "export", "generateGenesisFile",
   "initNetwork", "generateRaw", "readGenesis", "modifyGenesis", "writeGenesis", "copyRawSpec", "copySpec",
   "readKeyOfNode", "readValidatorWallet", "writeKey", "readArchive", "openArchive", "writeArchive", "create",
   "start", "register", "setRunning", "wait"}
Steps == {<<n>> : n \in Names} \cup (Names \X Args)
GoSteps == {"go"} \X Containers \X Seq(Steps)

ThorFamilies == {"thorchain", "thorchainFork"}

\* What the goroutine about u may have left to do in phase p of a chain of family f.
PenumbraMay(p, u, st) ==
  \/ p = 1 /\ u[1] = "tm" /\ st = <<"initFiles">>
  \/ /\ p = 1 /\ u[1] = "tm" /\ u[2] \in Validators
     /\ st \in {<<"readKey">>, <<"createKey">>, <<"template">>, <<"define", u[2]>>, <<"lock">>, <<"append", u[2]>>}
  \/ p = 3 /\ u[1] = "tm" /\ u[2] \in Validators /\ st \in {<<"readKeyOfNode">>, <<"writeKey">>}
  \/ p = 7 /\ u[1] \in {"tm", "app"} /\ st = <<"create">>
  \/ p = 8 /\ u[1] \in {"tm", "app"} /\ st \in {<<"config">>, <<"start">>, <<"ready">>, <<"ports">>}
  \/ /\ p = 10 /\ u[1] = "client"
     /\ st \in {<<"readConfig">>, <<"address">>, <<"register">>, <<"initialize">>, <<"create">>, <<"start">>, <<"ports">>}

NamadaMay(p, u, st) ==
  \/ /\ p = 7 /\ u[1] \in {"val", "full"}
     /\ st \in {<<"readArchive">>, <<"openArchive">>, <<"writeArchive">>, <<"wallet">>, <<"create">>}
  \/ p = 7 /\ u[1] = "val" /\ st \in {<<"readValidatorWallet">>, <<"writeKey">>}
  \/ p = 8 /\ u[1] \in {"val", "full"} /\ st \in {<<"start">>, <<"masp">>, <<"ready">>}

PolkadotMay(p, u, st) ==
  \/ p = 0 /\ u[1] = "para" /\ st = <<"copySpec", u[2]>>
  \/ /\ (p = 8 /\ u[1] = "relay") \/ (p = 10 /\ u[1] = "para")
     /\ st \in {<<"copyRawSpec">>, <<"create">>, <<"start">>, <<"ready">>}

ThorchainMay(f, p, u, st) ==
  \/ p = 0 /\ f = "thorchainFork" /\ u[1] = "thor" /\ st = <<"newNode">>
  \/ /\ p = 1 /\ u[1] = "thor"
     /\ st \in {<<"initFiles">>, <<"config">>, <<"createKey">>, <<"address">>, <<"ownGenesis">>, <<"nodeAccount">>}
  \/ p = 1 /\ f = "thorchain" /\ u = <<"thor", 1>> /\ st \in {<<"fund", 1>>, <<"define", 1>>}
  \/ /\ p = 3 /\ f = "thorchainFork" /\ u[1] = "thor" /\ u[2] \in Validators
     /\ st \in {<<"lockGenesis">>} \cup {<<"replace", x>> : x \in Range(NodeAccountFields)}
  \/ p = 6 /\ u[1] = "side" /\ st \in {<<"create">>, <<"start">>}
  \/ p = 7 /\ u[1] = "thor" /\ st = <<"create">>
  \/ p = 8 /\ u[1] = "thor" /\ st \in {<<"config">>, <<"sidecars">>, <<"start">>, <<"ports">>, <<"ready">>}

May(f, p, u, st) ==
  \/ f = "penumbra" /\ PenumbraMay(p, u, st)
  \/ f = "namada" /\ NamadaMay(p, u, st)
  \/ f = "polkadot" /\ PolkadotMay(p, u, st)
  \/ f \in ThorFamilies /\ ThorchainMay(f, p, u, st)

\* What it must have done at the end of the phase.
Must(f, p, u, st) ==
  \/ f = "penumbra" /\
     \/ p = 1 /\ u[1] = "tm" /\ u[2] \in Validators /\ st \in {<<"define", u[2]>>, <<"append", u[2]>>}
     \/ p = 3 /\ u[1] = "tm" /\ u[2] \in Validators /\ st \in {<<"readKeyOfNode">>, <<"writeKey">>}
     \/ p = 7 /\ u[1] \in {"tm", "app"} /\ st = <<"create">>
     \/ p = 8 /\ u[1] \in {"tm", "app"} /\ st = <<"start">>
  \/ f = "namada" /\
     \/ p = 7 /\ u[1] \in {"val", "full"} /\ st \in {<<"readArchive">>, <<"writeArchive">>, <<"create">>}
     \/ p = 7 /\ u[1] = "val" /\ st \in {<<"readValidatorWallet">>, <<"writeKey">>}
  \/ f = "polkadot" /\
     \/ p = 0 /\ u[1] = "para" /\ st = <<"copySpec", u[2]>>
     \/ p = 8 /\ u[1] = "relay" /\ u[2] # 1 /\ st = <<"copyRawSpec">>
     \/ p = 8 /\ u[1] = "relay" /\ st = <<"start">>
     \/ p = 10 /\ u[1] = "para" /\ st = <<"copyRawSpec">>
  \/ f = "thorchain" /\ p = 1 /\ u = <<"thor", 1>> /\ st \in {<<"fund", 1>>, <<"define", 1>>}
  \/ /\ f = "thorchainFork" /\ p = 3 /\ u[1] = "thor" /\ u[2] \in Validators
     /\ st \in {<<"replace", x>> : x \in Range(NodeAccountFields)}
  \/ f \in ThorFamilies /\
     \/ p = 6 /\ u[1] = "side" /\ st = <<"start">>
     \/ p = 7 /\ u[1] = "thor" /\ st = <<"create">>

\* The steps Main takes itself within a phase, and those it must take.
MainMay(f, p, st) ==
  \/ f = "penumbra" /\ p = 1 /\ st \in {<<"lock">>} \cup {<<"append", w>> : w \in Range(Wallets)}
  \/ f = "penumbra" /\ p = 5 /\ st \in {<<"writeGenesis", <<"tm", n>>>> : n \in Nodes}
  \/ f = "namada" /\ p = 2 /\
     \/ st \in {<<"templates">>, <<"wasms">>, <<"transactions">>, <<"balances">>, <<"accounts">>, <<"parameters">>}
     \/ st \in {<<"define", v>> : v \in Validators}
     \/ st \in {<<"fund", w>> : w \in Validators \cup {GasPayer} \cup Range(Wallets)}
  \/ f = "namada" /\ p = 9 /\ st \in {<<"waitForBlocks">>, <<"setRunning">>}
  \/ f = "polkadot" /\ p = 0 /\ st = <<"parachainGenesis">>
  \/ f = "polkadot" /\ p = 2 /\
     \/ st \in {<<"chainSpec">>, <<"editSpec">>}
     \/ st \in {<<"define", i>> : i \in 1..NumRelay}
     \/ st \in {<<"fund", w>> : w \in (1..NumRelay) \cup Range(Wallets)}
     \/ st \in {<<"export", i>> : i \in Paras}
  \/ f = "thorchain" /\ p = 2 /\
     \/ st \in {<<"preGenesis">>, <<"address">>, <<"readFile">>}
     \/ st \in {<<"define", v>> : v \in 2..NumValidators}
     \/ st \in {<<"fund", w>> : w \in (2..NumValidators) \cup Range(Wallets) \cup {Bond}}
  \/ f \in ThorFamilies /\ p = 5 /\ st \in {<<"writeGenesis", <<"thor", n>>>> : n \in Nodes}
  \/ f \in ThorFamilies /\ p = 9 /\ st = <<"waitForBlocks">>

MainMust(f, p, st) ==
  MainMay(f, p, st) /\ st \in Steps /\ st[1] \in {"append", "define", "fund", "export", "writeGenesis"}

\* The steps of Main that lead from a phase to another.
ThorTurns == {<<5, <<"hashes">>, 6>>, <<6, <<"wait">>, 7>>, <<7, <<"wait">>, 8>>, <<8, <<"wait">>, 9>>}
Turns(f) ==
  CASE f = "penumbra" ->
         {<<1, <<"wait">>, 2>>, <<2, <<"generateGenesisFile">>, 3>>, <<3, <<"wait">>, 4>>,
          <<4, <<"readGenesis">>, 5>>, <<5, <<"hashes">>, 6>>, <<6, <<"separator">>, 7>>, <<7, <<"wait">>, 8>>,
          <<8, <<"wait">>, 9>>, <<9, <<"waitForBlocks">>, 10>>, <<10, <<"wait">>, 11>>}
    [] f = "namada" -> {<<2, <<"initNetwork">>, 7>>, <<7, <<"wait">>, 8>>, <<8, <<"wait">>, 9>>}
    [] f = "polkadot" ->
         {<<0, <<"wait">>, 2>>, <<2, <<"generateRaw">>, 4>>, <<4, <<"readGenesis">>, 8>>,
          <<8, <<"wait">>, 10>>, <<10, <<"wait">>, 11>>}
    [] f = "thorchain" -> {<<1, <<"wait">>, 2>>, <<2, <<"modifyGenesis">>, 5>>} \cup ThorTurns
    [] f = "thorchainFork" ->
         {<<0, <<"wait">>, 1>>, <<1, <<"wait">>, 2>>, <<2, <<"preGenesis">>, 3>>, <<3, <<"wait">>, 4>>,
          <<4, <<"modifyGenesis">>, 5>>}
           \cup ThorTurns

FirstPhase(f) == CASE f \in {"polkadot", "thorchainFork"} -> 0
              [] f \in {"penumbra", "thorchain"} -> 1
              [] f = "namada" -> 2
LastPhase(f) == IF f \in {"penumbra", "polkadot"} THEN 11 ELSE 9

----------------------------------------------------------------------------
(* Scripts. *)

\* The order in which a script has the steps that depend on each other.
Rank(n) ==
  CASE n = "readArchive" -> 1
    [] n = "openArchive" -> 2
    [] n = "writeArchive" -> 3
    [] n \in {"readKeyOfNode", "readValidatorWallet"} -> 4
    [] n = "writeKey" -> 5
    [] n = "copyRawSpec" -> 6
    [] n = "create" -> 7
    [] n = "start" -> 8
    [] OTHER -> 0
Sorted(s) == \A i, j \in 1..Len(s) : i < j /\ Rank(s[i][1]) # 0 /\ Rank(s[j][1]) # 0 => Rank(s[i][1]) < Rank(s[j][1])

\* A locked slice is changed by the step after the lock.
Linked(s) == \A i \in 2..Len(s) :
  /\ s[i][1] = "append" => s[i-1][1] = "lock"
  /\ s[i][1] = "replace" => s[i-1][1] = "lockGenesis"
Closed(s) == Linked(s) /\ (s # <<>> => s[1][1] \notin {"append", "replace"})

In(st, s) == \E i \in 1..Len(s) : s[i] = st

\* A script for the goroutine about u that does its part of phase p.
Fits(f, p, u, sc) ==
  /\ sc \in Seq(Steps) /\ Sorted(sc) /\ Closed(sc)
  /\ \A i \in 1..Len(sc) : May(f, p, u, sc[i])
  /\ \A st \in Steps : Must(f, p, u, st) => In(st, sc)

\* What is left of such a script has every step the phase needs that comes after its first one.
Whole(f, p, u, s) == \A st \in Steps, i \in 1..Len(s) :
  Must(f, p, u, st) /\ Rank(s[i][1]) # 0 /\ Rank(s[i][1]) <= Rank(st[1]) => In(st, s)

\* What Main does without leaving phase p.
Keeps(f, p, st) ==
  \/ st \in Steps /\ MainMay(f, p, st)
  \/ st \in GoSteps /\ Fits(f, p, st[2], st[3])

Tag(st) == IF st[1] = "go" THEN st[2] ELSE st

\* ph gives the steps of s their phases, from p to q, and the steps R names are among them.
Labels(f, s, p, q, R, ph) ==
  /\ ph \in [1..(Len(s) + 1) -> 0..11]
  /\ ph[1] = p /\ ph[Len(s) + 1] = q
  /\ \A i, j \in 1..(Len(s) + 1) : i <= j => ph[i] <= ph[j]
  /\ \A i \in 1..Len(s) :
       \/ ph[i+1] = ph[i] /\ Keeps(f, ph[i], s[i])
       \/ <<ph[i], s[i], ph[i+1]>> \in Turns(f)
  /\ \A x \in R : \E i \in 1..Len(s) : ph[i+1] = ph[i] /\ x = <<ph[i], Tag(s[i])>>

\* s leads from phase p to phase q and takes the steps R names on the way.
Leads(f, s, p, q, R) ==
  s \in Seq(Steps \cup GoSteps) /\ \E ph : Labels(f, s, p, q, R, ph)

\* R has what must be begun, or done by Main, after phase p.
Foreseen(f, p, R) == \A q \in 0..11 : q > p =>
  /\ \A u \in Containers, st \in Steps : Must(f, q, u, st) => <<q, u>> \in R
  /\ \A st \in Steps : MainMust(f, q, st) => <<q, st>> \in R

----------------------------------------------------------------------------
(* The inductive invariant, in phase p with R left to Main. *)

Effect(u, st) ==
  LET n == st[1]
  IN  /\ n = "define" => <<st[2], st[2]>> \in defs
      /\ n = "replace" => <<u[2], st[2]>> \in defs
      /\ n \in {"append", "fund"} => st[2] \in allocations
      /\ n = "export" => st[2] \in paras
      /\ n = "copySpec" => spec[u] = u[2]
      /\ n = "writeKey" => key[u] = Key("genesis", u[2])
      /\ n = "writeGenesis" => file[st[2]] = CompleteGenesis
      /\ n = "copyRawSpec" => file[u] = CompleteGenesis
      /\ n = "writeArchive" => file[u] \in {CompleteGenesis, Torn}
      /\ n = "create" => container[u] # "none"
      /\ n = "start" /\ family # "namada" => container[u] = "running"

Types ==
  /\ family \in Families /\ result \in {"pending", "nil", "err"}
  /\ DOMAIN pc = Procs /\ DOMAIN seen = Procs /\ DOMAIN buf = Procs
  /\ DOMAIN file = Containers /\ DOMAIN spec = Containers
  /\ DOMAIN key = Containers /\ DOMAIN container = Containers

MainLeft(p, R) ==
  /\ p \in 0..11
  /\ result # "pending" => pc[Main] = <<>>
  /\ result # "err" =>
       Leads(family, pc[Main], p, LastPhase(family), R) /\ Linked(pc[Main]) /\ Foreseen(family, p, R)

Left(p) == \A u \in Containers :
  /\ pc[u] \in Seq(Steps) /\ Sorted(pc[u]) /\ Linked(pc[u]) /\ Whole(family, p, u, pc[u])
  /\ \A i \in 1..Len(pc[u]) : May(family, p, u, pc[u][i])

Fresh(p, R) == \A u \in Containers : <<p, u>> \in R /\ result # "err" => pc[u] = <<>>

Pending(p, R, u, st) ==
  \/ In(st, pc[u])
  \/ pc[u] = <<>> /\ (<<p, u>> \in R \/ failed \/ result = "err")
ItemsOK(p, R) == \A q \in 0..11, u \in Containers, st \in Steps : Must(family, q, u, st) =>
  /\ q < p => Effect(u, st)
  /\ q = p => Effect(u, st) \/ Pending(p, R, u, st)
MainItemsOK(p, R) == \A q \in 0..11, st \in Steps : MainMust(family, q, st) =>
  /\ q < p => Effect(Main, st)
  /\ q = p => Effect(Main, st) \/ <<p, st>> \in R \/ result = "err"

MutexOK == \A t \in Procs :
  /\ At(t, {"append"}) => mutex = t /\ seen[t] = allocations
  /\ At(t, {"replace"}) => mutex = t /\ seen[t] = defs

Within ==
  /\ defs \subseteq CompleteGenesis.defs
  /\ allocations \subseteq CompleteGenesis.allocations
  /\ paras \subseteq CompleteGenesis.paras

GenesisOK(p) ==
  /\ p >= 3 /\ family \in {"penumbra", "namada", "polkadot"} => genesis = CompleteGenesis
  /\ p >= 5 /\ family # "namada" => buf[Main] = CompleteGenesis
  /\ p >= 3 /\ family = "namada" => file[FirstValidator] \in {CompleteGenesis, Torn}
  /\ p >= 3 /\ family = "polkadot" => file[<<"relay", 1>>] = CompleteGenesis

BufOK == \A u \in Containers :
  /\ In(<<"writeArchive">>, pc[u]) /\ ~In(<<"readArchive">>, pc[u]) => buf[u] \in {CompleteGenesis, Torn}
  /\ In(<<"writeKey">>, pc[u]) /\ ~In(<<"readKeyOfNode">>, pc[u]) /\ ~In(<<"readValidatorWallet">>, pc[u])
       => buf[u] = Key("genesis", u[2])

Moment(f, u, n) ==
  CASE u[1] = "side" -> 6
    [] u[1] = "relay" -> 8
    [] u[1] \in {"client", "para"} -> 10
    [] OTHER -> IF n = "create" THEN 7 ELSE 8
ContainersOK(p) == \A u \in Containers :
  /\ container[u] # "none" => u \in ContainersOf(family) /\ p >= Moment(family, u, "create")
  /\ container[u] \in {"running", "exited"} => p >= Moment(family, u, "start")
  /\ container[u] = "running" /\ u[1] \in {"tm", "val", "full", "relay", "para", "thor"} =>
       file[u] = CompleteGenesis

\* No goroutine is at work, but for polkadot's copies of specs.
Quieted(p) == (family = "polkadot" /\ p = 0) \/ \A u \in Containers : pc[u] = <<>>
QuietOK(p) == result # "pending" => Quieted(p)
NilOK(p) == result = "nil" => p = LastPhase(family)

StartInv(p, R) ==
  /\ Types /\ MainLeft(p, R) /\ Left(p) /\ Fresh(p, R)
  /\ ItemsOK(p, R) /\ MainItemsOK(p, R)
  /\ MutexOK /\ Within /\ GenesisOK(p) /\ BufOK
  /\ ContainersOK(p) /\ QuietOK(p) /\ NilOK(p)

============================================================================
