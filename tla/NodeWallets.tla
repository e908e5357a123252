---------------------------- MODULE NodeWallets ----------------------------
(***************************************************************************)
(* The chains whose node keeps the keys: chain/utxo, chain/ethereum/geth    *)
(* and chain/ethereum/foundry.  Each has a map from key names to            *)
(* *NodeWallet behind a mutex MapAccess, a mutex txLock in every wallet,    *)
(* and does everything else with commands in one-shot containers.  A utxo   *)
(* wallet also counts its users, to load and unload it in the daemon, and a *)
(* utxo chain has a goroutine that mines.                                   *)
(*                                                                         *)
(* A call is a script: the steps it has left, each with its key name.  A    *)
(* step is a command, a look into the map, or an acquisition of a mutex; an *)
(* error drops the rest of the script and releases what deferred unlocks    *)
(* release.                                                                 *)
(*                                                                         *)
(* Abstractions: an address, keystore or account number is a position in    *)
(* accts, the node's accounts in the order they were made; an output is a   *)
(* member of Outputs, and every account starts with all of them (change and *)
(* coins of later blocks are new outputs, which nobody has spent); amounts, *)
(* scripts, formats and logs are left out.                                  *)
(***************************************************************************)
EXTENDS Naturals, Sequences, FiniteSets

CONSTANTS
  Threads,    \* goroutines of the test: 1..N
  Miner,      \* the goroutine Start leaves behind on a utxo chain
  Users,      \* key names of the test for each family
  Faucet, Mweb, Stranger, \* "faucet", "mweb"; a key name whose address the chain does not know
  Families,   \* "utxo", "utxoOld" (no wallets in the daemon), "geth", "anvil"
  UtxoConfigs, \* pairs: unload wallets after use, be a litecoin chain
  Outputs,    \* the outputs an account starts with, in the order they are listed
  MaxCalls,   \* bound: calls of the test for each family, Start included
  MaxFaults,  \* bound: commands that fail although the node would accept them
  MaxTries,   \* bound of the code: attempts of GetAddress to see a new account
  None

AllUsers == UNION {Users[f] : f \in Families}
Keys == AllUsers \cup {Faucet, Mweb}
Procs == Threads \cup {Miner}

ASSUME WalletsAssumption ==
  /\ 1 \in Threads /\ Threads \subseteq Nat /\ Miner \notin Threads /\ None \notin Procs
  /\ Families \subseteq {"utxo", "utxoOld", "geth", "anvil"}
  /\ {Faucet, Mweb, Stranger} \cap AllUsers = {} /\ Faucet # Mweb /\ Stranger \notin Keys
  /\ UtxoConfigs \subseteq BOOLEAN \X BOOLEAN /\ Outputs \subseteq Nat
  /\ MaxCalls \in [Families -> Nat] /\ {MaxFaults, MaxTries} \subseteq Nat

VARIABLES
  family, unloadAfterUse, litecoin,   \* the chain and how it is configured
  mapAccess,                          \* holder of MapAccess
  wallet,                             \* the map: key name -> pointer
  obj,                                \* the NodeWallets, by pointer
  nextAcctNum,
  started, mining, mwebDone,
  pc,        \* each goroutine's script: the steps left of its call
  ptr, got, listed, inputs, tries, await, \* its locals
  calls,     \* calls of the test so far
  created, loaded, accts, seen, spent,       \* the node: wallets, accounts, accounts web3 sees, spent outputs
  faults,
  failed,    \* history: key names some call failed with
  lost       \* history: key names a failed command had taken effect for

mapVars   == <<mapAccess, wallet, obj, nextAcctNum>>
chainVars == <<started, mining, mwebDone>>
localVars == <<ptr, got, listed, inputs, tries>>
nodeVars  == <<created, loaded, accts, seen, spent>>
history   == <<faults, failed, lost>>
config    == <<family, unloadAfterUse, litecoin>>
vars == <<config, mapVars, chainVars, pc, localVars, await, calls, nodeVars, history>>

----------------------------------------------------------------------------
(* Scripts *)

Do(steps, k) == [i \in DOMAIN steps |-> <<steps[i], k>>]

\* LoadWallet and UnloadWallet do nothing unless wallets are unloaded after use.
Loads == IF family = "utxo" /\ unloadAfterUse THEN <<"load">> ELSE <<>>
Unloads == IF family = "utxo" /\ unloadAfterUse THEN <<"unload">> ELSE <<>>

CreateWallet == IF family = "utxo" THEN <<"createwallet", "put">> \o Unloads ELSE <<>>
GetNewAddress == <<"forNewAddress">> \o Loads \o <<"getnewaddress", "setAddress">> \o Unloads
SetAccount == IF family = "utxoOld" THEN <<"forSetAccount", "setaccount">> ELSE <<>>
ListUnspent == <<"forUse">> \o Loads \o <<"listunspent">> \o Unloads
CreateRawTransaction == <<"forUse", "createrawtransaction">>
SignRawTransaction ==
  <<"forUse">> \o (IF family = "utxoOld" THEN <<"dumpprivkey">> ELSE <<>>)
    \o Loads \o <<"signrawtransaction">> \o Unloads

\* Mutant: the outputs are listed before txLock is taken.
SendFundsListsFirst ==
  Loads \o <<"forUse">> \o ListUnspent \o <<"txLock">> \o CreateRawTransaction \o SignRawTransaction
    \o <<"sendrawtransaction">> \o Unloads \o <<"wait">>

\* Mutant: the last UnloadWallet is missing.
SendFundsStaysLoaded ==
  Loads \o <<"forUse", "txLock">> \o ListUnspent \o CreateRawTransaction \o SignRawTransaction
    \o <<"sendrawtransaction", "wait">>

UtxoSendFunds ==
  Loads \o <<"forUse", "txLock">> \o ListUnspent \o CreateRawTransaction \o SignRawTransaction
    \o <<"sendrawtransaction">> \o Unloads \o <<"wait">>

SendToMwebAddress == <<"forUse">> \o Loads \o <<"txLock", "sendtoaddress", "txUnlock">> \o Unloads

GetBalance ==
  <<"keyOfAddress">> \o (IF family = "utxo" THEN Loads \o <<"getbalance">> \o Unloads ELSE ListUnspent)

UtxoBuildWallet == CreateWallet \o GetNewAddress \o SetAccount \o <<"getAddress">>

\* GetWalletVersion("") fails when the daemon has no default wallet.
UtxoStart(noDefault) ==
  CreateWallet \o (IF noDefault THEN Loads \o <<"getwalletinfo">> \o Unloads ELSE <<>>)
    \o GetNewAddress \o SetAccount \o <<"go", "wait", "up">>

GethNewKey == <<"reserveName", "accountNew", "number", "mapUnlock">>
GethRecoverKey == <<"reserveName", "import", "number", "mapUnlock">>
GethAddress == <<"mapLock", "readAccount", "mapUnlock">>
\* The faucet, account 0, need not be unlocked.
JavaScriptExecTx(k) ==
  <<"lookup">> \o (IF k = Faucet THEN <<>> ELSE <<"unlockAccount">>)
    \o <<"txLock", "sendTransaction", "wait", "txUnlock">>

AnvilNewKey == <<"mkdir", "reserveName", "accountNew", "number", "mapUnlock">>
AnvilRecoverKey == <<"mkdir", "import", "put">>
AnvilAddress == <<"lookup", "readAccount">>
AnvilSendFunds == <<"lookup", "txLock", "sendTransaction">>

EthereumStart == <<"start", "dial", "wait", "up">>

Start ==
  CASE family \in {"utxo", "utxoOld"} -> <<"start", "version">>
    [] family = "geth" -> EthereumStart
    [] family = "anvil" -> AnvilRecoverKey \o AnvilAddress \o EthereumStart \* the faucet's key comes first

Script(op, k) ==
  CASE op = "BuildWallet" ->
         (CASE family \in {"utxo", "utxoOld"} -> UtxoBuildWallet
            [] family = "geth" -> GethNewKey \o GethAddress
            [] family = "anvil" -> AnvilNewKey \o AnvilAddress)
    [] op = "RecoverWallet" ->
         IF family = "geth" THEN GethRecoverKey \o GethAddress ELSE AnvilRecoverKey \o AnvilAddress
    [] op = "SendFunds" ->
         (CASE family \in {"utxo", "utxoOld"} -> UtxoSendFunds
            [] family = "geth" -> JavaScriptExecTx(k)
            [] family = "anvil" -> AnvilSendFunds)
    [] op = "DeployContract" -> JavaScriptExecTx(k) \o <<"receipt", "receipt">>
    [] op = "GetBalance" -> GetBalance

OpsOf(f) ==
  CASE f \in {"utxo", "utxoOld"} -> {"BuildWallet", "SendFunds", "GetBalance"}
    [] f = "geth" -> {"BuildWallet", "RecoverWallet", "SendFunds", "DeployContract"}
    [] f = "anvil" -> {"BuildWallet", "RecoverWallet", "SendFunds"}

----------------------------------------------------------------------------
NewWallet(k, acct, count) ==
  [key |-> k, acct |-> acct, ready |-> FALSE, loadCount |-> count, mu |-> None, txLock |-> None]

Init ==
  /\ family \in Families
  /\ \E c \in IF family = "utxo" THEN UtxoConfigs ELSE {<<FALSE, FALSE>>} :
       unloadAfterUse = c[1] /\ litecoin = c[2]
  /\ mapAccess = None
  /\ obj = IF family = "geth" THEN <<NewWallet(Faucet, 1, 0)>> ELSE <<>>
  /\ wallet = [k \in Keys |-> IF family = "geth" /\ k = Faucet THEN 1 ELSE 0]
  /\ nextAcctNum = 2
  /\ started = FALSE /\ mining = FALSE /\ mwebDone = FALSE
  /\ pc = [t \in Procs |-> <<>>]
  /\ ptr = [t \in Procs |-> 0] /\ got = [t \in Procs |-> 0] /\ listed = [t \in Procs |-> {}] /\ inputs = [t \in Procs |-> {}]
  /\ tries = [t \in Procs |-> 0] /\ await = [t \in Procs |-> 0] /\ calls = 0
  /\ created = {} /\ loaded = {}
  /\ accts = IF family = "geth" THEN <<<<Faucet, "new">>>> ELSE <<>>
  /\ seen = Len(accts) /\ spent = [k \in Keys |-> {}]
  /\ faults = 0 /\ failed = {} /\ lost = {}

Busy(t) == pc[t] # <<>>
Step(t) == pc[t][1][1]
At(t, steps) == Busy(t) /\ Step(t) \in steps
Key(t) == pc[t][1][2]
Entry(t) == wallet[Key(t)]     \* pointer of the step's key name, 0 if there is none

\* k's address is in AddrToKeyNameMap, where it stays.
HasAddress(k) == k \in Keys /\ wallet[k] # 0 /\ obj[wallet[k]].acct # 0

----------------------------------------------------------------------------
(* How a call goes on and ends. *)

Released(o, t) ==
  [i \in DOMAIN o |-> [o[i] EXCEPT !.mu = IF @ = t THEN None ELSE @,
                                   !.txLock = IF @ = t THEN None ELSE @]]

\* Mutant: an error return leaves MapAccess taken.
FailKeepsMap(t) ==
  /\ pc' = [pc EXCEPT ![t] = <<>>]
  /\ obj' = Released(obj, t)
  /\ UNCHANGED mapAccess
  /\ failed' = failed \cup {Key(t)}
  /\ mining' = (mining /\ t # Miner)

\* An error: deferred unlocks run; the mining goroutine ends.
Fail(t) ==
  /\ pc' = [pc EXCEPT ![t] = <<>>]
  /\ obj' = Released(obj, t)
  /\ mapAccess' = IF mapAccess = t THEN None ELSE mapAccess
  /\ failed' = failed \cup {Key(t)}
  /\ mining' = (mining /\ t # Miner)

\* The step succeeded and left the wallets as o; txLock is released at the end of a call.
GoOn(t, o) ==
  /\ pc' = [pc EXCEPT ![t] = Tail(@)]
  /\ obj' = IF Len(pc[t]) = 1 THEN Released(o, t) ELSE o
  /\ UNCHANGED <<failed, mining>>

Turn(t, step) == pc' = [pc EXCEPT ![t][1][1] = step]

----------------------------------------------------------------------------
(* Calls *)

CallStart ==
  /\ ~started /\ calls = 0
  /\ pc' = [pc EXCEPT ![1] = Do(Start, Faucet)]
  /\ calls' = 1
  /\ UNCHANGED <<config, mapVars, chainVars, localVars, await, nodeVars, history>>

\* The goroutines are alike: the first idle one makes the next call.
Call(t) ==
  /\ started /\ ~Busy(t) /\ calls < MaxCalls[family] /\ \A u \in Threads : u < t => Busy(u)
  /\ \E op \in OpsOf(family), k \in Users[family] \cup {Faucet, Stranger} :
       /\ k = Faucet => op \in {"SendFunds", "GetBalance"}
       /\ k = Stranger => op = "GetBalance"
       /\ k # Stranger /\ op = "GetBalance" => HasAddress(k)
       /\ pc' = [pc EXCEPT ![t] = Do(Script(op, k), k)]
  /\ calls' = calls + 1
  /\ UNCHANGED <<config, mapVars, chainVars, localVars, await, nodeVars, history>>

----------------------------------------------------------------------------
(* Steps that lock MapAccess, look and unlock it again. *)

\* What the look finds wrong, if anything.
Refused(t) ==
  CASE Step(t) = "forNewAddress" ->
         IF family = "utxo" THEN Entry(t) = 0 \/ obj[Entry(t)].acct # 0 ELSE Entry(t) # 0
    [] Step(t) = "forUse" -> Entry(t) = 0 \/ ~obj[Entry(t)].ready
    [] Step(t) = "forSetAccount" -> Entry(t) = 0 \/ obj[Entry(t)].acct # got[t]
    [] Step(t) \in {"lookup", "getAddress"} -> Entry(t) = 0
    [] OTHER -> FALSE

\* What it leaves: put makes the entry, setAddress stores what getnewaddress printed.
Looked(t) ==
  LET fresh(acct, count) ==
        /\ wallet' = [wallet EXCEPT ![Key(t)] = Len(obj) + 1]
        /\ ptr' = [ptr EXCEPT ![t] = Len(obj) + 1]
        /\ GoOn(t, Append(obj, NewWallet(Key(t), acct, count)))
  IN CASE Step(t) = "put" -> fresh(IF family = "utxo" THEN 0 ELSE got[t], 1)
       [] Step(t) = "forNewAddress" /\ family = "utxoOld" -> fresh(0, 0)
       [] Step(t) = "setAddress" ->
            /\ GoOn(t, [obj EXCEPT ![Entry(t)].acct = got[t], ![Entry(t)].ready = (family = "utxo")])
            /\ UNCHANGED <<wallet, ptr>>
       [] OTHER ->
            /\ ptr' = [ptr EXCEPT ![t] = Entry(t)]
            /\ GoOn(t, obj) /\ UNCHANGED wallet

LookSteps == {"put", "forNewAddress", "forUse", "forSetAccount", "setAddress", "lookup", "getAddress"}

Look(t) ==
  /\ At(t, LookSteps) /\ mapAccess = None
  /\ IF Refused(t) THEN Fail(t) /\ UNCHANGED <<wallet, ptr>>
     ELSE Looked(t) /\ UNCHANGED mapAccess
  /\ UNCHANGED <<config, nextAcctNum, started, mwebDone, got, listed, inputs, tries, await, calls, nodeVars, faults, lost>>

\* GetBalance of an address that is not in the map returns with MapAccess taken.
KeyOfAddress(t) ==
  /\ At(t, {"keyOfAddress"}) /\ mapAccess = None
  /\ IF HasAddress(Key(t)) THEN GoOn(t, obj) /\ UNCHANGED mapAccess
     ELSE /\ pc' = [pc EXCEPT ![t] = <<>>]
          /\ mapAccess' = t
          /\ UNCHANGED <<obj, failed, mining>>
  /\ UNCHANGED <<config, wallet, nextAcctNum, started, mwebDone, localVars, await, calls, nodeVars, faults, lost>>

----------------------------------------------------------------------------
(* Mutexes *)

\* Mutant: the lock is given up once the name was found unused.
MapLockLetsGo(t) ==
  /\ At(t, {"reserveName", "mapLock"}) /\ mapAccess = None
  /\ IF (Step(t) = "reserveName") = (Entry(t) # 0)
     THEN Fail(t) /\ UNCHANGED ptr
     ELSE /\ UNCHANGED mapAccess /\ ptr' = [ptr EXCEPT ![t] = Entry(t)] /\ GoOn(t, obj)
  /\ UNCHANGED <<config, wallet, nextAcctNum, started, mwebDone, got, listed, inputs, tries, await, calls, nodeVars, faults, lost>>

\* geth and anvil hold MapAccess over a command: to make an account for an
\* unused name, and geth also to read the address of a used one.
MapLock(t) ==
  /\ At(t, {"reserveName", "mapLock"}) /\ mapAccess = None
  /\ IF (Step(t) = "reserveName") = (Entry(t) # 0)
     THEN Fail(t) /\ UNCHANGED ptr
     ELSE /\ mapAccess' = t /\ ptr' = [ptr EXCEPT ![t] = Entry(t)] /\ GoOn(t, obj)
  /\ UNCHANGED <<config, wallet, nextAcctNum, started, mwebDone, got, listed, inputs, tries, await, calls, nodeVars, faults, lost>>

MapUnlock(t) ==
  /\ At(t, {"mapUnlock"})
  /\ mapAccess' = None /\ GoOn(t, obj)
  /\ UNCHANGED <<config, wallet, nextAcctNum, started, mwebDone, localVars, await, calls, nodeVars, faults, lost>>

\* The new account enters the map: geth counts accounts itself, anvil takes
\* the keystore that the command printed.
Number(t) ==
  /\ At(t, {"number"})
  /\ wallet' = [wallet EXCEPT ![Key(t)] = Len(obj) + 1]
  /\ IF family = "geth"
     THEN /\ GoOn(t, Append(obj, NewWallet(Key(t), nextAcctNum, 0)))
          /\ nextAcctNum' = nextAcctNum + 1
     ELSE GoOn(t, Append(obj, NewWallet(Key(t), got[t], 0))) /\ UNCHANGED nextAcctNum
  /\ UNCHANGED <<config, mapAccess, started, mwebDone, localVars, await, calls, nodeVars, faults, lost>>

TxLock(t) ==
  /\ At(t, {"txLock"}) /\ obj[ptr[t]].txLock = None
  /\ GoOn(t, [obj EXCEPT ![ptr[t]].txLock = t])
  /\ UNCHANGED <<config, mapAccess, wallet, nextAcctNum, started, mwebDone, localVars, await, calls, nodeVars, faults, lost>>

TxUnlock(t) ==
  /\ At(t, {"txUnlock"})
  /\ GoOn(t, [obj EXCEPT ![ptr[t]].txLock = None])
  /\ UNCHANGED <<config, mapAccess, wallet, nextAcctNum, started, mwebDone, localVars, await, calls, nodeVars, faults, lost>>

\* LoadWallet and UnloadWallet: getWallet, then the wallet's mu, held while the
\* command runs.  A wallet once in the map is never replaced on a utxo chain.
\* LoadWallet has a command for the first user, UnloadWallet for the last.
Own(t) == obj[Entry(t)]

\* Mutant: UnloadWallet unloads the wallet whoever else uses it.
HasCommandAlways(t) ==
  Own(t).loadCount = 0 \/ Step(t) = "unload"

HasCommand(t) ==
  IF Step(t) = "load" THEN Own(t).loadCount = 0 ELSE Own(t).loadCount = 1

Counted(t) ==
  [obj EXCEPT ![Entry(t)].loadCount = IF Step(t) \in {"load", "loading"} THEN @ + 1
                                      ELSE IF @ > 0 THEN @ - 1 ELSE 0]

MuLock(t) ==
  /\ At(t, {"load", "unload"}) /\ mapAccess = None
  /\ IF Entry(t) = 0 THEN Fail(t)
     ELSE /\ Own(t).mu = None
          /\ IF HasCommand(t)
             THEN /\ obj' = [obj EXCEPT ![Entry(t)].mu = t]
                  /\ Turn(t, IF Step(t) = "load" THEN "loading" ELSE "unloading")
                  /\ UNCHANGED <<failed, mining>>
             ELSE GoOn(t, Counted(t))
          /\ UNCHANGED mapAccess
  /\ UNCHANGED <<config, wallet, nextAcctNum, started, mwebDone, localVars, await, calls, nodeVars, faults, lost>>

----------------------------------------------------------------------------
(* Commands *)

WalletCommands ==   \* run with -rpcwallet
  {"getnewaddress", "listunspent", "signrawtransaction", "sendtoaddress", "getbalance", "getwalletinfo"}
PlainCommands == {"start", "dial", "redial", "mkdir", "setaccount", "dumpprivkey", "receipt"}
Commands ==
  WalletCommands \cup PlainCommands \cup
  {"createwallet", "loading", "unloading", "createrawtransaction", "sendrawtransaction",
   "accountNew", "import", "readAccount", "unlockAccount", "sendTransaction"}

Unspent(k) == Outputs \ spent[k]

\* The node accepts the command.
Accepts(t) ==
  LET k == Key(t)
  IN CASE Step(t) = "createwallet" -> k \notin created
       [] Step(t) = "loading" -> k \in created \ loaded
       [] Step(t) = "unloading" -> k \in loaded
       [] Step(t) \in WalletCommands -> family = "utxo" => k \in loaded
       [] Step(t) = "createrawtransaction" -> listed[t] # {}
       [] Step(t) = "sendrawtransaction" -> inputs[t] \cap spent[k] = {}
       [] Step(t) = "import" -> \A i \in DOMAIN accts : accts[i] # <<k, "import">>
       [] Step(t) \in {"readAccount", "unlockAccount", "sendTransaction"} -> obj[ptr[t]].acct <= seen
       [] OTHER -> TRUE

\* What it does to the node.
Effect(t) ==
  LET k == Key(t)
      made(how) == accts' = Append(accts, <<k, how>>)
                   /\ UNCHANGED <<created, loaded, spent>>
                   /\ seen' = IF family = "geth" THEN seen ELSE Len(accts) + 1
  IN CASE Step(t) = "createwallet" ->
            created' = created \cup {k} /\ loaded' = loaded \cup {k} /\ UNCHANGED <<accts, seen, spent>>
       [] Step(t) = "loading" -> loaded' = loaded \cup {k} /\ UNCHANGED <<created, accts, seen, spent>>
       [] Step(t) = "unloading" -> loaded' = loaded \ {k} /\ UNCHANGED <<created, accts, seen, spent>>
       [] Step(t) \in {"getnewaddress", "accountNew"} -> made("new")
       [] Step(t) = "import" -> made("import")
       [] Step(t) = "sendrawtransaction" ->
            spent' = [spent EXCEPT ![k] = @ \cup inputs[t]] /\ UNCHANGED <<created, loaded, accts, seen>>
       [] Step(t) = "sendtoaddress" ->   \* the daemon chooses the outputs
            /\ \E chosen \in {{}, Unspent(k)} : spent' = [spent EXCEPT ![k] = @ \cup chosen]
            /\ UNCHANGED <<created, loaded, accts, seen>>
       [] OTHER -> UNCHANGED nodeVars

\* What the code does with the answer.
Store(t) ==
  LET k == Key(t)
  IN CASE Step(t) \in {"loading", "unloading"} ->
            GoOn(t, [Counted(t) EXCEPT ![Entry(t)].mu = None]) /\ UNCHANGED <<wallet, nextAcctNum, localVars>>
       [] Step(t) \in {"getnewaddress", "accountNew", "import"} ->
            got' = [got EXCEPT ![t] = Len(accts) + 1] /\ GoOn(t, obj)
            /\ UNCHANGED <<wallet, nextAcctNum, ptr, listed, inputs, tries>>
       [] Step(t) = "setaccount" ->
            GoOn(t, [obj EXCEPT ![ptr[t]].ready = TRUE]) /\ UNCHANGED <<wallet, nextAcctNum, localVars>>
       [] Step(t) = "listunspent" ->
            listed' = [listed EXCEPT ![t] = Unspent(k)] /\ GoOn(t, obj)
            /\ UNCHANGED <<wallet, nextAcctNum, ptr, got, inputs, tries>>
       [] Step(t) = "createrawtransaction" ->   \* the first ones that suffice for the amount
            /\ \E last \in listed[t] : inputs' = [inputs EXCEPT ![t] = {o \in listed[t] : o <= last}]
            /\ GoOn(t, obj) /\ UNCHANGED <<wallet, nextAcctNum, ptr, got, listed, tries>>
       [] OTHER -> GoOn(t, obj) /\ UNCHANGED <<wallet, nextAcctNum, localVars>>

Exec(t) ==
  /\ At(t, Commands)
  /\ Accepts(t) /\ Effect(t) /\ Store(t)
  /\ UNCHANGED <<config, mapAccess, started, mwebDone, await, calls, faults, lost>>

\* The node refuses, or signing is not complete.
Rejected(t) ==
  /\ At(t, Commands \ {"readAccount"}) /\ ~Accepts(t)
  /\ Fail(t)
  /\ UNCHANGED <<config, wallet, nextAcctNum, started, mwebDone, localVars, await, calls, nodeVars, faults, lost>>

\* "it can take a second or two for the web3 interface to get access to a new account"
Undefined(t) ==
  /\ At(t, {"readAccount"}) /\ ~Accepts(t)
  /\ IF tries[t] < MaxTries
     THEN tries' = [tries EXCEPT ![t] = @ + 1] /\ UNCHANGED <<pc, obj, mapAccess, failed, mining>>
     ELSE tries' = [tries EXCEPT ![t] = 0] /\ Fail(t)
  /\ UNCHANGED <<config, wallet, nextAcctNum, started, mwebDone, ptr, got, listed, inputs, await, calls, nodeVars, faults, lost>>

HasEffect == {"createwallet", "loading", "unloading", "getnewaddress", "accountNew", "import", "sendrawtransaction", "sendtoaddress"}

\* The container fails, before the command took effect or after it.
Faulty(t) ==
  /\ At(t, Commands \ {"dial"})
  /\ IF t = Miner /\ ~mining THEN UNCHANGED faults ELSE faults < MaxFaults /\ faults' = faults + 1
  /\ \/ UNCHANGED <<nodeVars, lost>>
     \/ Step(t) \in HasEffect /\ Accepts(t) /\ Effect(t) /\ lost' = lost \cup {Key(t)}
  /\ Fail(t)
  /\ UNCHANGED <<config, wallet, nextAcctNum, started, mwebDone, localVars, await, calls>>

\* A failed dial is repeated once.
DialAgain(t) ==
  /\ At(t, {"dial"}) /\ faults < MaxFaults
  /\ faults' = faults + 1 /\ Turn(t, "redial")
  /\ UNCHANGED <<config, mapVars, chainVars, localVars, await, calls, nodeVars, failed, lost>>

----------------------------------------------------------------------------
(* Start, blocks, and the mining goroutine *)

\* A utxo daemon without a default wallet cannot tell its version yet; an old
\* one that does not tell is taken for a new one, and refuses createwallet.
Version(t) ==
  /\ At(t, {"version"})
  /\ \/ \E noDefault \in (IF family = "utxo" THEN BOOLEAN ELSE {FALSE}) :
          /\ pc' = [pc EXCEPT ![t] = Do(UtxoStart(noDefault), Faucet)]
          /\ UNCHANGED <<obj, mapAccess, failed, mining, faults>>
     \/ family = "utxoOld" /\ faults < MaxFaults /\ faults' = faults + 1 /\ Fail(t)
  /\ UNCHANGED <<config, wallet, nextAcctNum, started, mwebDone, localVars, await, calls, nodeVars, lost>>

\* The goroutine gives up at once if the faucet's wallet is not ready.
Go(t) ==
  /\ At(t, {"go"}) /\ mapAccess = None
  /\ pc' = [pc EXCEPT ![t] = Tail(@)]
  /\ mining' = (wallet[Faucet] # 0 /\ obj[wallet[Faucet]].ready)
  /\ UNCHANGED <<config, mapVars, started, mwebDone, localVars, await, calls, nodeVars, history>>

Up(t) ==
  /\ At(t, {"up"})
  /\ started' = TRUE /\ GoOn(t, obj)
  /\ UNCHANGED <<config, mapAccess, wallet, nextAcctNum, mwebDone, localVars, await, calls, nodeVars, faults, lost>>

Utxo == family \in {"utxo", "utxoOld"}

\* WaitForBlocks: the height now, and then heights until enough blocks are made.
Wait(t) ==
  /\ At(t, {"wait"})
  /\ await' = [await EXCEPT ![t] = IF Utxo THEN 1 ELSE 2] /\ Turn(t, "waiting")
  /\ UNCHANGED <<config, mapVars, chainVars, localVars, calls, nodeVars, history>>

Waited(t) ==
  /\ At(t, {"waiting"}) /\ await[t] = 0
  /\ GoOn(t, obj)
  /\ UNCHANGED <<config, mapAccess, wallet, nextAcctNum, started, mwebDone, localVars, await, calls, nodeVars, faults, lost>>

\* A height query fails.  The loop of utxo's Start has an err of its own, so Start returns nil.
WaitFails(t) ==
  /\ At(t, {"waiting"}) /\ faults < MaxFaults
  /\ faults' = faults + 1 /\ await' = [await EXCEPT ![t] = 0]
  /\ IF Utxo /\ ~started THEN GoOn(t, obj) /\ UNCHANGED mapAccess ELSE Fail(t)
  /\ UNCHANGED <<config, wallet, nextAcctNum, started, mwebDone, localVars, calls, nodeVars, lost>>

MwebScript == Do(CreateWallet \o GetNewAddress, Mweb) \o Do(SendToMwebAddress, Faucet)

\* generatetoaddress, or a block of an ethereum node; block 431 of a litecoin
\* chain, long after Start, is followed by a transaction to an mweb address.
NewBlock ==
  /\ Utxo => mining /\ ~Busy(Miner)
  /\ await' = [t \in Procs |-> IF await[t] > 0 THEN await[t] - 1 ELSE 0]
  /\ \/ (\E t \in Procs : await[t] > 0) /\ UNCHANGED <<pc, mwebDone>>
     \/ /\ litecoin /\ started /\ ~mwebDone /\ mwebDone' = TRUE
        /\ pc' = [pc EXCEPT ![Miner] = MwebScript]
  /\ UNCHANGED <<config, mapVars, started, mining, localVars, calls, nodeVars, history>>

\* An error of generatetoaddress ends the goroutine.
MiningFails ==
  /\ Utxo /\ mining /\ ~Busy(Miner) /\ faults < MaxFaults
  /\ faults' = faults + 1 /\ mining' = FALSE
  /\ UNCHANGED <<config, mapVars, started, mwebDone, pc, localVars, await, calls, nodeVars, failed, lost>>

\* web3 gets access to an account.
Appears ==
  /\ seen < Len(accts) /\ seen' = seen + 1
  /\ UNCHANGED <<config, mapVars, chainVars, pc, localVars, await, calls, created, loaded, accts, spent, history>>

CallsMade ==
  /\ \A t \in Threads : ~Busy(t)
  /\ calls = MaxCalls[family] \/ (~started /\ calls > 0)

\* Stop, when the test is over.
Stop ==
  /\ CallsMade /\ started /\ mining
  /\ mining' = FALSE
  /\ UNCHANGED <<config, mapVars, started, mwebDone, pc, localVars, await, calls, nodeVars, history>>

----------------------------------------------------------------------------
Acquire(t) ==
  Look(t) \/ KeyOfAddress(t) \/ MapLock(t) \/ TxLock(t) \/ MuLock(t) \/ Go(t)

Advance(t) ==
  \/ MapUnlock(t) \/ Number(t) \/ TxUnlock(t)
  \/ Exec(t) \/ Rejected(t) \/ Undefined(t)
  \/ Version(t) \/ Up(t) \/ Wait(t) \/ Waited(t)

Errors(t) == Faulty(t) \/ DialAgain(t) \/ WaitFails(t)

Leaked == Utxo /\ mapAccess # None   \* KeyOfAddress left it taken: nothing else keeps it past a step

\* The goroutine that mines waits for the faucet's txLock, and its holder for a block.
MwebStuck ==
  /\ At(Miner, {"txLock"})
  /\ \E t \in Threads : At(t, {"waiting"}) /\ obj[ptr[Miner]].txLock = t /\ await[t] > 0

NoMoreBlocks == Utxo /\ (~mining \/ MwebStuck)

Next ==
  \/ CallStart \/ NewBlock \/ MiningFails \/ Appears \/ Stop
  \/ \E t \in Threads : Call(t)
  \/ \E t \in Procs : Acquire(t) \/ Advance(t) \/ Errors(t)

Spec == Init /\ [][Next]_vars

(***************************************************************************)
(* Fairness: goroutines run, commands end, a mutex does not starve a waiter *)
(* (Go's starvation mode), the timer of the mining goroutine and the        *)
(* ethereum node's block period go on, web3 sees a new account in time.     *)
(***************************************************************************)
FairSpec ==
  /\ Spec
  /\ \A t \in Procs : SF_vars(Acquire(t)) /\ WF_vars(Advance(t))
  /\ WF_vars(NewBlock) /\ WF_vars(Appears)

----------------------------------------------------------------------------
(* Properties *)

\* A command with -rpcwallet runs while the daemon has the wallet loaded,
\* whichever other calls load and unload it, unless the answer to an earlier
\* command on the wallet was lost (LoadWallet, UnloadWallet).
WalletLoaded ==
  \A t \in Procs :
    At(t, WalletCommands) /\ family = "utxo" => Key(t) \in loaded \cup lost

\* A transaction put together from listed outputs is sent while they are still
\* unspent: no other call and not the mining goroutine's mweb transaction has
\* used one of them in between (txLock in SendFundsWithNote, sendToMwebAddress).
NoDoubleSpend ==
  \A t \in Procs : At(t, {"sendrawtransaction"}) => inputs[t] \cap spent[Key(t)] = {}

\* "will load/unload a wallet for each action": when no call is under way no
\* wallet is loaded, except those some call failed with.
IdleUnloaded ==
  unloadAfterUse /\ (\A t \in Procs : ~Busy(t)) => loaded \subseteq failed

\* The account behind a key name was made for that name: what is sent from or
\* to the name's address moves the name's coins.  geth counts accounts on its
\* own side, so there a command that failed after its effect is excepted.
AccountMadeFor ==
  (family = "geth" /\ lost # {}) \/
  \A k \in Keys :
    wallet[k] # 0 /\ obj[wallet[k]].acct # 0 =>
      obj[wallet[k]].acct \in DOMAIN accts /\ accts[obj[wallet[k]].acct][1] = k

\* A step of anvil's RecoverKey that stores k's imported key, over an entry if there is one.
Replaces(k) ==
  family = "anvil" /\ \E t \in Procs : At(t, {"put"}) /\ Key(t) = k /\ pc'[t] # pc[t]

\* "once wallet is created, it doesn't change" (geth_chain.go:30, anvil_chain.go:28):
\* the account behind a key name is one made for that name and stays the same, whatever
\* calls interleave.  The code breaks the comment in one place, excepted here:
\* anvil's RecoverKey looks at no entry before it stores its own (anvil_chain.go:130-134),
\* so a name that BuildWallet made gets another account of that name.
KeyOwnsAccount ==
  [][/\ AccountMadeFor'
     /\ \A k \in Keys : HasAddress(k) /\ ~Replaces(k) =>
          wallet'[k] # 0 /\ obj'[wallet'[k]].acct = obj[wallet[k]].acct]_vars

\* Every call returns, unless GetBalance was asked for an unknown address and
\* kept MapAccess, or there are no more blocks: mining failed, or it waits for a
\* lock whose holder waits for a block.
CallsReturn ==
  \A t \in Threads : Busy(t) ~> (~Busy(t) \/ Leaked \/ NoMoreBlocks)

\* "the mweb transaction needed at block 431" (cli.go:189) is made or fails: the
\* mining goroutine comes back to its loop.
MwebTransactionEnds == Busy(Miner) ~> (~Busy(Miner) \/ Leaked)
=============================================================================
