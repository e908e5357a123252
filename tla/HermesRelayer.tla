--------------------------- MODULE HermesRelayer ---------------------------
(***************************************************************************)
(* The hermes relayer of relayer/hermes/hermes_relayer.go: an in-memory     *)
(* table of paths, a sync.RWMutex `lock' for the relayer's state, and one   *)
(* sync.Mutex per configured chain.  Every operation on a path takes the    *)
(* two mutexes of the path's chains in getAndLockPath, with r.lock held,    *)
(* runs hermes commands in one-off containers, and stores the IDs they      *)
(* print in the shared *pathConfiguration.                                  *)
(*                                                                         *)
(* Goroutines call the relayer concurrently: Interchain.Build links every   *)
(* path in a goroutine of its own (interchain.go:426-546).                  *)
(*                                                                         *)
(* Abstractions: an ID is the position of the object on its chain (hermes   *)
(* numbers clients, connections and channels per chain); a command is the   *)
(* chains and IDs on its command line, and hermes itself finds the chain at *)
(* the other end of a client or a connection; the time a command takes is   *)
(* the gap between BuildCommand and RunCommand.                             *)
(***************************************************************************)
EXTENDS Naturals, Sequences, FiniteSets

CONSTANTS
  Threads,     \* goroutines that call the relayer
  Chains,      \* chain IDs
  Paths,       \* path names
  PathEnds,    \* [Paths -> Chains \X Chains]: the arguments of GeneratePath
  Configured,  \* chains configured before the calls modelled here start
  Generated,   \* sequence of the paths generated before those calls
  PathsOf,     \* [Threads -> SUBSET Paths]: the paths a goroutine works on
  Ops,         \* the operations the goroutines call
  UpdateOpts,  \* the PathUpdateOptions the goroutines pass to UpdatePath
  ClientPairs, \* the source and destination chains they pass to CreateClient
  Tracked,     \* [Chains -> Seq(Chains)]: what the clients made before those calls track
  MaxCalls,    \* bound: calls per goroutine
  MaxIDs,      \* bound: clients, connections and channels per chain
  MaxObjs,     \* bound: pathConfiguration values ever allocated
  None         \* no goroutine, no pointer, no value

ASSUME ConstantsAssumption ==
  /\ None \notin Threads
  /\ Configured \subseteq Chains /\ PathsOf \in [Threads -> SUBSET Paths]
  /\ Generated \in Seq(Paths) /\ Len(Generated) <= MaxObjs
  /\ PathEnds \in [Paths -> Chains \X Chains]
  /\ ClientPairs \subseteq Chains \X Chains /\ Tracked \in [Chains -> Seq(Chains)]
  /\ MaxIDs \in Nat /\ MaxObjs \in Nat /\ MaxCalls \in Nat

\* AddLink refuses a link from a chain to itself (interchain.go:213-217).
ASSUME DistinctEndsAssumption ==
  \A p \in Paths : PathEnds[p][1] # PathEnds[p][2]

VARIABLES
  gate,       \* holder of r.lock for writing, from the moment it announces itself
  readers,    \* read holds of r.lock, the ones never released included
  owner,      \* [Chains -> Threads or None]: holder of the chain's mutex
  chainLocks, \* chains with an entry in r.chainLocks
  configs,    \* r.chainConfigs: chains, in the order they were appended
  paths,      \* r.paths: path name -> pathConfiguration pointer
  obj,        \* the pathConfiguration values, by pointer
  pc, todo, pname, arg, ptr, lk, cmd, ok, calls, \* each goroutine's locals
  clients, conns, chans, \* each chain's IBC clients, connections and channels
  panicked    \* a goroutine panicked: the test binary is gone

relayerVars == <<gate, readers, owner, chainLocks, configs, paths, obj>>
localVars   == <<pc, todo, pname, arg, ptr, lk, cmd, ok, calls>>
chainVars   == <<clients, conns, chans>>
vars == <<relayerVars, localVars, chainVars, panicked>>

----------------------------------------------------------------------------
Ends == 1..2                      \* chainA, chainB
Pair(x, y) == <<x, y>>
Both(x) == Pair(x, x)
Other(e) == 3 - e

\* Build only ever updates client IDs (interchain.go:472-475).
ASSUME UpdateOptsAssumption ==
  UpdateOpts \subseteq [chain: {Both(None)}, client: [Ends -> Nat \cup {None}], conn: {Both(None)}]

\* The pathConfiguration values: a chain's ID, or the client ID that CreateClient puts there.
pathConfiguration ==
  [chain: [Ends -> Chains \cup Nat], client: [Ends -> Nat], conn: [Ends -> Nat], port: [Ends -> BOOLEAN]]

\* A client ID is no chain ID, and None is no value of the relayer's.
ASSUME IDsAssumption ==
  Chains \cap Nat = {} /\ None \notin Chains \cup Nat /\ None \notin pathConfiguration

\* pathConfiguration, as GeneratePath allocates it: chain IDs and nothing else.
NewPath(ends) == [chain |-> ends, client |-> Both(0), conn |-> Both(0), port |-> Both(FALSE)]

\* Operations that go through getAndLockPath.
LockingOps == {"CreateClients", "CreateConnections", "CreateChannel", "UpdateClients", "CreateClient"}

\* The steps of a call, in order; a step that fails ends the call.
Steps(op) ==
  CASE op = "LinkPath" -> <<"pathExists", "CreateClients", "CreateConnections", "CreateChannel">>
    [] op = "AddChainConfiguration" -> <<"configContent", "validateConfig", "chainLock">>
    [] OTHER -> <<op>>

\* Where a step begins: at RLock, at Lock, or at a command that needs no lock.
Entry(step) ==
  IF step \in {"pathExists", "Flush"} THEN "rlock"
  ELSE IF step = "validateConfig" THEN "bare"
  ELSE "gate"

Step(t) == Head(todo[t])

Init ==
  /\ gate = None /\ readers = 0
  /\ owner = [c \in Chains |-> None]
  /\ chainLocks = Configured
  /\ configs = <<>>
  /\ paths = [p \in Paths |-> IF \E i \in DOMAIN Generated : Generated[i] = p
                              THEN CHOOSE i \in DOMAIN Generated : Generated[i] = p
                              ELSE None]
  /\ obj = [o \in 1..MaxObjs |-> IF o <= Len(Generated)
                                 THEN NewPath(PathEnds[Generated[o]])
                                 ELSE None]
  /\ pc = [t \in Threads |-> "idle"]
  /\ todo = [t \in Threads |-> <<>>]
  /\ pname = [t \in Threads |-> None] /\ arg = [t \in Threads |-> None]
  /\ ptr = [t \in Threads |-> None] /\ lk = [t \in Threads |-> Both(None)]
  /\ cmd = [t \in Threads |-> None] /\ ok = [t \in Threads |-> TRUE]
  /\ calls = [t \in Threads |-> 0]
  /\ clients = Tracked /\ conns = [c \in Chains |-> <<>>]
  /\ chans = [c \in Chains |-> <<>>]
  /\ panicked = FALSE

Goto(t, to) == pc' = [pc EXCEPT ![t] = to]

\* A step of a call returned: the next one starts, or the call ends.
Finish(t, success) ==
  IF success /\ Len(todo[t]) > 1
  THEN /\ todo' = [todo EXCEPT ![t] = Tail(@)]
       /\ Goto(t, Entry(todo[t][2]))
       /\ ok' = [ok EXCEPT ![t] = TRUE]
  ELSE /\ Goto(t, "idle") /\ todo' = [todo EXCEPT ![t] = <<>>]
       /\ ok' = [ok EXCEPT ![t] = success]

----------------------------------------------------------------------------
(* Calls the test makes. *)

Call(t, op, p, a) ==
  /\ ~panicked /\ pc[t] = "idle" /\ calls[t] < MaxCalls /\ op \in Ops
  /\ calls' = [calls EXCEPT ![t] = @ + 1]
  /\ todo' = [todo EXCEPT ![t] = Steps(op)]
  /\ Goto(t, Entry(Steps(op)[1]))
  /\ pname' = [pname EXCEPT ![t] = p] /\ arg' = [arg EXCEPT ![t] = a]
  /\ ok' = [ok EXCEPT ![t] = TRUE]
  /\ UNCHANGED <<relayerVars, ptr, lk, cmd, chainVars, panicked>>

CallOnPath(t) ==
  \E op \in {"LinkPath", "CreateClients", "CreateConnections", "CreateChannel", "UpdateClients"}, p \in PathsOf[t] :
    Call(t, op, p, None)

\* CreateClient names the host and the reference chain next to the path, whose chains
\* they need not be.
CallCreateClient(t) == \E p \in PathsOf[t], d \in ClientPairs : Call(t, "CreateClient", p, d)

CallUpdatePath(t) == \E p \in PathsOf[t], o \in UpdateOpts : Call(t, "UpdatePath", p, o)

\* No more calls than there are pathConfigurations to allocate.
CallGeneratePath(t) ==
  /\ Cardinality({o \in 1..MaxObjs : obj[o] = None}) >
       Cardinality({u \in Threads : todo[u] = <<"GeneratePath">>})
  /\ \E p \in PathsOf[t] : Call(t, "GeneratePath", p, PathEnds[p])

\* "called once per chain configuration" (hermes_relayer.go:85)
CallAddChainConfiguration(t) ==
  \E c \in Chains \ chainLocks :
    /\ \A i \in 1..Len(configs) : configs[i] # c
    /\ \A u \in Threads : pc[u] # "idle" => arg[u] # c
    /\ Call(t, "AddChainConfiguration", None, c)

CallFlush(t) == \E p \in PathsOf[t], n \in 1..MaxIDs : Call(t, "Flush", p, n)

----------------------------------------------------------------------------
(* sync.RWMutex: a writer announces itself, which blocks new readers, and   *)
(* then waits for the active readers.                                       *)

AnnounceLock(t) ==
  /\ ~panicked /\ pc[t] = "gate" /\ gate = None
  /\ gate' = t /\ Goto(t, "drain")
  /\ UNCHANGED <<readers, owner, chainLocks, configs, paths, obj, todo, pname, arg, ptr, lk, cmd, ok, calls, chainVars, panicked>>

AcquireLock(t) ==
  /\ ~panicked /\ pc[t] = "drain" /\ readers = 0
  /\ Goto(t, "gated")
  /\ UNCHANGED <<relayerVars, todo, pname, arg, ptr, lk, cmd, ok, calls, chainVars, panicked>>

RLock(t) ==
  /\ ~panicked /\ pc[t] = "rlock" /\ gate = None
  /\ readers' = readers + 1 /\ Goto(t, "reading")
  /\ UNCHANGED <<gate, owner, chainLocks, configs, paths, obj, todo, pname, arg, ptr, lk, cmd, ok, calls, chainVars, panicked>>

----------------------------------------------------------------------------
(* LinkPath's own lookup, under the read lock. *)

PathExists(t) ==
  /\ ~panicked /\ pc[t] = "reading" /\ Step(t) = "pathExists"
  /\ readers' = readers - 1
  /\ Finish(t, paths[pname[t]] # None)
  /\ UNCHANGED <<gate, owner, chainLocks, configs, paths, obj, pname, arg, ptr, lk, cmd, calls, chainVars, panicked>>

(* UpdatePath, GeneratePath and the two locked parts of AddChainConfiguration *)

UpdatePath(t) ==
  /\ ~panicked /\ pc[t] = "gated" /\ Step(t) = "UpdatePath"
  /\ LET o == paths[pname[t]]
         set(old, new) == [e \in Ends |-> IF new[e] = None THEN old[e] ELSE new[e]]
     IN /\ obj' = IF o = None THEN obj
                  ELSE [obj EXCEPT ![o].chain = set(@, arg[t].chain),
                                   ![o].client = set(@, arg[t].client),
                                   ![o].conn = set(@, arg[t].conn)]
        /\ Finish(t, o # None)
  /\ gate' = None
  /\ UNCHANGED <<readers, owner, chainLocks, configs, paths, pname, arg, ptr, lk, cmd, calls, chainVars, panicked>>

\* A second GeneratePath for a name replaces the pointer; calls in flight keep the old one.
GeneratePath(t) ==
  /\ ~panicked /\ pc[t] = "gated" /\ Step(t) = "GeneratePath"
  /\ \E o \in 1..MaxObjs :
       /\ obj[o] = None /\ \A n \in 1..(o - 1) : obj[n] # None
       /\ obj' = [obj EXCEPT ![o] = NewPath(arg[t])]
       /\ paths' = [paths EXCEPT ![pname[t]] = o]
  /\ Finish(t, TRUE) /\ gate' = None
  /\ UNCHANGED <<readers, owner, chainLocks, configs, pname, arg, ptr, lk, cmd, calls, chainVars, panicked>>

ConfigContent(t) ==
  /\ ~panicked /\ pc[t] = "gated" /\ Step(t) = "configContent"
  /\ configs' = Append(configs, arg[t])
  /\ \E success \in BOOLEAN : Finish(t, success)
  /\ gate' = None
  /\ UNCHANGED <<readers, owner, chainLocks, paths, obj, pname, arg, ptr, lk, cmd, calls, chainVars, panicked>>

\* Writing the file and running `hermes config validate': either can fail.
ValidateConfig(t) ==
  /\ ~panicked /\ pc[t] = "bare" /\ Step(t) = "validateConfig"
  /\ \E success \in BOOLEAN : Finish(t, success)
  /\ UNCHANGED <<relayerVars, pname, arg, ptr, lk, cmd, calls, chainVars, panicked>>

AddChainLock(t) ==
  /\ ~panicked /\ pc[t] = "gated" /\ Step(t) = "chainLock"
  /\ chainLocks' = chainLocks \cup {arg[t]}
  /\ Finish(t, TRUE) /\ gate' = None
  /\ UNCHANGED <<readers, owner, configs, paths, obj, pname, arg, ptr, lk, cmd, calls, chainVars, panicked>>

----------------------------------------------------------------------------
(* getAndLockPath: lookup, then both chain mutexes, with r.lock held throughout. *)

\* Mutant: r.lock is released after the lookup, before the chain mutexes are taken.
LookupPathReleasesGate(t) ==
  /\ ~panicked /\ pc[t] = "gated" /\ Step(t) \in LockingOps
  /\ LET o == paths[pname[t]]
     IN IF o = None
        THEN /\ Finish(t, FALSE) /\ UNCHANGED <<ptr, lk>>
        ELSE /\ ptr' = [ptr EXCEPT ![t] = o]
             /\ lk' = [lk EXCEPT ![t] = obj[o].chain]
             /\ Goto(t, "lockA") /\ UNCHANGED <<todo, ok>>
  /\ gate' = None
  /\ UNCHANGED <<readers, owner, chainLocks, configs, paths, obj, pname, arg, cmd, calls, chainVars, panicked>>

LookupPath(t) ==
  /\ ~panicked /\ pc[t] = "gated" /\ Step(t) \in LockingOps
  /\ LET o == paths[pname[t]]
     IN IF o = None
        THEN /\ Finish(t, FALSE) /\ gate' = None /\ UNCHANGED <<ptr, lk>>
        ELSE /\ ptr' = [ptr EXCEPT ![t] = o]
             /\ lk' = [lk EXCEPT ![t] = obj[o].chain]
             /\ Goto(t, "lockA") /\ UNCHANGED <<gate, todo, ok>>
  /\ UNCHANGED <<readers, owner, chainLocks, configs, paths, obj, pname, arg, cmd, calls, chainVars, panicked>>

\* Lock on the nil *sync.Mutex of a chain without an entry in chainLocks.
LockMissingChain(t) ==
  /\ ~panicked
  /\ \E e \in Ends : pc[t] = <<"lockA", "lockB">>[e] /\ lk[t][e] \notin chainLocks
  /\ panicked' = TRUE
  /\ UNCHANGED <<relayerVars, localVars, chainVars>>

LockChainA(t) ==
  /\ ~panicked /\ pc[t] = "lockA" /\ lk[t][1] \in chainLocks /\ owner[lk[t][1]] = None
  /\ owner' = [owner EXCEPT ![lk[t][1]] = t]
  /\ Goto(t, "lockB")
  /\ UNCHANGED <<gate, readers, chainLocks, configs, paths, obj, todo, pname, arg, ptr, lk, cmd, ok, calls, chainVars, panicked>>

\* Mutant: only the first chain is locked.
LockChainBSkipped(t) ==
  /\ ~panicked /\ pc[t] = "lockB" /\ lk[t][2] \in chainLocks
  /\ gate' = None
  /\ Goto(t, "build1")
  /\ UNCHANGED <<readers, owner, chainLocks, configs, paths, obj, todo, pname, arg, ptr, lk, cmd, ok, calls, chainVars, panicked>>

\* The deferred r.lock.Unlock runs when getAndLockPath returns.
LockChainB(t) ==
  /\ ~panicked /\ pc[t] = "lockB" /\ lk[t][2] \in chainLocks /\ owner[lk[t][2]] = None
  /\ owner' = [owner EXCEPT ![lk[t][2]] = t]
  /\ gate' = None
  /\ Goto(t, "build1")
  /\ UNCHANGED <<readers, chainLocks, configs, paths, obj, todo, pname, arg, ptr, lk, cmd, ok, calls, chainVars, panicked>>

----------------------------------------------------------------------------
(* Commands.  kind, the host chain, the reference chain and the IDs of a command line. *)

CommandOf(t, e) ==
  LET p == obj[ptr[t]]
      c(kind, host, ref, ids) == [kind |-> kind, host |-> host, ref |-> ref, ids |-> ids]
  IN CASE Step(t) = "CreateClients"     -> c("client", p.chain[e], p.chain[Other(e)], Both(0))
       [] Step(t) = "CreateClient"      -> c("client", arg[t][1], arg[t][2], Both(0))
       [] Step(t) = "UpdateClients"     -> c("update", p.chain[e], None, Both(p.client[e]))
       [] Step(t) = "CreateConnections" -> c("conn", p.chain[1], None, p.client)
       [] Step(t) = "CreateChannel"     -> c("chan", p.chain[1], None, p.conn)

\* The command line is put together from the path's fields as they are now.
BuildCommand(t) ==
  /\ ~panicked
  /\ \E e \in Ends :
       /\ pc[t] = <<"build1", "build2">>[e]
       /\ cmd' = [cmd EXCEPT ![t] = CommandOf(t, e)]
       /\ Goto(t, <<"run1", "run2">>[e])
  /\ UNCHANGED <<relayerVars, todo, pname, arg, ptr, lk, ok, calls, chainVars, panicked>>

Running(t) == pc[t] \in {"run1", "run2"}
End(t) == IF pc[t] = "run1" THEN 1 ELSE 2

\* The chain at the other end of a command: the reference chain, or the one hermes
\* finds, which the host's client tracks or the host's connection leads to.
Peer(c) ==
  CASE c.kind = "client" -> c.ref
    [] c.kind \in {"update", "conn"} ->
         IF c.host \in Chains /\ c.ids[1] \in DOMAIN clients[c.host] THEN clients[c.host][c.ids[1]] ELSE None
    [] c.kind = "chan" ->
         IF c.host \in Chains /\ c.ids[1] \in DOMAIN conns[c.host] THEN conns[c.host][c.ids[1]].peer ELSE None

WorksOn(c) == {c.host, Peer(c)} \cap Chains

\* What hermes needs of the chains for the command to succeed: two chains, and room for
\* what it makes; the other end of a connection has to track the host.
Valid(c) ==
  LET peer == Peer(c)
  IN /\ {c.host, peer} \subseteq Chains /\ c.host # peer
     /\ CASE c.kind = "client" -> Len(clients[c.host]) < MaxIDs
          [] c.kind = "update" -> TRUE
          [] c.kind = "conn" ->
               /\ c.ids[2] \in DOMAIN clients[peer] /\ clients[peer][c.ids[2]] = c.host
               /\ Len(conns[c.host]) < MaxIDs /\ Len(conns[peer]) < MaxIDs
          [] c.kind = "chan" -> Len(chans[c.host]) < MaxIDs

\* The IDs that a new connection of the command gets at its two ends.
NewConn(c) == Pair(Len(conns[c.host]) + 1, Len(conns[Peer(c)]) + 1)

\* What the command does to the chains.
Effect(c) ==
  CASE c.kind = "client" ->
         /\ clients' = [clients EXCEPT ![c.host] = Append(@, c.ref)]
         /\ UNCHANGED <<conns, chans>>
    [] c.kind = "update" -> UNCHANGED chainVars
    [] c.kind = "conn" ->
         LET peer == Peer(c)
             new == NewConn(c)
         IN /\ conns' = [conns EXCEPT
                 ![c.host] = Append(@, [client |-> c.ids[1], peer |-> peer, peerConn |-> new[2]]),
                 ![peer]   = Append(@, [client |-> c.ids[2], peer |-> c.host, peerConn |-> new[1]])]
            /\ UNCHANGED <<clients, chans>>
    [] c.kind = "chan" ->
         LET k == conns[c.host][c.ids[1]]
         IN /\ chans' = [chans EXCEPT ![c.host] = Append(@, c.ids[1]),
                                      ![k.peer] = Append(@, k.peerConn)]
            /\ UNCHANGED <<clients, conns>>

\* The IDs the operation stores in the path it locked.
Store(t, c) ==
  LET o == ptr[t]
      id == Len(clients[c.host]) + 1
  IN CASE Step(t) = "CreateClients" -> obj' = [obj EXCEPT ![o].client[End(t)] = id]
       [] Step(t) = "CreateClient" ->
            obj' = [obj EXCEPT ![o].chain =
                      IF @[1] = c.host THEN Pair(id, @[2])
                      ELSE IF @[2] = c.host THEN Pair(@[1], id) ELSE @]
       [] Step(t) = "UpdateClients" -> obj' = obj
       [] Step(t) = "CreateConnections" -> obj' = [obj EXCEPT ![o].conn = NewConn(c)]
       [] Step(t) = "CreateChannel" -> obj' = [obj EXCEPT ![o].port = Both(TRUE)]

TwoCommands(step) == step \in {"CreateClients", "UpdateClients"}

RunCommand(t) ==
  /\ ~panicked /\ Running(t) /\ Valid(cmd[t])
  /\ Effect(cmd[t]) /\ Store(t, cmd[t])
  /\ LET stored == Step(t) # "CreateClient" \/ cmd[t].host \in {obj[ptr[t]].chain[e] : e \in Ends}
     IN ok' = [ok EXCEPT ![t] = stored]
  /\ Goto(t, IF pc[t] = "run1" /\ TwoCommands(Step(t)) THEN "build2" ELSE "unlockA")
  /\ UNCHANGED <<gate, readers, owner, chainLocks, configs, paths, todo, pname, arg, ptr, lk, cmd, calls, panicked>>

\* Mutant: CreateConnections stores IDs of the output before it looks at the error.
CommandFailsStoresConn(t) ==
  /\ ~panicked /\ Running(t)
  /\ UNCHANGED chainVars
  /\ obj' = IF cmd[t].kind = "conn"
            THEN [obj EXCEPT ![ptr[t]].conn = Both(1)]
            ELSE obj
  /\ ok' = [ok EXCEPT ![t] = FALSE]
  /\ Goto(t, "unlockA")
  /\ UNCHANGED <<gate, readers, owner, chainLocks, configs, paths, todo, pname, arg, ptr, lk, cmd, calls, panicked>>

\* The container fails before the command reaches the chain, or the command
\* succeeds and its output is lost or cannot be parsed.
CommandFails(t) ==
  /\ ~panicked /\ Running(t)
  /\ \/ UNCHANGED chainVars
     \/ Valid(cmd[t]) /\ cmd[t].kind \in {"client", "conn"} /\ Effect(cmd[t])
  /\ ok' = [ok EXCEPT ![t] = FALSE]
  /\ Goto(t, "unlockA")
  /\ UNCHANGED <<relayerVars, todo, pname, arg, ptr, lk, cmd, calls, panicked>>

\* unlock(): chain A first, then chain B, then the operation returns.
UnlockChainA(t) ==
  /\ ~panicked /\ pc[t] = "unlockA"
  /\ owner' = [owner EXCEPT ![lk[t][1]] = None]
  /\ Goto(t, "unlockB")
  /\ UNCHANGED <<gate, readers, chainLocks, configs, paths, obj, todo, pname, arg, ptr, lk, cmd, ok, calls, chainVars, panicked>>

\* Mutant: unlock is called on success only, the error return skips it.
UnlockChainBOnSuccess(t) ==
  /\ ~panicked /\ pc[t] = "unlockB"
  /\ owner' = IF ok[t] THEN [owner EXCEPT ![lk[t][2]] = None] ELSE owner
  /\ ptr' = [ptr EXCEPT ![t] = None] /\ lk' = [lk EXCEPT ![t] = Both(None)]
  /\ cmd' = [cmd EXCEPT ![t] = None]
  /\ Finish(t, ok[t])
  /\ UNCHANGED <<gate, readers, chainLocks, configs, paths, obj, pname, arg, calls, chainVars, panicked>>

UnlockChainB(t) ==
  /\ ~panicked /\ pc[t] = "unlockB"
  /\ owner' = [owner EXCEPT ![lk[t][2]] = None]
  /\ ptr' = [ptr EXCEPT ![t] = None] /\ lk' = [lk EXCEPT ![t] = Both(None)]
  /\ cmd' = [cmd EXCEPT ![t] = None]
  /\ Finish(t, ok[t])
  /\ UNCHANGED <<gate, readers, chainLocks, configs, paths, obj, pname, arg, calls, chainVars, panicked>>

----------------------------------------------------------------------------
(* Flush: GetChannels runs with the read lock held. *)

FlushPathMissing(t) ==
  /\ ~panicked /\ pc[t] = "reading" /\ Step(t) = "Flush" /\ paths[pname[t]] = None
  /\ panicked' = TRUE      \* path is nil, path.chainA dereferences it
  /\ UNCHANGED <<relayerVars, localVars, chainVars>>

\* GetChannels failed, or no channel has the ID: both returns leave the read lock taken.
FlushReturnsError(t) ==
  /\ ~panicked /\ pc[t] = "reading" /\ Step(t) = "Flush" /\ paths[pname[t]] # None
  /\ Finish(t, FALSE)
  /\ UNCHANGED <<relayerVars, pname, arg, ptr, lk, cmd, calls, chainVars, panicked>>

FlushFindsChannel(t) ==
  /\ ~panicked /\ pc[t] = "reading" /\ Step(t) = "Flush" /\ paths[pname[t]] # None
  /\ LET a == obj[paths[pname[t]]].chain[1]
     IN a \in Chains /\ arg[t] \in 1..Len(chans[a])
  /\ readers' = readers - 1 /\ Goto(t, "bare")
  /\ UNCHANGED <<gate, owner, chainLocks, configs, paths, obj, todo, pname, arg, ptr, lk, cmd, ok, calls, chainVars, panicked>>

ClearPackets(t) ==
  /\ ~panicked /\ pc[t] = "bare" /\ Step(t) = "Flush"
  /\ \E success \in BOOLEAN : Finish(t, success)
  /\ UNCHANGED <<relayerVars, pname, arg, ptr, lk, cmd, calls, chainVars, panicked>>

----------------------------------------------------------------------------
Calls(t) ==
  \/ CallOnPath(t) \/ CallCreateClient(t) \/ CallUpdatePath(t)
  \/ CallGeneratePath(t) \/ CallAddChainConfiguration(t) \/ CallFlush(t)

Acquire(t) == AnnounceLock(t) \/ RLock(t) \/ LockChainA(t) \/ LockChainB(t)

Advance(t) ==
  \/ AcquireLock(t) \/ PathExists(t)
  \/ UpdatePath(t) \/ GeneratePath(t) \/ ConfigContent(t) \/ ValidateConfig(t) \/ AddChainLock(t)
  \/ LookupPath(t) \/ LockMissingChain(t)
  \/ BuildCommand(t) \/ RunCommand(t) \/ CommandFails(t)
  \/ UnlockChainA(t) \/ UnlockChainB(t)
  \/ FlushPathMissing(t) \/ FlushReturnsError(t) \/ FlushFindsChannel(t) \/ ClearPackets(t)

\* The test is over: every goroutine made its calls, or the binary panicked.
Over == panicked \/ \A t \in Threads : pc[t] = "idle" /\ calls[t] = MaxCalls
TestOver == Over /\ UNCHANGED vars

Next == (\E t \in Threads : Calls(t) \/ Acquire(t) \/ Advance(t)) \/ TestOver

Spec == Init /\ [][Next]_vars

(***************************************************************************)
(* Fairness: goroutines run, commands end (docker containers exit or the    *)
(* caller's context ends them), and sync.Mutex and sync.RWMutex do not      *)
(* starve a waiter (Go's starvation mode), hence SF for acquisitions.       *)
(***************************************************************************)
Fairness == \A t \in Threads :
  /\ WF_vars(Advance(t))
  /\ SF_vars(Acquire(t))

FairSpec == Spec /\ Fairness

----------------------------------------------------------------------------
(* Properties *)

\* The chains a goroutine's command works on although they are not its path's: what
\* CreateClient was called with (hermes_relayer.go:246), or the chain that hermes finds
\* behind a client or a connection that leads elsewhere (158, 184, 189, 139).
Astray(t) ==
  LET locked == {lk[t][1], lk[t][2]}
  IN IF Step(t) = "CreateClient" THEN {arg[t][1], arg[t][2]} \ locked
     ELSE IF Step(t) = "CreateClients" THEN {}
     ELSE {Peer(cmd[t])} \ locked

\* No two goroutines ever have hermes commands in flight on a common chain, in
\* whatever order their paths name the chains: the sequence numbers of the
\* relayer's account on a chain would collide.  getAndLockPath takes the mutexes of
\* the path's two chains; it takes none of the chains a command strays to.
ChainExclusive ==
  \A t, u \in Threads :
    t # u /\ Running(t) /\ Running(u) =>
      (WorksOn(cmd[t]) \ Astray(t)) \cap (WorksOn(cmd[u]) \ Astray(u)) = {}

\* A goroutine that waits for a chain's mutex while it holds another one has
\* r.lock: nobody else can be in the middle of taking its two mutexes, so
\* no cycle of waiting goroutines can form (comment at hermes_relayer.go:423).
HoldAndWaitGated ==
  \A t \in Threads :
    (\E c \in Chains : owner[c] = t) /\ pc[t] \in {"rlock", "gate", "drain", "gated", "lockA", "lockB"}
      => gate = t

\* The connection IDs a path remembers are the two ends of one connection of its
\* chain A, whichever commands failed or lost their output in between.
\* (A path whose chain ID CreateClient overwrote names no chain A.)
ConnectionReal ==
  \A o \in 1..MaxObjs :
    obj[o] # None /\ obj[o].conn # Both(0) /\ obj[o].chain[1] \in Chains =>
      LET a == obj[o].chain[1]
          near == conns[a][obj[o].conn[1]]
          far == conns[near.peer][obj[o].conn[2]]
      IN /\ obj[o].conn[1] \in DOMAIN conns[a] /\ obj[o].conn[2] \in DOMAIN conns[near.peer]
         /\ near.peerConn = obj[o].conn[2]
         /\ far.peer = a /\ far.peerConn = obj[o].conn[1]

\* ... and it leads to the path's chain B.
ConnectionJoins ==
  \A o \in 1..MaxObjs :
    obj[o] # None /\ obj[o].conn # Both(0) /\ (\A e \in Ends : obj[o].chain[e] \in Chains) =>
      conns[obj[o].chain[1]][obj[o].conn[1]].peer = obj[o].chain[2]

\* No connection is being created over a client of chain A that tracks a third chain.
NoForeignClient ==
  \A t \in Threads : Running(t) /\ cmd[t].kind = "conn" => Astray(t) \cap Chains = {}

\* The connection a path remembers is real, and it joins the path's two chains unless
\* some connection was created over a foreign client: the command names chain A and
\* two clients, and hermes connects to the chain that A's client tracks
\* (hermes_relayer.go:158), which is the wrong one in interchain.go:447-475.
PathJoinsItsChains ==
  \/ [](ConnectionReal /\ ConnectionJoins)
  \/ []ConnectionReal /\ <>~NoForeignClient

\* A Flush that returned an error has left its read lock behind.
FlushLeaked == readers # Cardinality({t \in Threads : pc[t] = "reading"})

\* Every call returns: no interleaving of operations on paths that name the same
\* chains in whatever order leaves one waiting for a lock for ever, as long as
\* no Flush has failed and kept r.lock (hermes_relayer.go:340-352).
EveryCallReturns ==
  \A t \in Threads : pc[t] # "idle" ~> (pc[t] = "idle" \/ panicked \/ FlushLeaked)
=============================================================================
