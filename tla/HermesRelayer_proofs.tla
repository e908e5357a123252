------------------------ MODULE HermesRelayer_proofs ------------------------
(***************************************************************************)
(* For any goroutines, chains, paths and calls of the hermes relayer: the   *)
(* chain mutexes of getAndLockPath cannot deadlock, and what they protect.  *)
(***************************************************************************)
EXTENDS HermesRelayer, TLAPS

\* The program counters of a goroutine: where it is in a step of its call.
PCs == {"idle", "rlock", "reading", "gate", "drain", "gated", "lockA", "lockB", "bare",
        "build1", "run1", "build2", "run2", "unlockA", "unlockB"}
\* ... at which it has r.lock for writing, from its announcement to its release.
GatePCs == {"drain", "gated", "lockA", "lockB"}
\* ... at which it has the mutex of the path's chain A, and of its chain B.
HasA == {"lockB", "build1", "run1", "build2", "run2", "unlockA"}
HasB == {"build1", "run1", "build2", "run2", "unlockA", "unlockB"}

ShapeOK ==
  /\ pc \in [Threads -> PCs]
  /\ owner \in [Chains -> Threads \cup {None}]
  /\ lk = [t \in Threads |-> lk[t]]
  /\ todo = [t \in Threads |-> todo[t]]

\* r.lock is held exactly from its announcement to the return of the operation.
GateOwner == \A t \in Threads : gate = t <=> pc[t] \in GatePCs

\* A mutex is held only by a goroutine that took it as chain A or as chain B of
\* the path it looked up, and only until it unlocks it.
OwnerHasIt ==
  \A c \in Chains, t \in Threads :
    owner[c] = t => \/ pc[t] \in HasA /\ lk[t][1] = c
                    \/ pc[t] \in HasB /\ lk[t][2] = c

LockInv == ShapeOK /\ GateOwner /\ OwnerHasIt

\* A goroutine that finishes a step of its call goes where it holds no lock.
LEMMA FinishPC ==
  ASSUME NEW t \in Threads, NEW success, pc \in [Threads -> PCs], Finish(t, success),
         todo = [u \in Threads |-> todo[u]]
  PROVE  /\ pc' \in [Threads -> PCs]
         /\ pc'[t] \in {"rlock", "bare", "gate", "idle"}
         /\ \A u \in Threads : u # t => pc'[u] = pc[u]
         /\ todo' = [u \in Threads |-> todo'[u]]
<1>1. CASE success /\ Len(todo[t]) > 1
  <2>1. Entry(todo[t][2]) \in {"rlock", "bare", "gate"}
    BY DEF Entry
  <2>2. pc' = [pc EXCEPT ![t] = Entry(todo[t][2])]
    BY <1>1 DEF Finish, Goto
  <2>3. todo' = [todo EXCEPT ![t] = Tail(@)]
    BY <1>1 DEF Finish
  <2> QED
    BY <2>1, <2>2, <2>3 DEF PCs
<1>2. CASE ~(success /\ Len(todo[t]) > 1)
  <2>1. pc' = [pc EXCEPT ![t] = "idle"] /\ todo' = [todo EXCEPT ![t] = <<>>]
    BY <1>2 DEF Finish, Goto
  <2> QED
    BY <2>1 DEF PCs
<1> QED
  BY <1>1, <1>2

\* A new relayer holds no lock: the invariant of the lock protocol holds.
THEOREM InitLockInv == Init => LockInv
BY ConstantsAssumption DEF Init, LockInv, ShapeOK, GateOwner, OwnerHasIt, PCs, GatePCs, HasA, HasB

\* Every step of every operation of the relayer preserves it.
THEOREM NextLockInv == LockInv /\ [Next]_vars => LockInv'
<1> SUFFICES ASSUME LockInv, [Next]_vars PROVE LockInv'
  OBVIOUS
<1> USE DEF LockInv, ShapeOK, GateOwner, OwnerHasIt, PCs, GatePCs, HasA, HasB
<1>0. None \notin Threads
  BY ConstantsAssumption
<1>1. CASE UNCHANGED vars
  BY <1>1 DEF vars, relayerVars, localVars
<1>2. CASE TestOver
  BY <1>2 DEF TestOver, vars, relayerVars, localVars
<1>3. ASSUME NEW t \in Threads, Calls(t) PROVE LockInv'
  <2>1. PICK op, p, a : Call(t, op, p, a)
    BY <1>3 DEF Calls, CallOnPath, CallCreateClient, CallUpdatePath, CallGeneratePath,
                CallAddChainConfiguration, CallFlush
  <2>2. Entry(Steps(op)[1]) \in {"rlock", "bare", "gate"}
    BY DEF Entry
  <2>3. /\ pc[t] = "idle"
        /\ pc' = [pc EXCEPT ![t] = Entry(Steps(op)[1])]
        /\ todo' = [todo EXCEPT ![t] = Steps(op)]
        /\ gate' = gate /\ owner' = owner /\ lk' = lk
    BY <2>1 DEF Call, Goto, relayerVars
  <2> QED
    BY <2>2, <2>3
<1>4. ASSUME NEW t \in Threads, Acquire(t) PROVE LockInv'
  <2>1. CASE AnnounceLock(t)
    BY <2>1, <1>0 DEF AnnounceLock, Goto
  <2>2. CASE RLock(t)
    BY <2>2 DEF RLock, Goto
  <2>3. CASE LockChainA(t)
    <3>1. /\ pc[t] = "lockA" /\ pc' = [pc EXCEPT ![t] = "lockB"]
          /\ owner' = [owner EXCEPT ![lk[t][1]] = t]
          /\ lk' = lk /\ todo' = todo /\ gate' = gate
      BY <2>3 DEF LockChainA, Goto
    <3>2. ShapeOK' /\ GateOwner'
      BY <3>1, <1>0, ZenonT(60)
    <3>3. ASSUME NEW c \in Chains, NEW u \in Threads, owner'[c] = u
          PROVE  \/ pc'[u] \in HasA /\ lk'[u][1] = c
                 \/ pc'[u] \in HasB /\ lk'[u][2] = c
      <4>1. CASE c = lk[t][1]
        <5>1. u = t
          BY <3>1, <3>3, <4>1
        <5> QED
          BY <3>1, <4>1, <5>1
      <4>2. CASE c # lk[t][1]
        <5>1. owner[c] = u
          BY <3>1, <3>3, <4>2
        <5> QED
          BY <3>1, <5>1
      <4> QED
        BY <4>1, <4>2
    <3> QED
      BY <3>2, <3>3
  <2>4. CASE LockChainB(t)
    <3>1. /\ pc[t] = "lockB" /\ pc' = [pc EXCEPT ![t] = "build1"]
          /\ owner' = [owner EXCEPT ![lk[t][2]] = t]
          /\ lk' = lk /\ todo' = todo /\ gate' = None
      BY <2>4 DEF LockChainB, Goto
    <3>2. ShapeOK' /\ GateOwner'
      <4>1. ShapeOK'
        BY <3>1
      <4>2. gate = t /\ \A u \in Threads : u # t => pc[u] \notin GatePCs
        BY <3>1
      <4>3. GateOwner'
        BY <3>1, <4>2, <1>0
      <4> QED
        BY <4>1, <4>3
    <3>3. ASSUME NEW c \in Chains, NEW u \in Threads, owner'[c] = u
          PROVE  \/ pc'[u] \in HasA /\ lk'[u][1] = c
                 \/ pc'[u] \in HasB /\ lk'[u][2] = c
      <4>1. CASE c = lk[t][2]
        <5>1. u = t
          BY <3>1, <3>3, <4>1
        <5> QED
          BY <3>1, <4>1, <5>1
      <4>2. CASE c # lk[t][2]
        <5>1. owner[c] = u
          BY <3>1, <3>3, <4>2
        <5> QED
          BY <3>1, <5>1
      <4> QED
        BY <4>1, <4>2
    <3> QED
      BY <3>2, <3>3
  <2> QED
    BY <1>4, <2>1, <2>2, <2>3, <2>4 DEF Acquire
<1>5. ASSUME NEW t \in Threads, Advance(t) PROVE LockInv'
  \* Steps of a goroutine that has no chain mutex and ends with Finish.
  <2>a. ASSUME NEW success, Finish(t, success), owner' = owner, lk' = lk,
               pc[t] \in {"gated", "reading", "bare"},
               gate' = IF pc[t] = "gated" THEN None ELSE gate
        PROVE  LockInv'
    BY <2>a, FinishPC, <1>0
  <2>1. CASE AcquireLock(t)
    BY <2>1 DEF AcquireLock, Goto, relayerVars
  <2>2. CASE PathExists(t)
    <3>1. Finish(t, paths[pname[t]] # None) /\ pc[t] = "reading"
          /\ owner' = owner /\ lk' = lk /\ gate' = gate
      BY <2>2 DEF PathExists
    <3> QED
      BY <3>1, <2>a
  <2>3. CASE UpdatePath(t)
    <3>1. Finish(t, paths[pname[t]] # None) /\ pc[t] = "gated"
          /\ owner' = owner /\ lk' = lk /\ gate' = None
      BY <2>3 DEF UpdatePath
    <3> QED
      BY <3>1, <2>a
  <2>4. CASE GeneratePath(t)
    <3>1. Finish(t, TRUE) /\ pc[t] = "gated" /\ owner' = owner /\ lk' = lk /\ gate' = None
      BY <2>4 DEF GeneratePath
    <3> QED
      BY <3>1, <2>a
  <2>5. CASE ConfigContent(t)
    <3>1. PICK s : Finish(t, s)
      BY <2>5 DEF ConfigContent
    <3>2. pc[t] = "gated" /\ owner' = owner /\ lk' = lk /\ gate' = None
      BY <2>5 DEF ConfigContent
    <3> QED
      BY <3>1, <3>2, <2>a
  <2>6. CASE ValidateConfig(t)
    <3>1. PICK s : Finish(t, s)
      BY <2>6 DEF ValidateConfig
    <3>2. pc[t] = "bare" /\ owner' = owner /\ lk' = lk /\ gate' = gate
      BY <2>6 DEF ValidateConfig, relayerVars
    <3> QED
      BY <3>1, <3>2, <2>a
  <2>7. CASE AddChainLock(t)
    <3>1. Finish(t, TRUE) /\ pc[t] = "gated" /\ owner' = owner /\ lk' = lk /\ gate' = None
      BY <2>7 DEF AddChainLock
    <3> QED
      BY <3>1, <2>a
  <2>8. CASE LookupPath(t)
    <3>1. CASE paths[pname[t]] = None
      <4>1. Finish(t, FALSE) /\ pc[t] = "gated" /\ owner' = owner /\ lk' = lk /\ gate' = None
        BY <2>8, <3>1 DEF LookupPath
      <4> QED
        BY <4>1, <2>a
    <3>2. CASE paths[pname[t]] # None
      <4>1. /\ pc[t] = "gated" /\ pc' = [pc EXCEPT ![t] = "lockA"]
            /\ owner' = owner /\ gate' = gate /\ todo' = todo
            /\ lk' = [lk EXCEPT ![t] = obj[paths[pname[t]]].chain]
        BY <2>8, <3>2 DEF LookupPath, Goto
      <4> QED
        BY <4>1
    <3> QED
      BY <3>1, <3>2
  <2>9. CASE LockMissingChain(t) \/ FlushPathMissing(t)
    BY <2>9 DEF LockMissingChain, FlushPathMissing, relayerVars, localVars
  <2>10. CASE BuildCommand(t)
    <3>1. /\ \/ pc[t] = "build1" /\ pc' = [pc EXCEPT ![t] = "run1"]
             \/ pc[t] = "build2" /\ pc' = [pc EXCEPT ![t] = "run2"]
          /\ owner' = owner /\ gate' = gate /\ lk' = lk /\ todo' = todo
      <4>1. PICK e \in Ends : /\ pc[t] = <<"build1", "build2">>[e]
                              /\ pc' = [pc EXCEPT ![t] = <<"run1", "run2">>[e]]
        BY <2>10 DEF BuildCommand, Goto
      <4>2. e = 1 \/ e = 2
        BY DEF Ends
      <4>3. owner' = owner /\ gate' = gate /\ lk' = lk /\ todo' = todo
        BY <2>10 DEF BuildCommand, relayerVars
      <4>4. CASE e = 1
        BY <4>1, <4>3, <4>4
      <4>5. CASE e = 2
        BY <4>1, <4>3, <4>5
      <4> QED
        BY <4>2, <4>4, <4>5
    <3> QED
      BY <3>1
  <2>11. CASE RunCommand(t)
    <3>1. /\ pc[t] \in {"run1", "run2"}
          /\ Goto(t, IF pc[t] = "run1" /\ TwoCommands(Step(t)) THEN "build2" ELSE "unlockA")
          /\ owner' = owner /\ gate' = gate /\ lk' = lk /\ todo' = todo
      BY <2>11 DEF RunCommand, Running
    <3>2. \/ pc' = [pc EXCEPT ![t] = "build2"] \/ pc' = [pc EXCEPT ![t] = "unlockA"]
      BY <3>1 DEF Goto
    <3> QED
      BY <3>1, <3>2
  <2>12. CASE CommandFails(t)
    <3>1. /\ pc[t] \in {"run1", "run2"} /\ pc' = [pc EXCEPT ![t] = "unlockA"]
          /\ owner' = owner /\ gate' = gate /\ lk' = lk /\ todo' = todo
      BY <2>12 DEF CommandFails, Goto, Running, relayerVars
    <3> QED
      BY <3>1
  <2>13. CASE UnlockChainA(t)
    <3>1. /\ pc[t] = "unlockA" /\ pc' = [pc EXCEPT ![t] = "unlockB"]
          /\ owner' = [owner EXCEPT ![lk[t][1]] = None]
          /\ lk' = lk /\ todo' = todo /\ gate' = gate
      BY <2>13 DEF UnlockChainA, Goto
    <3>2. ShapeOK' /\ GateOwner'
      BY <3>1, <1>0, ZenonT(60)
    <3>3. ASSUME NEW c \in Chains, NEW u \in Threads, owner'[c] = u
          PROVE  \/ pc'[u] \in HasA /\ lk'[u][1] = c
                 \/ pc'[u] \in HasB /\ lk'[u][2] = c
      <4>1. c # lk[t][1] /\ owner[c] = u
        BY <3>1, <3>3, <1>0
      <4> QED
        BY <3>1, <4>1
    <3> QED
      BY <3>2, <3>3
  <2>14. CASE UnlockChainB(t)
    <3>1. /\ pc[t] = "unlockB" /\ gate' = gate
          /\ owner' = [owner EXCEPT ![lk[t][2]] = None]
          /\ lk' = [lk EXCEPT ![t] = Both(None)]
          /\ Finish(t, ok[t])
      BY <2>14 DEF UnlockChainB
    <3>a. /\ pc' \in [Threads -> PCs]
          /\ pc'[t] \in {"rlock", "bare", "gate", "idle"}
          /\ \A u \in Threads : u # t => pc'[u] = pc[u]
          /\ todo' = [u \in Threads |-> todo'[u]]
      BY <3>1, FinishPC
    <3>2. ShapeOK' /\ GateOwner'
      BY <3>1, <3>a, <1>0, ZenonT(60)
    <3>3. ASSUME NEW c \in Chains, NEW u \in Threads, owner'[c] = u
          PROVE  \/ pc'[u] \in HasA /\ lk'[u][1] = c
                 \/ pc'[u] \in HasB /\ lk'[u][2] = c
      <4>1. c # lk[t][2] /\ owner[c] = u
        BY <3>1, <3>3, <1>0
      <4> QED
        BY <3>1, <3>a, <4>1
    <3> QED
      BY <3>2, <3>3
  <2>15. CASE FlushReturnsError(t)
    <3>1. Finish(t, FALSE) /\ pc[t] = "reading" /\ owner' = owner /\ lk' = lk /\ gate' = gate
      BY <2>15 DEF FlushReturnsError, relayerVars
    <3> QED
      BY <3>1, <2>a
  <2>16. CASE FlushFindsChannel(t)
    BY <2>16 DEF FlushFindsChannel, Goto
  <2>17. CASE ClearPackets(t)
    <3>1. PICK s : Finish(t, s)
      BY <2>17 DEF ClearPackets
    <3>2. pc[t] = "bare" /\ owner' = owner /\ lk' = lk /\ gate' = gate
      BY <2>17 DEF ClearPackets, relayerVars
    <3> QED
      BY <3>1, <3>2, <2>a
  <2> QED
    BY <1>5, <2>1, <2>2, <2>3, <2>4, <2>5, <2>6, <2>7, <2>8, <2>9, <2>10, <2>11, <2>12,
       <2>13, <2>14, <2>15, <2>16, <2>17 DEF Advance
<1> QED
  BY <1>1, <1>2, <1>3, <1>4, <1>5 DEF Next

\* In every reachable state a goroutine that waits for a lock of the hermes
\* relayer while it has a chain's mutex also has r.lock (getAndLockPath).
THEOREM HoldAndWait == Spec => []HoldAndWaitGated
<1>1. LockInv => HoldAndWaitGated
  BY DEF LockInv, ShapeOK, GateOwner, OwnerHasIt, HoldAndWaitGated, PCs, GatePCs, HasA, HasB
<1> QED
  BY InitLockInv, NextLockInv, <1>1, PTL DEF Spec

----------------------------------------------------------------------------
(***************************************************************************)
(* Two goroutines never have commands in flight on a common chain but one   *)
(* that a command strays to, and the connection a path remembers is real    *)
(* and, unless some client was foreign, joins the path's two chains.        *)
(*                                                                         *)
(* All rest on what the chain IDs of a path may be when they are used as   *)
(* lock keys and on command lines: GeneratePath's arguments, or a client ID *)
(* that CreateClient put in their place and that is no chain's ID.          *)
(***************************************************************************)


\* The steps a call has left.
Todos ==
  {<<"pathExists", "CreateClients", "CreateConnections", "CreateChannel">>,
   <<"CreateClients", "CreateConnections", "CreateChannel">>, <<"CreateConnections", "CreateChannel">>,
   <<"configContent", "validateConfig", "chainLock">>, <<"validateConfig", "chainLock">>, <<"chainLock">>}
  \cup {<<s>> : s \in {"CreateClients", "CreateConnections", "CreateChannel", "UpdateClients",
                       "CreateClient", "UpdatePath", "GeneratePath", "Flush"}}

\* What the arguments of a call are at each of its steps.
ArgsOK(t) ==
  IF Step(t) \in {"configContent", "validateConfig", "chainLock"} THEN arg[t] \in Chains
  ELSE /\ pname[t] \in Paths
       /\ Step(t) = "GeneratePath" => arg[t] = PathEnds[pname[t]]
       /\ Step(t) = "UpdatePath" => arg[t] \in UpdateOpts

CallOK(t) == pc[t] # "idle" => todo[t] \in Todos /\ ArgsOK(t)

\* Where a goroutine is working on the path it looked up ...
OnPathPCs == {"lockA", "lockB", "build1", "run1", "build2", "run2", "unlockA", "unlockB"}

\* The lock keys a goroutine read are still the path's chains, unless a
\* CreateClient has replaced those.
PathOK(t) == pc[t] \in OnPathPCs =>
  /\ ptr[t] \in 1..MaxObjs /\ obj[ptr[t]] \in pathConfiguration
  /\ Step(t) \in LockingOps
  /\ \A e \in Ends :
       /\ lk[t][e] \in Chains => lk[t][e] = PathEnds[pname[t]][e]
       /\ obj[ptr[t]].chain[e] \in Chains => obj[ptr[t]].chain[e] = lk[t][e]

LocksOK(t) ==
  /\ pc[t] \in HasA => lk[t][1] \in Chains /\ owner[lk[t][1]] = t
  /\ pc[t] \in HasB => lk[t][2] \in Chains /\ owner[lk[t][2]] = t

\* A command in flight names no chain but those whose mutexes the goroutine has,
\* unless CreateClient was told to.
CommandOK(t) == pc[t] \in {"run1", "run2"} =>
  /\ Step(t) = "CreateClient" => cmd[t].host = arg[t][1] /\ cmd[t].ref = arg[t][2]
  /\ Step(t) # "CreateClient" => (cmd[t].host \in Chains => cmd[t].host = lk[t][1] \/ cmd[t].host = lk[t][2])
  /\ Step(t) = "CreateClients" => (cmd[t].ref \in Chains => cmd[t].ref = lk[t][1] \/ cmd[t].ref = lk[t][2])
  /\ cmd[t].kind = CASE Step(t) \in {"CreateClients", "CreateClient"} -> "client"
                     [] Step(t) = "UpdateClients" -> "update"
                     [] Step(t) = "CreateConnections" -> "conn"
                     [] Step(t) = "CreateChannel" -> "chan"
  /\ cmd[t].kind = "conn" =>
       /\ cmd[t].host \in Chains => cmd[t].host = lk[t][1]
       /\ cmd[t].ids \in [Ends -> Nat]

ThreadOK(t) == CallOK(t) /\ PathOK(t) /\ LocksOK(t) /\ CommandOK(t)

Connection == [client: Nat, peer: Chains, peerConn: Nat]

\* The relayer's and the chains' own state.
StateOK ==
  /\ chainLocks \subseteq Chains
  /\ owner \in [Chains -> Threads \cup {None}]
  /\ obj \in [1..MaxObjs -> pathConfiguration \cup {None}]
  /\ DOMAIN paths = Paths
  /\ \A p \in Paths : paths[p] # None =>
       /\ paths[p] \in 1..MaxObjs /\ obj[paths[p]] \in pathConfiguration
       /\ \A e \in Ends : obj[paths[p]].chain[e] \in Chains => obj[paths[p]].chain[e] = PathEnds[p][e]
  /\ clients \in [Chains -> Seq(Chains)]
  /\ conns \in [Chains -> Seq(Connection)]

Locals ==
  /\ DOMAIN pc = Threads /\ DOMAIN todo = Threads /\ DOMAIN pname = Threads /\ DOMAIN arg = Threads
  /\ DOMAIN ptr = Threads /\ DOMAIN lk = Threads /\ DOMAIN cmd = Threads

\* The inductive invariant.
PathInv == Locals /\ StateOK /\ (\A t \in Threads : ThreadOK(t)) /\ ConnectionReal

----------------------------------------------------------------------------
(* Pairs and calls *)

LEMMA PairType ==
  ASSUME NEW S, NEW x \in S, NEW y \in S
  PROVE  Pair(x, y) \in [Ends -> S] /\ Pair(x, y)[1] = x /\ Pair(x, y)[2] = y
  BY DEF Pair, Ends

LEMMA EndsAre == Ends = {1, 2} /\ Other(1) = 2 /\ Other(2) = 1
  BY DEF Ends, Other

\* What is left of a call after a step is left of the same call.
LEMMA TodoTail ==
  ASSUME NEW s \in Todos, Len(s) > 1
  PROVE  /\ Tail(s) \in Todos
         /\ Head(Tail(s)) \in {"validateConfig", "chainLock"} =>
              Head(s) \in {"configContent", "validateConfig"}
         /\ Head(Tail(s)) \notin {"configContent", "CreateClient", "GeneratePath", "UpdatePath"}
         /\ Head(s) \in {"configContent", "validateConfig"} => Head(Tail(s)) \in {"validateConfig", "chainLock"}
<1>1. CASE s = <<"pathExists", "CreateClients", "CreateConnections", "CreateChannel">>
  <2>1. Tail(s) = <<"CreateClients", "CreateConnections", "CreateChannel">>  BY <1>1
  <2>2. Head(s) = "pathExists" /\ Head(Tail(s)) = "CreateClients"  BY <1>1, <2>1
  <2> QED  BY <2>1, <2>2 DEF Todos
<1>2. CASE s = <<"CreateClients", "CreateConnections", "CreateChannel">>
  <2>1. Tail(s) = <<"CreateConnections", "CreateChannel">>  BY <1>2
  <2>2. Head(s) = "CreateClients" /\ Head(Tail(s)) = "CreateConnections"  BY <1>2, <2>1
  <2> QED  BY <2>1, <2>2 DEF Todos
<1>3. CASE s = <<"CreateConnections", "CreateChannel">>
  <2>1. Tail(s) = <<"CreateChannel">>  BY <1>3
  <2>2. Head(s) = "CreateConnections" /\ Head(Tail(s)) = "CreateChannel"  BY <1>3, <2>1
  <2> QED  BY <2>1, <2>2 DEF Todos
<1>4. CASE s = <<"configContent", "validateConfig", "chainLock">>
  <2>1. Tail(s) = <<"validateConfig", "chainLock">>  BY <1>4
  <2>2. Head(s) = "configContent" /\ Head(Tail(s)) = "validateConfig"  BY <1>4, <2>1
  <2> QED  BY <2>1, <2>2 DEF Todos
<1>5. CASE s = <<"validateConfig", "chainLock">>
  <2>1. Tail(s) = <<"chainLock">>  BY <1>5
  <2>2. Head(s) = "validateConfig" /\ Head(Tail(s)) = "chainLock"  BY <1>5, <2>1
  <2> QED  BY <2>1, <2>2 DEF Todos
<1>6. CASE \E x : s = <<x>>  BY <1>6
<1> QED  BY <1>1, <1>2, <1>3, <1>4, <1>5, <1>6 DEF Todos

\* A new relayer's paths are the generated ones, and nothing is in flight.
LEMMA InitPathInv == Init => PathInv
<1> SUFFICES ASSUME Init PROVE PathInv  OBVIOUS
<1>1. Locals  BY DEF Init, Locals
<1>2. \A t \in Threads : ThreadOK(t)
  BY DEF Init, ThreadOK, CallOK, PathOK, LocksOK, CommandOK, OnPathPCs, HasA, HasB
<1>3. \A p \in Paths : NewPath(PathEnds[p]) \in pathConfiguration
  <2>1. Both(0) \in [Ends -> Nat] /\ Both(FALSE) \in [Ends -> BOOLEAN]  BY PairType DEF Both
  <2>2. \A p \in Paths : PathEnds[p] \in [Ends -> Chains \cup Nat]  BY ConstantsAssumption, EndsAre
  <2> QED  BY <2>1, <2>2 DEF NewPath, pathConfiguration
<1>4. /\ \A i \in DOMAIN Generated : i \in 1..MaxObjs /\ Generated[i] \in Paths
      /\ Len(Generated) \in Nat /\ DOMAIN Generated = 1..Len(Generated)
  BY ConstantsAssumption
<1>5. \A o \in 1..MaxObjs : obj[o] = IF o <= Len(Generated) THEN NewPath(PathEnds[Generated[o]]) ELSE None
  BY DEF Init
<1>6. obj \in [1..MaxObjs -> pathConfiguration \cup {None}]
  <2>1. \A o \in 1..MaxObjs : obj[o] \in pathConfiguration \cup {None}  BY <1>3, <1>4, <1>5
  <2> QED  BY <2>1 DEF Init
<1>7. ASSUME NEW p \in Paths, paths[p] # None
      PROVE  /\ paths[p] \in 1..MaxObjs /\ obj[paths[p]] \in pathConfiguration
             /\ \A e \in Ends : obj[paths[p]].chain[e] = PathEnds[p][e]
  <2>1. paths[p] = (IF \E i \in DOMAIN Generated : Generated[i] = p
                    THEN CHOOSE i \in DOMAIN Generated : Generated[i] = p ELSE None)
    BY DEF Init
  <2>2. \E i \in DOMAIN Generated : Generated[i] = p  BY <1>7, <2>1
  <2>3. paths[p] = CHOOSE i \in DOMAIN Generated : Generated[i] = p  BY <2>1, <2>2
  <2>4. paths[p] \in DOMAIN Generated /\ Generated[paths[p]] = p  BY <2>2, <2>3
  <2>5. obj[paths[p]] = NewPath(PathEnds[p])  BY <1>4, <1>5, <2>4
  <2>6. obj[paths[p]].chain = PathEnds[p]  BY <2>5 DEF NewPath
  <2> QED  BY <1>3, <1>4, <2>4, <2>5, <2>6
<1>8. StateOK
  <2>1. /\ chainLocks \subseteq Chains /\ owner \in [Chains -> Threads \cup {None}] /\ DOMAIN paths = Paths
        /\ clients \in [Chains -> Seq(Chains)] /\ conns \in [Chains -> Seq(Connection)]
    BY ConstantsAssumption DEF Init
  <2> QED  BY <1>6, <1>7, <2>1 DEF StateOK
<1>9. ConnectionReal
  <2>0. \A ends : NewPath(ends).conn = Both(0)  BY DEF NewPath
  <2>1. \A o \in 1..MaxObjs : obj[o] # None => obj[o].conn = Both(0)  BY <1>5, <2>0
  <2> QED  BY <2>1 DEF ConnectionReal
<1> QED  BY <1>1, <1>2, <1>8, <1>9 DEF PathInv

----------------------------------------------------------------------------
(* What a step of one goroutine may do to the others *)

\* Goroutines have their own locals ...
OthersStay(t) == \A u \in Threads \ {t} :
  /\ pc'[u] = pc[u] /\ todo'[u] = todo[u] /\ pname'[u] = pname[u] /\ arg'[u] = arg[u]
  /\ ptr'[u] = ptr[u] /\ lk'[u] = lk[u] /\ cmd'[u] = cmd[u]

\* ... and share the paths, whose chain IDs are never set to a chain's again.
PathsFade == \A o \in 1..MaxObjs : obj[o] \in pathConfiguration =>
  /\ obj'[o] \in pathConfiguration
  /\ \A e \in Ends : obj'[o].chain[e] \in Chains => obj'[o].chain[e] = obj[o].chain[e]

LEMMA OtherThreads ==
  ASSUME PathInv, NEW t \in Threads, OthersStay(t), PathsFade, NEW u \in Threads \ {t},
         \A c \in Chains : owner[c] = u => owner'[c] = u
  PROVE  ThreadOK(u)'
<1>1. /\ pc'[u] = pc[u] /\ todo'[u] = todo[u] /\ pname'[u] = pname[u] /\ arg'[u] = arg[u]
      /\ ptr'[u] = ptr[u] /\ lk'[u] = lk[u] /\ cmd'[u] = cmd[u]
  BY DEF OthersStay
<1>2. CallOK(u) /\ PathOK(u) /\ LocksOK(u) /\ CommandOK(u)  BY DEF PathInv, ThreadOK
<1>3. CallOK(u)'  BY <1>1, <1>2 DEF CallOK, ArgsOK, Step
<1>4. PathOK(u)'
  <2> SUFFICES ASSUME pc[u] \in OnPathPCs PROVE PathOK(u)'  BY <1>1 DEF PathOK
  <2>1. /\ ptr[u] \in 1..MaxObjs /\ obj[ptr[u]] \in pathConfiguration /\ Step(u) \in LockingOps
        /\ \A e \in Ends :
             /\ lk[u][e] \in Chains => lk[u][e] = PathEnds[pname[u]][e]
             /\ obj[ptr[u]].chain[e] \in Chains => obj[ptr[u]].chain[e] = lk[u][e]
    BY <1>2 DEF PathOK
  <2>2. /\ obj'[ptr[u]] \in pathConfiguration
        /\ \A e \in Ends : obj'[ptr[u]].chain[e] \in Chains => obj'[ptr[u]].chain[e] = obj[ptr[u]].chain[e]
    BY <2>1 DEF PathsFade
  <2> QED  BY <1>1, <2>1, <2>2 DEF PathOK, Step
<1>5. LocksOK(u)'  BY <1>1, <1>2 DEF LocksOK
<1>6. CommandOK(u)'  BY <1>1, <1>2 DEF CommandOK, Step
<1> QED  BY <1>3, <1>4, <1>5, <1>6 DEF ThreadOK

\* A step that only changes its goroutine's locals.
LEMMA LocalStep ==
  ASSUME PathInv, NEW t \in Threads, OthersStay(t), Locals', ThreadOK(t)',
         UNCHANGED <<owner, chainLocks, paths, obj, clients, conns>>
  PROVE  PathInv'
<1>1. PathsFade  BY DEF PathsFade
<1>2. \A u \in Threads : ThreadOK(u)'  BY <1>1, OtherThreads
<1>3. StateOK'  BY DEF PathInv, StateOK
<1>4. ConnectionReal'  BY DEF PathInv, ConnectionReal
<1> QED  BY <1>2, <1>3, <1>4 DEF PathInv

\* A step that moves its goroutine where it holds nothing.
LEMMA AwayFromPath ==
  ASSUME NEW t \in Threads, CallOK(t)', pc'[t] \in {"idle", "rlock", "reading", "gate", "drain", "gated", "bare"}
  PROVE  ThreadOK(t)'
  BY DEF ThreadOK, PathOK, LocksOK, CommandOK, OnPathPCs, HasA, HasB

\* A step of a call returned.
LEMMA FinishKeeps ==
  ASSUME PathInv, NEW t \in Threads, pc[t] # "idle", NEW s, Finish(t, s), UNCHANGED <<pname, arg>>
  PROVE  /\ ThreadOK(t)' /\ DOMAIN pc' = Threads /\ DOMAIN todo' = Threads
         /\ \A u \in Threads \ {t} : pc'[u] = pc[u] /\ todo'[u] = todo[u]
<1>1. DOMAIN pc = Threads /\ DOMAIN todo = Threads  BY DEF PathInv, Locals
<1>2. todo[t] \in Todos /\ ArgsOK(t)  BY DEF PathInv, ThreadOK, CallOK
<1>3. CASE s /\ Len(todo[t]) > 1
  <2>1. pc' = [pc EXCEPT ![t] = Entry(todo[t][2])] /\ todo' = [todo EXCEPT ![t] = Tail(todo[t])]
    BY <1>3 DEF Finish, Goto
  <2>2. Entry(todo[t][2]) \in {"rlock", "bare", "gate"}  BY DEF Entry
  <2>3. pc'[t] \in {"rlock", "bare", "gate"} /\ todo'[t] = Tail(todo[t])  BY <1>1, <2>1, <2>2
  <2>4. CallOK(t)'
    <3>1. /\ Tail(todo[t]) \in Todos
          /\ Head(Tail(todo[t])) \in {"validateConfig", "chainLock"} =>
               Head(todo[t]) \in {"configContent", "validateConfig"}
          /\ Head(Tail(todo[t])) \notin {"configContent", "CreateClient", "GeneratePath", "UpdatePath"}
          /\ Head(todo[t]) \in {"configContent", "validateConfig"} =>
               Head(Tail(todo[t])) \in {"validateConfig", "chainLock"}
      BY <1>2, <1>3, TodoTail
    <3>2. Head(todo[t]) = "chainLock" => Len(todo[t]) = 1  BY <1>2 DEF Todos
    <3>3. ArgsOK(t)'  BY <1>2, <1>3, <2>3, <3>1, <3>2 DEF ArgsOK, Step
    <3> QED  BY <2>3, <3>1, <3>3 DEF CallOK
  <2> QED  BY <1>1, <2>1, <2>3, <2>4, AwayFromPath
<1>4. CASE ~(s /\ Len(todo[t]) > 1)
  <2>1. pc' = [pc EXCEPT ![t] = "idle"] /\ todo' = [todo EXCEPT ![t] = <<>>]  BY <1>4 DEF Finish, Goto
  <2>2. CallOK(t)'  BY <1>1, <2>1 DEF CallOK
  <2> QED  BY <1>1, <2>1, <2>2, AwayFromPath
<1> QED  BY <1>3, <1>4

\* A step that ends a step of its call and changes no shared state but r.lock and the configuration.
LEMMA FinishLocal ==
  ASSUME PathInv, NEW t \in Threads, pc[t] # "idle", NEW s, Finish(t, s), UNCHANGED <<pname, arg, ptr, lk, cmd>>,
         UNCHANGED <<owner, chainLocks, paths, obj, clients, conns>>
  PROVE  PathInv'
<1>1. /\ ThreadOK(t)' /\ DOMAIN pc' = Threads /\ DOMAIN todo' = Threads
      /\ \A u \in Threads \ {t} : pc'[u] = pc[u] /\ todo'[u] = todo[u]
  BY FinishKeeps
<1>2. OthersStay(t)  BY <1>1 DEF OthersStay
<1>3. Locals'  BY <1>1 DEF PathInv, Locals
<1> QED  BY <1>1, <1>2, <1>3, LocalStep

----------------------------------------------------------------------------
(* The steps that touch neither a path nor a chain *)

LEMMA CallKeeps ==
  ASSUME PathInv, NEW t \in Threads, NEW op, NEW p, NEW a, Call(t, op, p, a), Steps(op) \in Todos,
         IF Head(Steps(op)) \in {"configContent", "validateConfig", "chainLock"} THEN a \in Chains
         ELSE /\ p \in Paths
              /\ Head(Steps(op)) = "GeneratePath" => a = PathEnds[p]
              /\ Head(Steps(op)) = "UpdatePath" => a \in UpdateOpts
  PROVE  PathInv'
<1>1. /\ pc' = [pc EXCEPT ![t] = Entry(Steps(op)[1])] /\ todo' = [todo EXCEPT ![t] = Steps(op)]
      /\ pname' = [pname EXCEPT ![t] = p] /\ arg' = [arg EXCEPT ![t] = a]
      /\ UNCHANGED <<ptr, lk, cmd, owner, chainLocks, paths, obj, clients, conns>>
  BY DEF Call, Goto, relayerVars, chainVars
<1>2. Locals  BY DEF PathInv
<1>3. OthersStay(t) /\ Locals'  BY <1>1, <1>2 DEF OthersStay, Locals
<1>4. Entry(Steps(op)[1]) \in {"rlock", "bare", "gate"}  BY DEF Entry
<1>5. /\ pc'[t] \in {"rlock", "bare", "gate"} /\ todo'[t] = Steps(op) /\ pname'[t] = p /\ arg'[t] = a
  BY <1>1, <1>2, <1>4 DEF Locals
<1>6. CallOK(t)'  BY <1>5 DEF CallOK, ArgsOK, Step
<1> QED  BY <1>1, <1>3, <1>5, <1>6, AwayFromPath, LocalStep

\* The steps of the calls a test makes.
LEMMA StepsAre ==
  /\ Steps("LinkPath") = <<"pathExists", "CreateClients", "CreateConnections", "CreateChannel">>
  /\ Steps("AddChainConfiguration") = <<"configContent", "validateConfig", "chainLock">>
  /\ \A op \in {"CreateClients", "CreateConnections", "CreateChannel", "UpdateClients",
                 "CreateClient", "UpdatePath", "GeneratePath", "Flush"} : Steps(op) = <<op>>
  BY DEF Steps

LEMMA CallsKeep == ASSUME PathInv, NEW t \in Threads, Calls(t) PROVE PathInv'
<1>1. \A p \in PathsOf[t] : p \in Paths  BY ConstantsAssumption
<1>2. CASE CallOnPath(t)
  <2>1. PICK op \in {"LinkPath", "CreateClients", "CreateConnections", "CreateChannel", "UpdateClients"},
             p \in PathsOf[t] : Call(t, op, p, None)
    BY <1>2 DEF CallOnPath
  <2>2. CASE op = "LinkPath"
    <3>1. Head(Steps(op)) = "pathExists" /\ Steps(op) \in Todos  BY <2>2, StepsAre DEF Todos
    <3> QED  BY <1>1, <2>1, <3>1, CallKeeps
  <2>3. CASE op # "LinkPath"
    <3>1. Steps(op) = <<op>>  BY <2>1, <2>3, StepsAre
    <3>2. Head(Steps(op)) = op /\ Steps(op) \in Todos  BY <2>1, <2>3, <3>1 DEF Todos
    <3> QED  BY <1>1, <2>1, <2>3, <3>2, CallKeeps
  <2> QED  BY <2>2, <2>3
<1>3. CASE CallCreateClient(t)
  <2>1. PICK p \in PathsOf[t], d \in ClientPairs : Call(t, "CreateClient", p, d)
    BY <1>3 DEF CallCreateClient
  <2>2. Head(Steps("CreateClient")) = "CreateClient" /\ Steps("CreateClient") \in Todos  BY StepsAre DEF Todos
  <2> QED  BY <1>1, <2>1, <2>2, CallKeeps
<1>4. CASE CallUpdatePath(t)
  <2>1. PICK p \in PathsOf[t], o \in UpdateOpts : Call(t, "UpdatePath", p, o)  BY <1>4 DEF CallUpdatePath
  <2>2. Head(Steps("UpdatePath")) = "UpdatePath" /\ Steps("UpdatePath") \in Todos  BY StepsAre DEF Todos
  <2> QED  BY <1>1, <2>1, <2>2, CallKeeps
<1>5. CASE CallGeneratePath(t)
  <2>1. PICK p \in PathsOf[t] : Call(t, "GeneratePath", p, PathEnds[p])  BY <1>5 DEF CallGeneratePath
  <2>2. Head(Steps("GeneratePath")) = "GeneratePath" /\ Steps("GeneratePath") \in Todos  BY StepsAre DEF Todos
  <2> QED  BY <1>1, <2>1, <2>2, CallKeeps
<1>6. CASE CallAddChainConfiguration(t)
  <2>1. PICK c \in Chains : Call(t, "AddChainConfiguration", None, c)  BY <1>6 DEF CallAddChainConfiguration
  <2>2. /\ Head(Steps("AddChainConfiguration")) = "configContent"
        /\ Steps("AddChainConfiguration") \in Todos
    BY StepsAre DEF Todos
  <2> QED  BY <2>1, <2>2, CallKeeps
<1>7. CASE CallFlush(t)
  <2>1. PICK p \in PathsOf[t], n \in 1..MaxIDs : Call(t, "Flush", p, n)  BY <1>7 DEF CallFlush
  <2>2. Head(Steps("Flush")) = "Flush" /\ Steps("Flush") \in Todos  BY StepsAre DEF Todos
  <2> QED  BY <1>1, <2>1, <2>2, CallKeeps
<1> QED  BY <1>2, <1>3, <1>4, <1>5, <1>6, <1>7 DEF Calls

\* A step that moves a goroutine towards its locks, or from its read lock to its command.
LEMMA WaitKeeps ==
  ASSUME PathInv, NEW t \in Threads, AnnounceLock(t) \/ AcquireLock(t) \/ RLock(t) \/ FlushFindsChannel(t)
  PROVE  PathInv'
<1>1. /\ pc[t] # "idle"
      /\ \E l \in {"drain", "gated", "reading", "bare"} : pc' = [pc EXCEPT ![t] = l]
      /\ UNCHANGED <<todo, pname, arg, ptr, lk, cmd, owner, chainLocks, paths, obj, clients, conns>>
  BY DEF AnnounceLock, AcquireLock, RLock, FlushFindsChannel, Goto, relayerVars, chainVars
<1>2. Locals  BY DEF PathInv
<1>3. OthersStay(t) /\ Locals' /\ pc'[t] \in {"drain", "gated", "reading", "bare"}
  BY <1>1, <1>2 DEF OthersStay, Locals
<1>4. CallOK(t)'  BY <1>1 DEF PathInv, ThreadOK, CallOK, ArgsOK, Step
<1> QED  BY <1>1, <1>3, <1>4, AwayFromPath, LocalStep

\* The operations that keep to the configuration, and the ones that look a path up and return.
LEMMA ReturnKeeps ==
  ASSUME PathInv, NEW t \in Threads,
         PathExists(t) \/ ConfigContent(t) \/ ValidateConfig(t) \/ FlushReturnsError(t) \/ ClearPackets(t)
  PROVE  PathInv'
<1>1. /\ pc[t] # "idle" /\ \E s : Finish(t, s)
      /\ UNCHANGED <<pname, arg, ptr, lk, cmd, owner, chainLocks, paths, obj, clients, conns>>
  BY DEF PathExists, ConfigContent, ValidateConfig, FlushReturnsError, ClearPackets, relayerVars, chainVars
<1> QED  BY <1>1, FinishLocal

\* The panics.
LEMMA PanicKeeps ==
  ASSUME PathInv, NEW t \in Threads, LockMissingChain(t) \/ FlushPathMissing(t) PROVE PathInv'
<1>1. UNCHANGED <<relayerVars, localVars, chainVars>>  BY DEF LockMissingChain, FlushPathMissing
<1>2. OthersStay(t) /\ Locals' /\ UNCHANGED <<owner, chainLocks, paths, obj, clients, conns>>
  BY <1>1 DEF relayerVars, localVars, chainVars, OthersStay, PathInv, Locals
<1>3. UNCHANGED <<pc, todo, pname, arg, ptr, lk, cmd>> /\ ThreadOK(t)
  BY <1>1 DEF localVars, PathInv
<1>4. CallOK(t)' /\ LocksOK(t)' /\ CommandOK(t)'
  BY <1>2, <1>3 DEF ThreadOK, CallOK, ArgsOK, Step, LocksOK, CommandOK
<1>5. PathOK(t)'  BY <1>2, <1>3 DEF ThreadOK, PathOK, Step
<1>6. ThreadOK(t)'  BY <1>4, <1>5 DEF ThreadOK
<1> QED  BY <1>2, <1>6, LocalStep

----------------------------------------------------------------------------
(* getAndLockPath and unlock *)

\* The path is there, so its chain IDs become the lock keys.
LEMMA LookupKeeps == ASSUME PathInv, NEW t \in Threads, LookupPath(t) PROVE PathInv'
<1>1. /\ pc[t] = "gated" /\ Step(t) \in LockingOps
      /\ UNCHANGED <<pname, arg, cmd, owner, chainLocks, paths, obj, clients, conns>>
  BY DEF LookupPath, chainVars
<1>2. CASE paths[pname[t]] = None
  <2>1. Finish(t, FALSE) /\ UNCHANGED <<ptr, lk>>  BY <1>2 DEF LookupPath
  <2> QED  BY <1>1, <2>1, FinishLocal
<1>3. CASE paths[pname[t]] # None
  <2> DEFINE o == paths[pname[t]]
  <2>1. /\ ptr' = [ptr EXCEPT ![t] = o] /\ lk' = [lk EXCEPT ![t] = obj[o].chain]
        /\ pc' = [pc EXCEPT ![t] = "lockA"] /\ todo' = todo
    BY <1>3 DEF LookupPath, Goto
  <2>2. Locals  BY DEF PathInv
  <2>3. OthersStay(t) /\ Locals'  BY <1>1, <2>1, <2>2 DEF OthersStay, Locals
  <2>4. pc'[t] = "lockA" /\ ptr'[t] = o /\ lk'[t] = obj[o].chain  BY <2>1, <2>2 DEF Locals
  <2>5. CallOK(t)  BY DEF PathInv, ThreadOK
  <2>6. CallOK(t)'  BY <1>1, <2>1, <2>4, <2>5 DEF CallOK, ArgsOK, Step
  <2>7. pname[t] \in Paths  BY <1>1, <2>5 DEF CallOK, ArgsOK, LockingOps
  <2>8. /\ o \in 1..MaxObjs /\ obj[o] \in pathConfiguration
        /\ \A e \in Ends : obj[o].chain[e] \in Chains => obj[o].chain[e] = PathEnds[pname[t]][e]
    BY <1>3, <2>7 DEF PathInv, StateOK
  <2> HIDE DEF o
  <2>9. PathOK(t)'  BY <1>1, <2>1, <2>4, <2>8 DEF PathOK, Step
  <2>10. LocksOK(t)' /\ CommandOK(t)'  BY <2>4 DEF LocksOK, CommandOK, HasA, HasB
  <2> QED  BY <1>1, <2>3, <2>6, <2>9, <2>10, LocalStep DEF ThreadOK
<1> QED  BY <1>2, <1>3

\* A goroutine on its path moves on with its locals.
LEMMA OnPathMoves ==
  ASSUME PathInv, NEW t \in Threads, pc[t] \in OnPathPCs, NEW l \in OnPathPCs, pc' = [pc EXCEPT ![t] = l],
         UNCHANGED <<todo, pname, arg, ptr, lk>>, DOMAIN cmd' = Threads,
         \A u \in Threads \ {t} : cmd'[u] = cmd[u], PathsFade
  PROVE  OthersStay(t) /\ Locals' /\ pc'[t] = l /\ CallOK(t)' /\ PathOK(t)'
<1>1. Locals /\ CallOK(t) /\ PathOK(t)  BY DEF PathInv, ThreadOK
<1>2. OthersStay(t) /\ Locals' /\ pc'[t] = l  BY <1>1 DEF OthersStay, Locals
<1>3. CallOK(t)'  BY <1>1, <1>2 DEF CallOK, ArgsOK, Step, OnPathPCs
<1>4. PathOK(t)'
  <2>1. /\ ptr[t] \in 1..MaxObjs /\ obj[ptr[t]] \in pathConfiguration /\ Step(t) \in LockingOps
        /\ \A e \in Ends :
             /\ lk[t][e] \in Chains => lk[t][e] = PathEnds[pname[t]][e]
             /\ obj[ptr[t]].chain[e] \in Chains => obj[ptr[t]].chain[e] = lk[t][e]
    BY <1>1 DEF PathOK
  <2>2. /\ obj'[ptr[t]] \in pathConfiguration
        /\ \A e \in Ends : obj'[ptr[t]].chain[e] \in Chains => obj'[ptr[t]].chain[e] = obj[ptr[t]].chain[e]
    BY <2>1 DEF PathsFade
  <2> QED  BY <2>1, <2>2 DEF PathOK, Step
<1> QED  BY <1>2, <1>3, <1>4

\* A step that takes or gives back one chain's mutex.
LEMMA OwnerStep ==
  ASSUME PathInv, NEW t \in Threads, NEW c \in Chains, NEW x \in {t, None}, owner' = [owner EXCEPT ![c] = x],
         owner[c] \in {None, t}, OthersStay(t), Locals', ThreadOK(t)',
         UNCHANGED <<chainLocks, paths, obj, clients, conns>>
  PROVE  PathInv'
<1>1. owner \in [Chains -> Threads \cup {None}]  BY DEF PathInv, StateOK
<1>2. \A u \in Threads \ {t}, d \in Chains : owner[d] = u => owner'[d] = u  BY <1>1, ConstantsAssumption
<1>3. PathsFade  BY DEF PathsFade
<1>4. \A u \in Threads : ThreadOK(u)'  BY <1>2, <1>3, OtherThreads
<1>5. StateOK'  BY <1>1 DEF PathInv, StateOK
<1>6. ConnectionReal'  BY DEF PathInv, ConnectionReal
<1> QED  BY <1>4, <1>5, <1>6 DEF PathInv

LEMMA LockChainAKeeps == ASSUME PathInv, NEW t \in Threads, LockChainA(t) PROVE PathInv'
<1>1. /\ pc[t] = "lockA" /\ pc' = [pc EXCEPT ![t] = "lockB"] /\ lk[t][1] \in chainLocks
      /\ owner[lk[t][1]] = None /\ owner' = [owner EXCEPT ![lk[t][1]] = t]
      /\ UNCHANGED <<todo, pname, arg, ptr, lk, cmd, chainLocks, paths, obj, clients, conns>>
  BY DEF LockChainA, Goto, chainVars
<1>2. lk[t][1] \in Chains /\ owner \in [Chains -> Threads \cup {None}]  BY <1>1 DEF PathInv, StateOK
<1>3. PathsFade /\ DOMAIN cmd' = Threads  BY <1>1 DEF PathsFade, PathInv, Locals
<1>4. OthersStay(t) /\ Locals' /\ pc'[t] = "lockB" /\ CallOK(t)' /\ PathOK(t)'
  BY <1>1, <1>3, OnPathMoves DEF OnPathPCs
<1>5. LocksOK(t)' /\ CommandOK(t)'  BY <1>1, <1>2, <1>4 DEF LocksOK, CommandOK, HasB
<1> QED  BY <1>1, <1>2, <1>4, <1>5, OwnerStep DEF ThreadOK

LEMMA LockChainBKeeps == ASSUME PathInv, NEW t \in Threads, LockChainB(t) PROVE PathInv'
<1>1. /\ pc[t] = "lockB" /\ pc' = [pc EXCEPT ![t] = "build1"] /\ lk[t][2] \in chainLocks
      /\ owner[lk[t][2]] = None /\ owner' = [owner EXCEPT ![lk[t][2]] = t]
      /\ UNCHANGED <<todo, pname, arg, ptr, lk, cmd, chainLocks, paths, obj, clients, conns>>
  BY DEF LockChainB, Goto, chainVars
<1>2. lk[t][2] \in Chains /\ owner \in [Chains -> Threads \cup {None}]  BY <1>1 DEF PathInv, StateOK
<1>3. PathsFade /\ DOMAIN cmd' = Threads  BY <1>1 DEF PathsFade, PathInv, Locals
<1>4. OthersStay(t) /\ Locals' /\ pc'[t] = "build1" /\ CallOK(t)' /\ PathOK(t)'
  BY <1>1, <1>3, OnPathMoves DEF OnPathPCs
<1>5. lk[t][1] \in Chains /\ owner[lk[t][1]] = t  BY <1>1 DEF PathInv, ThreadOK, LocksOK, HasA
<1>6. LocksOK(t)' /\ CommandOK(t)'  BY <1>1, <1>2, <1>4, <1>5 DEF LocksOK, CommandOK
<1> QED  BY <1>1, <1>2, <1>4, <1>6, OwnerStep DEF ThreadOK

\* With both mutexes a goroutine has its path's two chains, which are different.
LEMMA HasBoth ==
  ASSUME PathInv, NEW t \in Threads, pc[t] \in HasA, pc[t] \in HasB
  PROVE  /\ pname[t] \in Paths
         /\ \A e \in Ends : lk[t][e] \in Chains /\ owner[lk[t][e]] = t /\ lk[t][e] = PathEnds[pname[t]][e]
         /\ lk[t][1] # lk[t][2]
<1>1. CallOK(t) /\ PathOK(t) /\ LocksOK(t)  BY DEF PathInv, ThreadOK
<1>2. pc[t] \in OnPathPCs /\ pc[t] # "idle"  BY DEF HasA, OnPathPCs
<1>3. pname[t] \in Paths  BY <1>1, <1>2 DEF CallOK, ArgsOK, PathOK, LockingOps
<1>4. \A e \in Ends : lk[t][e] \in Chains /\ owner[lk[t][e]] = t  BY <1>1, EndsAre DEF LocksOK
<1>5. \A e \in Ends : lk[t][e] = PathEnds[pname[t]][e]  BY <1>1, <1>2, <1>4 DEF PathOK
<1>6. lk[t][1] # lk[t][2]  BY <1>3, <1>5, EndsAre, DistinctEndsAssumption
<1> QED  BY <1>3, <1>4, <1>5, <1>6

LEMMA UnlockChainAKeeps == ASSUME PathInv, NEW t \in Threads, UnlockChainA(t) PROVE PathInv'
<1>1. /\ pc[t] = "unlockA" /\ pc' = [pc EXCEPT ![t] = "unlockB"]
      /\ owner' = [owner EXCEPT ![lk[t][1]] = None]
      /\ UNCHANGED <<todo, pname, arg, ptr, lk, cmd, chainLocks, paths, obj, clients, conns>>
  BY DEF UnlockChainA, Goto, chainVars
<1>2. /\ lk[t][1] \in Chains /\ owner[lk[t][1]] = t /\ lk[t][2] \in Chains /\ owner[lk[t][2]] = t
      /\ lk[t][1] # lk[t][2]
  BY <1>1, HasBoth, EndsAre DEF HasA, HasB
<1>3. PathsFade /\ DOMAIN cmd' = Threads  BY <1>1 DEF PathsFade, PathInv, Locals
<1>4. OthersStay(t) /\ Locals' /\ pc'[t] = "unlockB" /\ CallOK(t)' /\ PathOK(t)'
  BY <1>1, <1>3, OnPathMoves DEF OnPathPCs
<1>5. LocksOK(t)' /\ CommandOK(t)'
  BY <1>1, <1>2, <1>4 DEF LocksOK, CommandOK, HasA, PathInv, StateOK
<1> QED  BY <1>1, <1>2, <1>4, <1>5, OwnerStep DEF ThreadOK

LEMMA UnlockChainBKeeps == ASSUME PathInv, NEW t \in Threads, UnlockChainB(t) PROVE PathInv'
<1>1. /\ pc[t] = "unlockB" /\ owner' = [owner EXCEPT ![lk[t][2]] = None]
      /\ ptr' = [ptr EXCEPT ![t] = None] /\ lk' = [lk EXCEPT ![t] = Both(None)]
      /\ cmd' = [cmd EXCEPT ![t] = None] /\ Finish(t, ok[t])
      /\ UNCHANGED <<pname, arg, chainLocks, paths, obj, clients, conns>>
  BY DEF UnlockChainB, chainVars
<1>2. lk[t][2] \in Chains /\ owner[lk[t][2]] = t  BY <1>1 DEF PathInv, ThreadOK, LocksOK, HasB
<1>3. /\ ThreadOK(t)' /\ DOMAIN pc' = Threads /\ DOMAIN todo' = Threads
      /\ \A u \in Threads \ {t} : pc'[u] = pc[u] /\ todo'[u] = todo[u]
  BY <1>1, FinishKeeps
<1>4. Locals  BY DEF PathInv
<1>5. OthersStay(t) /\ Locals'  BY <1>1, <1>3, <1>4 DEF OthersStay, Locals
<1> QED  BY <1>1, <1>2, <1>3, <1>5, OwnerStep

----------------------------------------------------------------------------
(* The steps that change a path or a chain *)

\* A chain's connections stay.
ConnsGrow == \A c \in Chains :
  /\ DOMAIN conns[c] \subseteq DOMAIN conns'[c]
  /\ \A i \in DOMAIN conns[c] : conns'[c][i] = conns[c][i]

LEMMA SharedStep ==
  ASSUME PathInv, NEW t \in Threads, OthersStay(t), Locals', ThreadOK(t)', PathsFade, owner' = owner,
         StateOK', ConnectionReal'
  PROVE  PathInv'
<1>1. \A u \in Threads : ThreadOK(u)'  BY OtherThreads
<1> QED  BY <1>1 DEF PathInv

\* ... and a path's connection IDs are the ones it had, its chain IDs fading at most.
ConnsKept ==
  /\ ConnsGrow
  /\ \A o \in 1..MaxObjs : obj'[o] # None =>
       \/ obj'[o].conn = Both(0)
       \/ /\ obj[o] # None /\ obj'[o].conn = obj[o].conn
          /\ \A e \in Ends : obj'[o].chain[e] \in Chains => obj'[o].chain[e] = obj[o].chain[e]

\* What is on the chains stays there.
LEMMA RealKept ==
  ASSUME PathInv, ConnsGrow, NEW a \in Chains, NEW i, NEW j, i \in DOMAIN conns[a],
         j \in DOMAIN conns[conns[a][i].peer], conns[a][i].peer \in Chains
  PROVE  /\ i \in DOMAIN conns'[a] /\ conns'[a][i] = conns[a][i]
         /\ j \in DOMAIN conns'[conns'[a][i].peer]
         /\ conns'[conns'[a][i].peer][j] = conns[conns[a][i].peer][j]
  BY DEF ConnsGrow

\* A chain's connections lead to chains.
LEMMA PeersAreChains ==
  ASSUME PathInv, NEW a \in Chains, NEW i \in DOMAIN conns[a] PROVE conns[a][i].peer \in Chains
<1>1. conns[a] \in Seq(Connection)  BY DEF PathInv, StateOK
<1>2. conns[a][i] \in Connection  BY <1>1
<1> QED  BY <1>2 DEF Connection

\* A path whose connection IDs stay remembers two ends of one connection still ...
LEMMA PathKeepsReal ==
  ASSUME PathInv, ConnsGrow, NEW o \in 1..MaxObjs, obj[o] # None, obj'[o].conn = obj[o].conn,
         obj'[o].conn # Both(0), obj'[o].chain[1] = obj[o].chain[1], obj[o].chain[1] \in Chains
  PROVE  LET a == obj'[o].chain[1]
             near == conns'[a][obj'[o].conn[1]]
             far == conns'[near.peer][obj'[o].conn[2]]
         IN /\ obj'[o].conn[1] \in DOMAIN conns'[a] /\ obj'[o].conn[2] \in DOMAIN conns'[near.peer]
            /\ near.peerConn = obj'[o].conn[2]
            /\ far.peer = a /\ far.peerConn = obj'[o].conn[1]
<1> DEFINE a == obj[o].chain[1]
           i == obj[o].conn[1]
           j == obj[o].conn[2]
<1>1. /\ i \in DOMAIN conns[a] /\ j \in DOMAIN conns[conns[a][i].peer]
      /\ conns[a][i].peerConn = j
      /\ conns[conns[a][i].peer][j].peer = a /\ conns[conns[a][i].peer][j].peerConn = i
  BY DEF PathInv, ConnectionReal
<1>2. conns[a][i].peer \in Chains  BY <1>1, PeersAreChains
<1>3. /\ i \in DOMAIN conns'[a] /\ conns'[a][i] = conns[a][i]
      /\ j \in DOMAIN conns'[conns'[a][i].peer]
      /\ conns'[conns'[a][i].peer][j] = conns[conns[a][i].peer][j]
  BY <1>1, <1>2, RealKept
<1> QED  BY <1>1, <1>3

\* ... and so do all paths if none gets a new connection.
LEMMA PathsKeepReal == ASSUME PathInv, ConnsKept PROVE ConnectionReal'
<1> SUFFICES ASSUME NEW o \in 1..MaxObjs, obj'[o] # None, obj'[o].conn # Both(0), obj'[o].chain[1] \in Chains
             PROVE  LET a == obj'[o].chain[1]
                        near == conns'[a][obj'[o].conn[1]]
                        far == conns'[near.peer][obj'[o].conn[2]]
                    IN /\ obj'[o].conn[1] \in DOMAIN conns'[a] /\ obj'[o].conn[2] \in DOMAIN conns'[near.peer]
                       /\ near.peerConn = obj'[o].conn[2]
                       /\ far.peer = a /\ far.peerConn = obj'[o].conn[1]
  BY DEF ConnectionReal
<1>1. ConnsGrow /\ obj[o] # None /\ obj'[o].conn = obj[o].conn /\ obj'[o].chain[1] = obj[o].chain[1]
  BY EndsAre DEF ConnsKept
<1> QED  BY <1>1, PathKeepsReal

\* One path gets new values, its chain IDs fading at most.
LEMMA PathSet ==
  ASSUME PathInv, NEW o \in 1..MaxObjs, obj[o] \in pathConfiguration, NEW r \in pathConfiguration,
         obj' = [obj EXCEPT ![o] = r], UNCHANGED <<chainLocks, owner, paths>>,
         \A e \in Ends : r.chain[e] \in Chains => r.chain[e] = obj[o].chain[e],
         clients' \in [Chains -> Seq(Chains)], conns' \in [Chains -> Seq(Connection)]
  PROVE  PathsFade /\ StateOK'
<1>1. obj \in [1..MaxObjs -> pathConfiguration \cup {None}]  BY DEF PathInv, StateOK
<1>2. obj' \in [1..MaxObjs -> pathConfiguration \cup {None}] /\ obj'[o] = r
  BY <1>1
<1>3. \A q \in 1..MaxObjs \ {o} : obj'[q] = obj[q]  BY <1>1
<1>4. PathsFade  BY <1>2, <1>3 DEF PathsFade
<1>5. \A p \in Paths : paths[p] # None =>
        /\ paths[p] \in 1..MaxObjs /\ obj'[paths[p]] \in pathConfiguration
        /\ \A e \in Ends : obj'[paths[p]].chain[e] \in Chains => obj'[paths[p]].chain[e] = PathEnds[p][e]
  <2> SUFFICES ASSUME NEW p \in Paths, paths[p] # None
               PROVE  /\ paths[p] \in 1..MaxObjs /\ obj'[paths[p]] \in pathConfiguration
                      /\ \A e \in Ends : obj'[paths[p]].chain[e] \in Chains => obj'[paths[p]].chain[e] = PathEnds[p][e]
    OBVIOUS
  <2>1. /\ paths[p] \in 1..MaxObjs /\ obj[paths[p]] \in pathConfiguration
        /\ \A e \in Ends : obj[paths[p]].chain[e] \in Chains => obj[paths[p]].chain[e] = PathEnds[p][e]
    BY DEF PathInv, StateOK
  <2>2. /\ obj'[paths[p]] \in pathConfiguration
        /\ \A e \in Ends : obj'[paths[p]].chain[e] \in Chains => obj'[paths[p]].chain[e] = obj[paths[p]].chain[e]
    BY <1>4, <2>1 DEF PathsFade
  <2> QED  BY <2>1, <2>2
<1>6. StateOK'  BY <1>2, <1>5 DEF PathInv, StateOK
<1> QED  BY <1>4, <1>6

LEMMA AddChainLockKeeps == ASSUME PathInv, NEW t \in Threads, AddChainLock(t) PROVE PathInv'
<1>1. /\ pc[t] = "gated" /\ Step(t) = "chainLock" /\ chainLocks' = chainLocks \cup {arg[t]} /\ Finish(t, TRUE)
      /\ UNCHANGED <<pname, arg, ptr, lk, cmd, owner, paths, obj, clients, conns>>
  BY DEF AddChainLock, chainVars
<1>2. /\ ThreadOK(t)' /\ DOMAIN pc' = Threads /\ DOMAIN todo' = Threads
      /\ \A u \in Threads \ {t} : pc'[u] = pc[u] /\ todo'[u] = todo[u]
  BY <1>1, FinishKeeps
<1>3. OthersStay(t) /\ Locals'  BY <1>1, <1>2 DEF OthersStay, PathInv, Locals
<1>4. arg[t] \in Chains  BY <1>1 DEF PathInv, ThreadOK, CallOK, ArgsOK
<1>5. StateOK'  BY <1>1, <1>4 DEF PathInv, StateOK
<1>6. PathsFade /\ ConnectionReal'  BY <1>1 DEF PathsFade, PathInv, ConnectionReal
<1> QED  BY <1>1, <1>2, <1>3, <1>5, <1>6, SharedStep

\* A new pathConfiguration is nobody's yet: calls in flight keep theirs.
LEMMA GeneratePathKeeps == ASSUME PathInv, NEW t \in Threads, GeneratePath(t) PROVE PathInv' /\ ConnsKept
<1>1. /\ pc[t] = "gated" /\ Step(t) = "GeneratePath" /\ Finish(t, TRUE)
      /\ UNCHANGED <<pname, arg, ptr, lk, cmd, owner, chainLocks, clients, conns>>
  BY DEF GeneratePath, chainVars
<1>2. PICK o \in 1..MaxObjs : /\ obj[o] = None /\ obj' = [obj EXCEPT ![o] = NewPath(arg[t])]
                              /\ paths' = [paths EXCEPT ![pname[t]] = o]
  BY DEF GeneratePath
<1>3. /\ ThreadOK(t)' /\ DOMAIN pc' = Threads /\ DOMAIN todo' = Threads
      /\ \A u \in Threads \ {t} : pc'[u] = pc[u] /\ todo'[u] = todo[u]
  BY <1>1, FinishKeeps
<1>4. OthersStay(t) /\ Locals'  BY <1>1, <1>3 DEF OthersStay, PathInv, Locals
<1>5. pname[t] \in Paths /\ arg[t] = PathEnds[pname[t]]  BY <1>1 DEF PathInv, ThreadOK, CallOK, ArgsOK
<1> DEFINE new == NewPath(PathEnds[pname[t]])
<1>6. new \in pathConfiguration /\ new.conn = Both(0) /\ new.chain = PathEnds[pname[t]]
  <2>1. Both(0) \in [Ends -> Nat] /\ Both(FALSE) \in [Ends -> BOOLEAN]  BY PairType DEF Both
  <2>2. PathEnds[pname[t]] \in [Ends -> Chains \cup Nat]  BY <1>5, ConstantsAssumption, EndsAre
  <2> QED  BY <2>1, <2>2 DEF NewPath, pathConfiguration
<1> HIDE DEF new
<1>7. obj \in [1..MaxObjs -> pathConfiguration \cup {None}] /\ DOMAIN paths = Paths  BY DEF PathInv, StateOK
<1>8. obj' = [obj EXCEPT ![o] = new]  BY <1>2, <1>5 DEF new
<1>9. /\ obj' \in [1..MaxObjs -> pathConfiguration \cup {None}] /\ obj'[o] = new
      /\ \A q \in 1..MaxObjs \ {o} : obj'[q] = obj[q]
  BY <1>6, <1>7, <1>8
<1>10. obj[o] \notin pathConfiguration  BY <1>2, IDsAssumption
<1>11. PathsFade  BY <1>9, <1>10 DEF PathsFade
<1>12. ASSUME NEW p \in Paths, paths'[p] # None
       PROVE  /\ paths'[p] \in 1..MaxObjs /\ obj'[paths'[p]] \in pathConfiguration
              /\ \A e \in Ends : obj'[paths'[p]].chain[e] \in Chains => obj'[paths'[p]].chain[e] = PathEnds[p][e]
  <2>1. CASE p = pname[t]
    <3>1. paths'[p] = o  BY <1>2, <1>7, <2>1
    <3> QED  BY <1>6, <1>9, <2>1, <3>1
  <2>2. CASE p # pname[t]
    <3>1. paths'[p] = paths[p]  BY <1>2, <1>7, <2>2
    <3>2. /\ paths[p] \in 1..MaxObjs /\ obj[paths[p]] \in pathConfiguration
          /\ \A e \in Ends : obj[paths[p]].chain[e] \in Chains => obj[paths[p]].chain[e] = PathEnds[p][e]
      BY <1>12, <3>1 DEF PathInv, StateOK
    <3>3. paths[p] # o  BY <1>10, <3>2
    <3> QED  BY <1>9, <3>1, <3>2, <3>3
  <2> QED  BY <2>1, <2>2
<1>13. DOMAIN paths' = Paths  BY <1>2, <1>7
<1>14. StateOK'  BY <1>1, <1>9, <1>12, <1>13 DEF PathInv, StateOK
<1>15. ConnsKept  BY <1>1, <1>6, <1>9 DEF ConnsKept, ConnsGrow
<1>16. ConnectionReal'  BY <1>15, PathsKeepReal
<1> QED  BY <1>1, <1>3, <1>4, <1>11, <1>14, <1>15, <1>16, SharedStep

\* UpdatePath sets client IDs.
LEMMA UpdatePathKeeps == ASSUME PathInv, NEW t \in Threads, UpdatePath(t) PROVE PathInv' /\ ConnsKept
<1> DEFINE o == paths[pname[t]]
           set(old, new) == [e \in Ends |-> IF new[e] = None THEN old[e] ELSE new[e]]
<1>1. /\ pc[t] = "gated" /\ Step(t) = "UpdatePath" /\ Finish(t, o # None)
      /\ UNCHANGED <<pname, arg, ptr, lk, cmd, owner, chainLocks, paths, clients, conns>>
  BY DEF UpdatePath, chainVars
<1>2. pname[t] \in Paths /\ arg[t] \in UpdateOpts  BY <1>1 DEF PathInv, ThreadOK, CallOK, ArgsOK
<1>3. CASE o = None
  <2>1. obj' = obj  BY <1>3 DEF UpdatePath
  <2>2. ConnsKept  BY <1>1, <2>1 DEF ConnsKept, ConnsGrow
  <2> QED  BY <1>1, <2>1, <2>2, FinishLocal
<1>4. CASE o # None
  <2>1. obj' = [obj EXCEPT ![o].chain = set(obj[o].chain, arg[t].chain),
                           ![o].client = set(obj[o].client, arg[t].client),
                           ![o].conn = set(obj[o].conn, arg[t].conn)]
    BY <1>4 DEF UpdatePath
  <2>2. o \in 1..MaxObjs /\ obj[o] \in pathConfiguration  BY <1>2, <1>4 DEF PathInv, StateOK
  <2>3. obj \in [1..MaxObjs -> pathConfiguration \cup {None}]  BY DEF PathInv, StateOK
  <2>4. /\ obj[o].chain \in [Ends -> Chains \cup Nat] /\ obj[o].client \in [Ends -> Nat]
        /\ obj[o].conn \in [Ends -> Nat]
    BY <2>2 DEF pathConfiguration
  <2>5. /\ arg[t].chain = Both(None) /\ arg[t].conn = Both(None) /\ arg[t].client \in [Ends -> Nat \cup {None}]
    BY <1>2, UpdateOptsAssumption
  <2>6. \A e \in Ends : Both(None)[e] = None  BY EndsAre DEF Both, Pair
  <2>7. set(obj[o].chain, arg[t].chain) = obj[o].chain  BY <2>4, <2>5, <2>6
  <2>8. set(obj[o].conn, arg[t].conn) = obj[o].conn  BY <2>4, <2>5, <2>6
  <2>9. set(obj[o].client, arg[t].client) \in [Ends -> Nat]  BY <2>4, <2>5
  <2> DEFINE r == [obj[o] EXCEPT !.client = set(obj[o].client, arg[t].client)]
  <2>10. obj' = [obj EXCEPT ![o] = [obj[o] EXCEPT !.chain = set(obj[o].chain, arg[t].chain),
                                                  !.client = set(obj[o].client, arg[t].client),
                                                  !.conn = set(obj[o].conn, arg[t].conn)]]
    BY <2>1, <2>2, <2>3
  <2> HIDE DEF set
  <2>11. r \in pathConfiguration /\ r.chain = obj[o].chain /\ r.conn = obj[o].conn
    BY <2>2, <2>9 DEF pathConfiguration
  <2>12. [obj[o] EXCEPT !.chain = set(obj[o].chain, arg[t].chain),
                        !.client = set(obj[o].client, arg[t].client),
                        !.conn = set(obj[o].conn, arg[t].conn)] = r
    BY <2>2, <2>7, <2>8 DEF pathConfiguration
  <2>13. obj' = [obj EXCEPT ![o] = r]  BY <2>10, <2>12
  <2> HIDE DEF r, o
  <2>14. PathsFade /\ StateOK'
    <3>1. clients' \in [Chains -> Seq(Chains)] /\ conns' \in [Chains -> Seq(Connection)]
      BY <1>1 DEF PathInv, StateOK
    <3> QED  BY <1>1, <2>2, <2>11, <2>13, <3>1, PathSet
  <2>15. ConnsKept
    <3>1. obj'[o] = r /\ \A q \in 1..MaxObjs \ {o} : obj'[q] = obj[q]  BY <2>2, <2>3, <2>13
    <3>2. obj[o] # None  BY <2>2, IDsAssumption
    <3>3. ConnsGrow  BY <1>1 DEF ConnsGrow
    <3> QED  BY <2>11, <3>1, <3>2, <3>3 DEF ConnsKept
  <2>16. ConnectionReal'  BY <2>15, PathsKeepReal
  <2>17. /\ ThreadOK(t)' /\ DOMAIN pc' = Threads /\ DOMAIN todo' = Threads
         /\ \A u \in Threads \ {t} : pc'[u] = pc[u] /\ todo'[u] = todo[u]
    BY <1>1, FinishKeeps
  <2>18. OthersStay(t) /\ Locals'  BY <1>1, <2>17 DEF OthersStay, PathInv, Locals
  <2> QED  BY <1>1, <2>14, <2>15, <2>16, <2>17, <2>18, SharedStep
<1> QED  BY <1>3, <1>4

\* The command line names chains of the path as it is now, or CreateClient's arguments.
LEMMA BuildKeeps == ASSUME PathInv, NEW t \in Threads, BuildCommand(t) PROVE PathInv'
<1>1. PICK e \in Ends : /\ pc[t] = <<"build1", "build2">>[e] /\ cmd' = [cmd EXCEPT ![t] = CommandOf(t, e)]
                        /\ pc' = [pc EXCEPT ![t] = <<"run1", "run2">>[e]]
  BY DEF BuildCommand, Goto
<1>2. UNCHANGED <<todo, pname, arg, ptr, lk, owner, chainLocks, paths, obj, clients, conns>>
  BY DEF BuildCommand, relayerVars, chainVars
<1>3. pc[t] \in {"build1", "build2"} /\ <<"run1", "run2">>[e] \in {"run1", "run2"}  BY <1>1, EndsAre
<1>4. PathsFade /\ DOMAIN cmd = Threads /\ DOMAIN cmd' = Threads /\ \A u \in Threads \ {t} : cmd'[u] = cmd[u]
  BY <1>1, <1>2 DEF PathsFade, PathInv, Locals
<1>5. OthersStay(t) /\ Locals' /\ pc'[t] \in {"run1", "run2"} /\ CallOK(t)' /\ PathOK(t)'
  BY <1>1, <1>2, <1>3, <1>4, OnPathMoves DEF OnPathPCs
<1>6. /\ pname[t] \in Paths /\ lk[t][1] # lk[t][2]
      /\ \A f \in Ends : lk[t][f] \in Chains /\ owner[lk[t][f]] = t /\ lk[t][f] = PathEnds[pname[t]][f]
  BY <1>3, HasBoth DEF HasA, HasB
<1>7. LocksOK(t)'  BY <1>2, <1>5, <1>6, EndsAre DEF LocksOK
<1> DEFINE p == obj[ptr[t]]
<1>8. /\ p \in pathConfiguration /\ Step(t) \in LockingOps
      /\ \A f \in Ends : p.chain[f] \in Chains => p.chain[f] = lk[t][f]
  BY <1>3 DEF PathInv, ThreadOK, PathOK, OnPathPCs
<1>9. CallOK(t)  BY DEF PathInv, ThreadOK
<1>11. p.client \in [Ends -> Nat]  BY <1>8 DEF pathConfiguration
<1> HIDE DEF p
<1> DEFINE c == CommandOf(t, e)
<1>12. /\ Step(t) = "CreateClient" => c.host = arg[t][1] /\ c.ref = arg[t][2]
       /\ Step(t) # "CreateClient" => (c.host \in Chains => c.host = lk[t][1] \/ c.host = lk[t][2])
       /\ Step(t) = "CreateClients" => (c.ref \in Chains => c.ref = lk[t][1] \/ c.ref = lk[t][2])
       /\ c.kind = CASE Step(t) \in {"CreateClients", "CreateClient"} -> "client"
                      [] Step(t) = "UpdateClients" -> "update"
                      [] Step(t) = "CreateConnections" -> "conn"
                      [] Step(t) = "CreateChannel" -> "chan"
       /\ c.kind = "conn" => /\ c.host \in Chains => c.host = lk[t][1]
                             /\ c.ids \in [Ends -> Nat]
  <2>0. Other(e) \in Ends  BY EndsAre
  <2>1. CASE Step(t) = "CreateClients"
    <3>1. c = [kind |-> "client", host |-> p.chain[e], ref |-> p.chain[Other(e)], ids |-> Both(0)]
      BY <2>1 DEF CommandOf, p
    <3> QED  BY <1>8, <2>0, <2>1, <3>1, EndsAre
  <2>2. CASE Step(t) = "CreateClient"
    <3>1. c = [kind |-> "client", host |-> arg[t][1], ref |-> arg[t][2], ids |-> Both(0)]
      BY <2>2 DEF CommandOf
    <3> QED  BY <2>2, <3>1
  <2>3. CASE Step(t) = "UpdateClients"
    <3>1. c = [kind |-> "update", host |-> p.chain[e], ref |-> None, ids |-> Both(p.client[e])]
      BY <2>3 DEF CommandOf, p
    <3> QED  BY <1>8, <2>3, <3>1, EndsAre
  <2>4. CASE Step(t) = "CreateConnections"
    <3>1. c = [kind |-> "conn", host |-> p.chain[1], ref |-> None, ids |-> p.client]
      BY <2>4 DEF CommandOf, p
    <3> QED  BY <1>8, <1>11, <2>4, <3>1, EndsAre
  <2>5. CASE Step(t) = "CreateChannel"
    <3>1. c = [kind |-> "chan", host |-> p.chain[1], ref |-> None, ids |-> p.conn]
      BY <2>5 DEF CommandOf, p
    <3> QED  BY <1>8, <2>5, <3>1, EndsAre
  <2> QED  BY <1>8, <2>1, <2>2, <2>3, <2>4, <2>5 DEF LockingOps
<1> HIDE DEF c
<1>13. cmd'[t] = c  BY <1>1, <1>4 DEF c
<1>14. CommandOK(t)'  BY <1>2, <1>12, <1>13 DEF CommandOK, Step
<1> QED  BY <1>2, <1>5, <1>7, <1>14, LocalStep DEF ThreadOK

\* What a command does to the chains: it appends to what they have, and a
\* connection gets an end on each of two different chains.
LEMMA EffectKeeps ==
  ASSUME PathInv, NEW t \in Threads, Running(t), Valid(cmd[t]), Effect(cmd[t])
  PROVE  LET c == cmd[t]
             a == NewConn(c)[1]
             b == NewConn(c)[2]
         IN /\ clients' \in [Chains -> Seq(Chains)] /\ conns' \in [Chains -> Seq(Connection)] /\ ConnsGrow
            /\ c.kind = "conn" =>
                 /\ a \in DOMAIN conns'[c.host] /\ b \in DOMAIN conns'[Peer(c)]
                 /\ conns'[c.host][a].peer = Peer(c) /\ conns'[c.host][a].peerConn = b
                 /\ conns'[Peer(c)][b].peer = c.host /\ conns'[Peer(c)][b].peerConn = a
<1> DEFINE c == cmd[t]
           far == Peer(c)
           a == Len(conns[c.host]) + 1
           b == Len(conns[far]) + 1
<1>0. NewConn(c)[1] = a /\ NewConn(c)[2] = b  BY DEF NewConn, Pair
<1>1. clients \in [Chains -> Seq(Chains)] /\ conns \in [Chains -> Seq(Connection)]  BY DEF PathInv, StateOK
<1>2. c.host \in Chains /\ far \in Chains  BY DEF Valid
<1>3. pc[t] \in {"run1", "run2"} /\ CommandOK(t) /\ PathOK(t)  BY DEF Running, PathInv, ThreadOK
<1>4. Step(t) \in LockingOps  BY <1>3 DEF PathOK, OnPathPCs
<1>5. c.kind \in {"client", "update", "conn", "chan"}  BY <1>3, <1>4 DEF CommandOK, LockingOps
<1>6. c.kind = "conn" => c.host # far /\ c.ids \in [Ends -> Nat]
  <2>1. c.host # far  BY DEF Valid
  <2> QED  BY <1>3, <2>1 DEF CommandOK
<1>7. CASE c.kind = "client"
  <2>1. clients' = [clients EXCEPT ![c.host] = Append(clients[c.host], far)] /\ conns' = conns
    BY <1>7 DEF Effect, Peer
  <2>2. clients' \in [Chains -> Seq(Chains)]  BY <1>1, <1>2, <2>1
  <2> QED  BY <1>1, <1>7, <2>1, <2>2 DEF ConnsGrow
<1>8. CASE c.kind \in {"update", "chan"}
  <2>1. clients' = clients /\ conns' = conns  BY <1>8 DEF Effect, chainVars
  <2> QED  BY <1>1, <1>8, <2>1 DEF ConnsGrow
<1>9. CASE c.kind = "conn"
  <2> DEFINE ra == [client |-> c.ids[1], peer |-> far, peerConn |-> b]
             rb == [client |-> c.ids[2], peer |-> c.host, peerConn |-> a]
             ha == conns[c.host]
             hb == conns[far]
  <2>1. clients' = clients /\ conns' = [conns EXCEPT ![c.host] = Append(@, ra), ![far] = Append(@, rb)]
    BY <1>0, <1>9 DEF Effect
  <2>2. ha \in Seq(Connection) /\ hb \in Seq(Connection) /\ a \in Nat /\ b \in Nat  BY <1>1, <1>2
  <2>3. ra \in Connection /\ rb \in Connection
    <3>1. c.ids[1] \in Nat /\ c.ids[2] \in Nat  BY <1>6, <1>9, EndsAre
    <3> QED  BY <1>2, <2>2, <3>1 DEF Connection
  <2>4. ra.peer = far /\ ra.peerConn = b /\ rb.peer = c.host /\ rb.peerConn = a  OBVIOUS
  <2> HIDE DEF ra, rb
  <2>5. /\ conns'[c.host] = Append(ha, ra) /\ conns'[far] = Append(hb, rb)
        /\ \A d \in Chains : d # c.host /\ d # far => conns'[d] = conns[d]
        /\ DOMAIN conns' = Chains
    BY <1>1, <1>2, <1>6, <1>9, <2>1
  <2>6. Append(ha, ra) \in Seq(Connection) /\ Append(hb, rb) \in Seq(Connection)  BY <2>2, <2>3
  <2>7. conns' \in [Chains -> Seq(Connection)]
    <3>1. \A d \in Chains : conns'[d] \in Seq(Connection)  BY <1>1, <2>5, <2>6
    <3>2. conns' = [d \in Chains |-> conns'[d]]  BY <1>1, <2>1
    <3> QED  BY <3>1, <3>2
  <2>8. /\ DOMAIN Append(ha, ra) = 1..a /\ Append(ha, ra)[a] = ra /\ DOMAIN ha = 1..(a - 1)
        /\ \A i \in DOMAIN ha : Append(ha, ra)[i] = ha[i]
    BY <2>2, <2>3, SMTT(30)
  <2>9. /\ DOMAIN Append(hb, rb) = 1..b /\ Append(hb, rb)[b] = rb /\ DOMAIN hb = 1..(b - 1)
        /\ \A i \in DOMAIN hb : Append(hb, rb)[i] = hb[i]
    BY <2>2, <2>3
  <2>10. a \in 1..a /\ b \in 1..b /\ 1..(a - 1) \subseteq 1..a /\ 1..(b - 1) \subseteq 1..b
    BY <2>2, SMTT(30)
  <2>11. ConnsGrow
    <3> SUFFICES ASSUME NEW d \in Chains
                 PROVE  /\ DOMAIN conns[d] \subseteq DOMAIN conns'[d]
                        /\ \A i \in DOMAIN conns[d] : conns'[d][i] = conns[d][i]
      BY DEF ConnsGrow
    <3>1. CASE d = c.host  BY <2>5, <2>8, <2>10, <3>1
    <3>2. CASE d = far  BY <2>5, <2>9, <2>10, <3>2
    <3>3. CASE d # c.host /\ d # far  BY <2>5, <3>3
    <3> QED  BY <3>1, <3>2, <3>3
  <2>12. /\ a \in DOMAIN conns'[c.host] /\ b \in DOMAIN conns'[far]
         /\ conns'[c.host][a] = ra /\ conns'[far][b] = rb
    BY <2>5, <2>8, <2>9, <2>10
  <2>13. clients' \in [Chains -> Seq(Chains)]  BY <1>1, <2>1
  <2> QED  BY <1>0, <2>4, <2>7, <2>11, <2>12, <2>13
<1> QED  BY <1>0, <1>5, <1>7, <1>8, <1>9

\* What an operation stores: the path's chain IDs fade at most, and its
\* connection IDs change with a new connection only.
LEMMA StoreSets ==
  ASSUME PathInv, NEW t \in Threads, Running(t), Valid(cmd[t]), Store(t, cmd[t])
  PROVE  \E r \in pathConfiguration :
           /\ obj' = [obj EXCEPT ![ptr[t]] = r]
           /\ \A e \in Ends : r.chain[e] \in Chains => r.chain[e] = obj[ptr[t]].chain[e]
           /\ \/ r.conn = obj[ptr[t]].conn
              \/ /\ Step(t) = "CreateConnections"
                 /\ r.conn = NewConn(cmd[t])
<1> DEFINE c == cmd[t]
           o == ptr[t]
           p == obj[o]
           id == Len(clients[c.host]) + 1
           k == NewConn(c)
<1>1. pc[t] \in {"run1", "run2"} /\ PathOK(t)  BY DEF Running, PathInv, ThreadOK
<1>2. o \in 1..MaxObjs /\ p \in pathConfiguration /\ Step(t) \in LockingOps  BY <1>1 DEF PathOK, OnPathPCs
<1>3. obj \in [1..MaxObjs -> pathConfiguration \cup {None}]  BY DEF PathInv, StateOK
<1>4. /\ p.chain \in [Ends -> Chains \cup Nat] /\ p.client \in [Ends -> Nat] /\ p.conn \in [Ends -> Nat]
      /\ p.port \in [Ends -> BOOLEAN]
      /\ p = [chain |-> p.chain, client |-> p.client, conn |-> p.conn, port |-> p.port]
  BY <1>2 DEF pathConfiguration
<1>5. id \in Nat /\ k \in [Ends -> Nat]
  <2> DEFINE far == Peer(c)
  <2>1. c.host \in Chains /\ far \in Chains  BY DEF Valid
  <2>2. clients[c.host] \in Seq(Chains) /\ conns[c.host] \in Seq(Connection) /\ conns[far] \in Seq(Connection)
    BY <2>1 DEF PathInv, StateOK
  <2>3. Len(conns[c.host]) + 1 \in Nat /\ Len(conns[far]) + 1 \in Nat /\ id \in Nat  BY <2>2, SMTT(30)
  <2> QED  BY <2>3, PairType DEF NewConn
<1>6. End(t) \in Ends  BY EndsAre DEF End
<1>7. /\ Step(t) = "CreateClients" => obj' = [obj EXCEPT ![o].client[End(t)] = id]
      /\ Step(t) = "CreateClient" =>
           obj' = [obj EXCEPT ![o].chain = IF @[1] = c.host THEN Pair(id, @[2])
                                           ELSE IF @[2] = c.host THEN Pair(@[1], id) ELSE @]
      /\ Step(t) = "UpdateClients" => obj' = obj
      /\ Step(t) = "CreateConnections" => obj' = [obj EXCEPT ![o].conn = k]
      /\ Step(t) = "CreateChannel" => obj' = [obj EXCEPT ![o].port = Both(TRUE)]
  BY DEF Store
<1> HIDE DEF id, k, c
<1>8. CASE Step(t) = "CreateClients"
  <2> DEFINE r == [p EXCEPT !.client[End(t)] = id]
  <2>1. obj' = [obj EXCEPT ![o] = r]  BY <1>2, <1>3, <1>7, <1>8
  <2>2. r \in pathConfiguration /\ r.chain = p.chain /\ r.conn = p.conn
    BY <1>2, <1>4, <1>5, <1>6 DEF pathConfiguration
  <2> HIDE DEF r
  <2> QED  BY <2>1, <2>2
<1>9. CASE Step(t) = "CreateClient"
  <2> DEFINE ch == IF p.chain[1] = c.host THEN Pair(id, p.chain[2])
                   ELSE IF p.chain[2] = c.host THEN Pair(p.chain[1], id) ELSE p.chain
             r == [p EXCEPT !.chain = ch]
  <2>1. obj' = [obj EXCEPT ![o] = r]  BY <1>2, <1>3, <1>7, <1>9
  <2>2. /\ ch \in [Ends -> Chains \cup Nat]
        /\ \A e \in Ends : ch[e] \in Chains => ch[e] = p.chain[e]
    <3>1. id \notin Chains /\ id \in Chains \cup Nat  BY <1>5, IDsAssumption
    <3>2. p.chain[1] \in Chains \cup Nat /\ p.chain[2] \in Chains \cup Nat  BY <1>4, EndsAre
    <3>3. /\ Pair(id, p.chain[2]) \in [Ends -> Chains \cup Nat]
          /\ Pair(id, p.chain[2])[1] = id /\ Pair(id, p.chain[2])[2] = p.chain[2]
      BY <3>1, <3>2, EndsAre DEF Pair
    <3>4. /\ Pair(p.chain[1], id) \in [Ends -> Chains \cup Nat]
          /\ Pair(p.chain[1], id)[1] = p.chain[1] /\ Pair(p.chain[1], id)[2] = id
      BY <3>1, <3>2, EndsAre DEF Pair
    <3>5. CASE p.chain[1] = c.host
      <4>1. ch = Pair(id, p.chain[2])  BY <3>5
      <4> QED  BY <3>1, <3>3, <4>1, EndsAre
    <3>6. CASE p.chain[1] # c.host /\ p.chain[2] = c.host
      <4>1. ch = Pair(p.chain[1], id)  BY <3>6
      <4> QED  BY <3>1, <3>4, <4>1, EndsAre
    <3>7. CASE p.chain[1] # c.host /\ p.chain[2] # c.host  BY <1>4, <3>7
    <3> QED  BY <3>5, <3>6, <3>7
  <2> HIDE DEF ch
  <2>3. r \in pathConfiguration /\ r.chain = ch /\ r.conn = p.conn  BY <1>4, <2>2 DEF pathConfiguration
  <2> HIDE DEF r
  <2> QED  BY <2>1, <2>2, <2>3
<1>10. CASE Step(t) = "UpdateClients"
  <2>1. obj' = [obj EXCEPT ![o] = p]  BY <1>2, <1>3, <1>7, <1>10
  <2> QED  BY <1>2, <2>1
<1>11. CASE Step(t) = "CreateConnections"
  <2> DEFINE r == [p EXCEPT !.conn = k]
  <2>1. obj' = [obj EXCEPT ![o] = r]  BY <1>2, <1>3, <1>7, <1>11
  <2>2. r \in pathConfiguration /\ r.chain = p.chain /\ r.conn = k  BY <1>4, <1>5 DEF pathConfiguration
  <2> HIDE DEF r
  <2> QED  BY <1>11, <2>1, <2>2 DEF k, c
<1>12. CASE Step(t) = "CreateChannel"
  <2> DEFINE r == [p EXCEPT !.port = Both(TRUE)]
  <2>1. obj' = [obj EXCEPT ![o] = r]  BY <1>2, <1>3, <1>7, <1>12
  <2>2. Both(TRUE) \in [Ends -> BOOLEAN]  BY PairType DEF Both
  <2>3. r \in pathConfiguration /\ r.chain = p.chain /\ r.conn = p.conn  BY <1>4, <2>2 DEF pathConfiguration
  <2> HIDE DEF r
  <2> QED  BY <2>1, <2>3
<1> QED  BY <1>2, <1>8, <1>9, <1>10, <1>11, <1>12 DEF LockingOps

\* The command is done and its IDs are stored.
LEMMA RunCommandKeeps == ASSUME PathInv, NEW t \in Threads, RunCommand(t)
  PROVE  /\ PathInv'
         /\ \/ ConnsKept
            \/ /\ Step(t) = "CreateConnections" /\ ConnsGrow
               /\ \A q \in 1..MaxObjs \ {ptr[t]} : obj'[q] = obj[q]
               /\ obj'[ptr[t]].conn[1] = NewConn(cmd[t])[1]
               /\ conns'[cmd[t].host][NewConn(cmd[t])[1]].peer = Peer(cmd[t])
<1> DEFINE c == cmd[t]
           o == ptr[t]
           far == Peer(c)
           a == NewConn(c)[1]
           b == NewConn(c)[2]
<1>1. /\ Running(t) /\ Valid(c) /\ Effect(c) /\ Store(t, c)
      /\ UNCHANGED <<owner, chainLocks, paths, todo, pname, arg, ptr, lk, cmd>>
  BY DEF RunCommand
<1>2. PICK l \in {"build2", "unlockA"} : pc' = [pc EXCEPT ![t] = l]  BY DEF RunCommand, Goto
<1>3. PICK r \in pathConfiguration :
        /\ obj' = [obj EXCEPT ![o] = r]
        /\ \A e \in Ends : r.chain[e] \in Chains => r.chain[e] = obj[o].chain[e]
        /\ r.conn = obj[o].conn \/ (Step(t) = "CreateConnections" /\ r.conn = NewConn(c))
  BY <1>1, StoreSets
<1>4. /\ clients' \in [Chains -> Seq(Chains)] /\ conns' \in [Chains -> Seq(Connection)] /\ ConnsGrow
      /\ c.kind = "conn" =>
           /\ a \in DOMAIN conns'[c.host] /\ b \in DOMAIN conns'[far]
           /\ conns'[c.host][a].peer = far /\ conns'[c.host][a].peerConn = b
           /\ conns'[far][b].peer = c.host /\ conns'[far][b].peerConn = a
  BY <1>1, EffectKeeps
<1>5. pc[t] \in {"run1", "run2"} /\ PathOK(t) /\ CommandOK(t)  BY <1>1 DEF Running, PathInv, ThreadOK
<1>6. /\ o \in 1..MaxObjs /\ obj[o] \in pathConfiguration
      /\ \A e \in Ends : obj[o].chain[e] \in Chains => obj[o].chain[e] = lk[t][e]
  BY <1>5 DEF PathOK, OnPathPCs
<1>7. PathsFade /\ StateOK'  BY <1>1, <1>3, <1>4, <1>6, PathSet
<1>8. OthersStay(t) /\ Locals' /\ pc'[t] = l /\ CallOK(t)' /\ PathOK(t)'
  <2>1. DOMAIN cmd' = Threads  BY <1>1 DEF PathInv, Locals
  <2> QED  BY <1>1, <1>2, <1>5, <1>7, <2>1, OnPathMoves DEF OnPathPCs
<1>9. LocksOK(t)' /\ CommandOK(t)'
  <2>1. \A e \in Ends : lk[t][e] \in Chains /\ owner[lk[t][e]] = t  BY <1>5, HasBoth DEF HasA, HasB
  <2> QED  BY <1>1, <1>2, <1>8, <2>1, EndsAre DEF LocksOK, CommandOK
<1>10. obj'[o] = r /\ \A q \in 1..MaxObjs \ {o} : obj'[q] = obj[q]
  BY <1>3, <1>6 DEF PathInv, StateOK
<1>11. obj[o] # None  BY <1>6, IDsAssumption
<1>12. CASE r.conn = obj[o].conn
  <2>1. ConnsKept  BY <1>3, <1>4, <1>10, <1>11, <1>12 DEF ConnsKept
  <2>2. ConnectionReal'  BY <2>1, PathsKeepReal
  <2> QED  BY <1>1, <1>7, <1>8, <1>9, <2>1, <2>2, SharedStep DEF ThreadOK
<1>13. CASE Step(t) = "CreateConnections" /\ r.conn = NewConn(c)
  <2>1. c.kind = "conn" /\ c.host \in Chains  BY <1>1, <1>5, <1>13 DEF CommandOK, Valid
  <2>2. c.host = lk[t][1]  BY <1>5, <2>1 DEF CommandOK
  <2>3. obj'[o].conn[1] = a /\ obj'[o].conn[2] = b  BY <1>10, <1>13
  <2> HIDE DEF a, b, c, far
  <2>4. ASSUME NEW q \in 1..MaxObjs, obj'[q] # None, obj'[q].conn # Both(0), obj'[q].chain[1] \in Chains
        PROVE  LET x == obj'[q].chain[1]
                   near == conns'[x][obj'[q].conn[1]]
                   end == conns'[near.peer][obj'[q].conn[2]]
               IN /\ obj'[q].conn[1] \in DOMAIN conns'[x] /\ obj'[q].conn[2] \in DOMAIN conns'[near.peer]
                  /\ near.peerConn = obj'[q].conn[2]
                  /\ end.peer = x /\ end.peerConn = obj'[q].conn[1]
    <3>1. CASE q # o
      <4>1. obj'[q] = obj[q]  BY <1>10, <3>1
      <4> QED  BY <1>4, <2>4, <4>1, PathKeepsReal
    <3>2. CASE q = o
      <4>1. obj'[o].chain[1] = c.host  BY <1>3, <1>6, <1>10, <2>2, <2>4, <3>2, EndsAre
      <4> QED  BY <1>4, <2>1, <2>3, <3>2, <4>1
    <3> QED  BY <3>1, <3>2
  <2>5. ConnectionReal'  BY <2>4 DEF ConnectionReal
  <2>6. PathInv'  BY <1>1, <1>7, <1>8, <1>9, <2>5, SharedStep DEF ThreadOK
  <2> QED  BY <1>4, <1>10, <1>13, <2>1, <2>3, <2>6 DEF a, c, far
<1> QED  BY <1>3, <1>12, <1>13

\* The command fails, or its output is lost: the path stays what it was.
LEMMA CommandFailsKeeps == ASSUME PathInv, NEW t \in Threads, CommandFails(t) PROVE PathInv' /\ ConnsKept
<1>1. /\ Running(t) /\ pc' = [pc EXCEPT ![t] = "unlockA"]
      /\ UNCHANGED <<owner, chainLocks, paths, obj, todo, pname, arg, ptr, lk, cmd>>
  BY DEF CommandFails, Goto, relayerVars
<1>2. clients' \in [Chains -> Seq(Chains)] /\ conns' \in [Chains -> Seq(Connection)] /\ ConnsGrow
  <2>1. CASE UNCHANGED chainVars  BY <2>1 DEF chainVars, ConnsGrow, PathInv, StateOK
  <2>2. CASE Valid(cmd[t]) /\ Effect(cmd[t])  BY <1>1, <2>2, EffectKeeps
  <2> QED  BY <2>1, <2>2 DEF CommandFails
<1>3. pc[t] \in {"run1", "run2"}  BY <1>1 DEF Running
<1>4. PathsFade /\ StateOK'  BY <1>1, <1>2 DEF PathsFade, PathInv, StateOK
<1>5. OthersStay(t) /\ Locals' /\ pc'[t] = "unlockA" /\ CallOK(t)' /\ PathOK(t)'
  <2>1. DOMAIN cmd' = Threads  BY <1>1 DEF PathInv, Locals
  <2> QED  BY <1>1, <1>3, <1>4, <2>1, OnPathMoves DEF OnPathPCs
<1>6. LocksOK(t)' /\ CommandOK(t)'
  <2>1. \A e \in Ends : lk[t][e] \in Chains /\ owner[lk[t][e]] = t  BY <1>3, HasBoth DEF HasA, HasB
  <2> QED  BY <1>1, <1>5, <2>1, EndsAre DEF LocksOK, CommandOK
<1>7. ConnsKept  BY <1>1, <1>2 DEF ConnsKept
<1>8. ConnectionReal'  BY <1>7, PathsKeepReal
<1> QED  BY <1>1, <1>4, <1>5, <1>6, <1>7, <1>8, SharedStep DEF ThreadOK

----------------------------------------------------------------------------
(* The theorems *)

LEMMA PathInvStep == PathInv /\ [Next]_vars => PathInv'
<1> SUFFICES ASSUME PathInv, [Next]_vars PROVE PathInv'  OBVIOUS
<1>1. ASSUME UNCHANGED vars PROVE PathInv'
  <2>1. UNCHANGED <<owner, chainLocks, paths, obj, pc, todo, pname, arg, ptr, lk, cmd, clients, conns>>
    BY <1>1 DEF vars, relayerVars, localVars, chainVars
  <2>2. Locals' /\ StateOK' /\ ConnectionReal'
    BY <2>1 DEF PathInv, Locals, StateOK, ConnectionReal
  <2>3. ASSUME NEW t \in Threads PROVE ThreadOK(t)'
    <3>1. ThreadOK(t)  BY DEF PathInv
    <3>2. CallOK(t)' /\ LocksOK(t)' /\ CommandOK(t)'
      BY <2>1, <3>1 DEF ThreadOK, CallOK, ArgsOK, Step, LocksOK, CommandOK
    <3>3. PathOK(t)'  BY <2>1, <3>1 DEF ThreadOK, PathOK, Step
    <3> QED  BY <3>2, <3>3 DEF ThreadOK
  <2> QED  BY <2>2, <2>3 DEF PathInv
<1>2. CASE \E t \in Threads : Calls(t)  BY <1>2, CallsKeep
<1>3. CASE \E t \in Threads : Acquire(t)  BY <1>3, WaitKeeps, LockChainAKeeps, LockChainBKeeps DEF Acquire
<1>4. CASE \E t \in Threads : Advance(t)
  BY <1>4, WaitKeeps, ReturnKeeps, UpdatePathKeeps, GeneratePathKeeps, AddChainLockKeeps, LookupKeeps,
     PanicKeeps, BuildKeeps, RunCommandKeeps, CommandFailsKeeps, UnlockChainAKeeps, UnlockChainBKeeps
  DEF Advance
<1> QED  BY <1>1, <1>2, <1>3, <1>4 DEF Next, TestOver

LEMMA PathInvHolds == Spec => []PathInv
  BY InitPathInv, PathInvStep, PTL DEF Spec

\* A chain has one owner, and a command in flight works on chains its goroutine
\* owns only, but for the one it strays to.
LEMMA OwnersExclude == PathInv => ChainExclusive
<1> SUFFICES ASSUME PathInv, NEW t \in Threads, NEW u \in Threads, t # u, Running(t), Running(u),
                    NEW x \in WorksOn(cmd[t]) \ Astray(t), x \in WorksOn(cmd[u]) \ Astray(u)
             PROVE  FALSE
  BY DEF ChainExclusive
<1>1. ASSUME NEW v \in Threads, Running(v), x \in WorksOn(cmd[v]) \ Astray(v)
      PROVE  owner[x] = v
  <2>1. pc[v] \in {"run1", "run2"} /\ CommandOK(v) /\ PathOK(v)  BY <1>1 DEF Running, PathInv, ThreadOK
  <2>2. owner[lk[v][1]] = v /\ owner[lk[v][2]] = v  BY <2>1, HasBoth, EndsAre DEF HasA, HasB
  <2>3. x \in Chains /\ (x = cmd[v].host \/ x = Peer(cmd[v]))  BY <1>1 DEF WorksOn
  <2>4. x \in {lk[v][1], lk[v][2]}
    <3>1. CASE Step(v) = "CreateClient"
      <4>1. cmd[v].host = arg[v][1] /\ cmd[v].ref = arg[v][2] /\ cmd[v].kind = "client"
        BY <2>1, <3>1 DEF CommandOK
      <4>2. Peer(cmd[v]) = arg[v][2]  BY <4>1 DEF Peer
      <4> QED  BY <1>1, <2>3, <3>1, <4>1, <4>2 DEF Astray
    <3>2. CASE Step(v) = "CreateClients"
      <4>1. cmd[v].kind = "client"  BY <2>1, <3>2 DEF CommandOK
      <4>2. Peer(cmd[v]) = cmd[v].ref  BY <4>1 DEF Peer
      <4> QED  BY <2>1, <2>3, <3>2, <4>2 DEF CommandOK
    <3>3. CASE Step(v) \notin {"CreateClient", "CreateClients"}
      <4>1. CASE x = cmd[v].host  BY <2>1, <2>3, <3>3, <4>1 DEF CommandOK
      <4>2. CASE x = Peer(cmd[v])  BY <1>1, <3>3, <4>2 DEF Astray
      <4> QED  BY <2>3, <4>1, <4>2
    <3> QED  BY <3>1, <3>2, <3>3
  <2> QED  BY <2>2, <2>4
<1>2. owner[x] = t /\ owner[x] = u  BY <1>1
<1> QED  BY <1>2

\* No two goroutines ever have hermes commands in flight on a common chain, whatever
\* the paths, their order of chains and the calls (getAndLockPath), but for the chain
\* that a CreateClient was called with or that hermes finds behind a foreign client.
THEOREM ChainsAreExclusive == Spec => []ChainExclusive
  BY PathInvHolds, OwnersExclude, PTL

\* What a step does to the connections that paths remember.
LEMMA ConnsStep ==
  ASSUME PathInv, [Next]_vars
  PROVE  \/ ConnsKept
         \/ \E t \in Threads :
              /\ RunCommand(t) /\ Step(t) = "CreateConnections" /\ ConnsGrow
              /\ \A q \in 1..MaxObjs \ {ptr[t]} : obj'[q] = obj[q]
              /\ obj'[ptr[t]].conn[1] = NewConn(cmd[t])[1]
              /\ conns'[cmd[t].host][NewConn(cmd[t])[1]].peer = Peer(cmd[t])
<1>1. ASSUME UNCHANGED <<obj, conns>> PROVE ConnsKept  BY <1>1 DEF ConnsKept, ConnsGrow
<1>2. CASE UNCHANGED vars  BY <1>1, <1>2 DEF vars, relayerVars, chainVars
<1>3. ASSUME NEW t \in Threads, Calls(t) \/ Acquire(t) PROVE UNCHANGED <<obj, conns>>
  <2>1. CASE Calls(t)
    BY <2>1 DEF Calls, CallOnPath, CallCreateClient, CallUpdatePath, CallGeneratePath,
                CallAddChainConfiguration, CallFlush, Call, relayerVars, chainVars
  <2>2. CASE Acquire(t)  BY <2>2 DEF Acquire, AnnounceLock, RLock, LockChainA, LockChainB, chainVars
  <2> QED  BY <1>3, <2>1, <2>2
<1>4. ASSUME NEW t \in Threads, Advance(t)
      PROVE  \/ UNCHANGED <<obj, conns>> \/ UpdatePath(t) \/ GeneratePath(t) \/ RunCommand(t) \/ CommandFails(t)
  BY <1>4 DEF Advance, AcquireLock, PathExists, ConfigContent, ValidateConfig, AddChainLock, LookupPath,
              LockMissingChain, BuildCommand, UnlockChainA, UnlockChainB, FlushPathMissing, FlushReturnsError,
              FlushFindsChannel, ClearPackets, relayerVars, chainVars
<1> QED  BY <1>1, <1>2, <1>3, <1>4, UpdatePathKeeps, GeneratePathKeeps, RunCommandKeeps, CommandFailsKeeps
         DEF Next, TestOver

\* A path whose connection led to its chain B, or had none, gets one that does unless
\* the client of chain A is a foreign one.
LEMMA JoinsStep ==
  ASSUME PathInv, ConnectionJoins, NoForeignClient, [Next]_vars PROVE ConnectionJoins'
<1> SUFFICES ASSUME NEW o \in 1..MaxObjs, obj'[o] # None, obj'[o].conn # Both(0),
                    \A e \in Ends : obj'[o].chain[e] \in Chains
             PROVE  conns'[obj'[o].chain[1]][obj'[o].conn[1]].peer = obj'[o].chain[2]
  BY DEF ConnectionJoins
<1>1. ASSUME obj[o] # None, obj'[o].conn = obj[o].conn, ConnsGrow,
             \A e \in Ends : obj'[o].chain[e] = obj[o].chain[e]
      PROVE  conns'[obj'[o].chain[1]][obj'[o].conn[1]].peer = obj'[o].chain[2]
  <2>1. /\ \A e \in Ends : obj[o].chain[e] \in Chains
        /\ obj'[o].chain[1] = obj[o].chain[1] /\ obj'[o].chain[2] = obj[o].chain[2]
        /\ obj[o].chain[1] \in Chains
    BY <1>1, EndsAre
  <2>2. obj[o].conn[1] \in DOMAIN conns[obj[o].chain[1]]  BY <1>1, <2>1 DEF PathInv, ConnectionReal
  <2>3. conns[obj[o].chain[1]][obj[o].conn[1]].peer = obj[o].chain[2]  BY <1>1, <2>1 DEF ConnectionJoins
  <2> QED  BY <1>1, <2>1, <2>2, <2>3 DEF ConnsGrow
<1>2. CASE ConnsKept
  <2>1. /\ obj[o] # None /\ obj'[o].conn = obj[o].conn /\ ConnsGrow
        /\ \A e \in Ends : obj'[o].chain[e] = obj[o].chain[e]
    BY <1>2 DEF ConnsKept
  <2> QED  BY <1>1, <2>1
<1>3. ASSUME NEW t \in Threads, RunCommand(t), Step(t) = "CreateConnections", ConnsGrow,
             \A q \in 1..MaxObjs \ {ptr[t]} : obj'[q] = obj[q],
             obj'[ptr[t]].conn[1] = NewConn(cmd[t])[1],
             conns'[cmd[t].host][NewConn(cmd[t])[1]].peer = Peer(cmd[t])
      PROVE  conns'[obj'[o].chain[1]][obj'[o].conn[1]].peer = obj'[o].chain[2]
  <2>1. CASE o # ptr[t]
    <3>1. obj'[o] = obj[o]  BY <1>3, <2>1
    <3> QED  BY <1>1, <1>3, <3>1
  <2>2. CASE o = ptr[t]
    <3>1. Running(t) /\ Valid(cmd[t]) /\ UNCHANGED <<ptr, lk>>  BY <1>3 DEF RunCommand
    <3>2. pc[t] \in {"run1", "run2"} /\ CommandOK(t)  BY <3>1 DEF Running, PathInv, ThreadOK
    <3>3. cmd[t].kind = "conn"  BY <1>3, <3>2 DEF CommandOK
    <3>4. cmd[t].host \in Chains /\ Peer(cmd[t]) \in Chains /\ cmd[t].host # Peer(cmd[t])  BY <3>1 DEF Valid
    <3>5. cmd[t].host = lk[t][1]  BY <3>2, <3>3, <3>4 DEF CommandOK
    <3>6. Peer(cmd[t]) \in {lk[t][1], lk[t][2]}
      <4>1. Astray(t) = {Peer(cmd[t])} \ {lk[t][1], lk[t][2]}  BY <1>3 DEF Astray
      <4>2. Astray(t) \cap Chains = {}  BY <3>1, <3>3 DEF NoForeignClient
      <4> QED  BY <3>4, <4>1, <4>2
    <3>7. Peer(cmd[t]) = lk[t][2]  BY <3>4, <3>5, <3>6
    <3>8. obj'[o].chain[1] = lk[t][1] /\ obj'[o].chain[2] = lk[t][2]
      <4>1. PathInv'  BY <1>3, RunCommandKeeps
      <4>2. pc'[t] \in OnPathPCs /\ PathOK(t)'
        <5>1. pc' = [pc EXCEPT ![t] = "build2"] \/ pc' = [pc EXCEPT ![t] = "unlockA"]
          BY <1>3 DEF RunCommand, Goto
        <5> QED  BY <4>1, <5>1 DEF PathInv, ThreadOK, Locals, OnPathPCs
      <4>3. \A e \in Ends : obj'[o].chain[e] = lk[t][e]  BY <2>2, <3>1, <4>2 DEF PathOK
      <4> QED  BY <4>3, EndsAre
    <3> QED  BY <1>3, <2>2, <3>5, <3>7, <3>8
  <2> QED  BY <2>1, <2>2
<1> QED  BY <1>2, <1>3, ConnsStep

\* The IDs a path remembers are the two ends of one connection of its chain A,
\* whichever commands failed or lost their output (CreateConnections), and it leads to
\* the path's chain B if no connection is ever created over a foreign client.
THEOREM PathsJoinTheirChains == Spec => PathJoinsItsChains
<1>1. PathInv => ConnectionReal  BY DEF PathInv
<1>2. Init => ConnectionJoins
  <2> SUFFICES ASSUME Init PROVE ConnectionJoins  OBVIOUS
  <2>1. \A ends : NewPath(ends).conn = Both(0)  BY DEF NewPath
  <2>2. \A o \in 1..MaxObjs : obj[o] = IF o <= Len(Generated) THEN NewPath(PathEnds[Generated[o]]) ELSE None
    BY DEF Init
  <2>3. \A o \in 1..MaxObjs : obj[o] # None => obj[o].conn = Both(0)  BY <2>1, <2>2
  <2> QED  BY <2>3 DEF ConnectionJoins
<1>3. PathInv /\ NoForeignClient /\ ConnectionJoins /\ [Next]_vars => ConnectionJoins'  BY JoinsStep
<1>4. Spec => []ConnectionReal  BY <1>1, PathInvHolds, PTL
<1>5. Spec => ([]NoForeignClient => []ConnectionJoins)  BY <1>2, <1>3, PathInvHolds, PTL DEF Spec
<1> QED  BY <1>4, <1>5, PTL DEF PathJoinsItsChains
=============================================================================
