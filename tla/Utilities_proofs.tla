-------------------------- MODULE Utilities_proofs --------------------------
(***************************************************************************)
(* The utilities a test calls.  For any number of nodes, ports and           *)
(* overrides: between the moment StartContainer closes its listeners and the *)
(* moment the daemon binds the ports, no listener of this process is on one  *)
(* of them.  For any number of chains, any delta, any range of heights and   *)
(* any number of blocks: the polls, WaitForBlocks and WaitForInSync are      *)
(* correct.                                                                  *)
(***************************************************************************)
EXTENDS ContainerLifecycle, Waiting, TLAPS

----------------------------------------------------------------------------
(* Container lifecycle and ports *)

Held(n) == open[n] \cup pre[n]

\* Listeners are on different ports, whoever holds them.
Apart ==
  /\ \A n, m \in Nodes : n # m => Held(n) \cap Held(m) = {}
  /\ \A n \in Nodes : open[n] \cap pre[n] = {} /\ Held(n) \cap orphans = {}

\* A start under way has closed its listeners.
Closed == \A n \in Nodes : pc[n] \in {"start", "check"} => pre[n] = {}

\* The inductive invariant.
PortInv == TypeOK /\ StartsAreReaders /\ KeptForTheStart /\ Apart /\ Closed /\ PortsKept

\* Nothing is open or published initially.
LEMMA InitPortInv == Init => PortInv
  BY NamesAssumption DEF Init, PortInv, TypeOK, StartsAreReaders, KeptForTheStart, Apart, Held, Closed, PortsKept, Listened, orphans

\* A listener is known to nobody but its holder.
LEMMA ListenedBy ==
  ASSUME NEW p \in HostPorts PROVE p \in Listened <=> p \in orphans \/ \E n \in Nodes : p \in Held(n)
  BY DEF Listened, Held

\* A step that opens no listener, starts nothing and keeps the mutex preserves
\* the invariant when it preserves the types and the use of the listeners.
LEMMA QuietStep ==
  ASSUME PortInv, TypeOK', KeptForTheStart', Closed',
         readers' = readers, freed' = freed, open' = open, pre' = pre, orphans' = orphans,
         \A n \in Nodes : pc'[n] \in {"start", "check"} <=> pc[n] \in {"start", "check"},
         \A n \in Nodes : pc'[n] = "start" => pc[n] = "start"
  PROVE  PortInv'
<1>1. Listened' = Listened  BY DEF Listened
<1>2. StartsAreReaders'  BY DEF PortInv, StartsAreReaders
<1>3. Apart'  BY DEF PortInv, Apart, Held
<1>4. PortsKept'  BY <1>1 DEF PortInv, PortsKept
<1> QED  BY <1>2, <1>3, <1>4 DEF PortInv

\* CreateContainer up to its port bindings, and the calls that only change what
\* the daemon says of the container.
LEMMA CreateKeeps == ASSUME PortInv, NEW n \in Nodes, CreateContainer(n) PROVE PortInv'
<1>1. TypeOK'  BY DEF PortInv, TypeOK, CreateContainer, Goto, mu
<1>2. KeptForTheStart'  BY DEF PortInv, TypeOK, KeptForTheStart, CreateContainer, Goto, mu
<1>3. Closed'  BY DEF PortInv, TypeOK, Closed, CreateContainer, Goto, mu
<1>4. /\ readers' = readers /\ freed' = freed /\ open' = open /\ pre' = pre /\ orphans' = orphans
      /\ \A k \in Nodes : pc'[k] \in {"start", "check"} <=> pc[k] \in {"start", "check"}
      /\ \A k \in Nodes : pc'[k] = "start" => pc[k] = "start"
  BY DEF PortInv, TypeOK, CreateContainer, Goto, mu, orphans
<1> QED  BY <1>1, <1>2, <1>3, <1>4, QuietStep

LEMMA LockKeeps == ASSUME PortInv, NEW n \in Nodes, Lock(n) PROVE PortInv'
<1>1. TypeOK'  BY DEF PortInv, TypeOK, Lock, Goto
<1>2. KeptForTheStart'  BY DEF PortInv, TypeOK, KeptForTheStart, Lock, Goto
<1>3. Closed'  BY DEF PortInv, TypeOK, Closed, Lock, Goto
<1>4. /\ readers' = readers /\ freed' = freed /\ open' = open /\ pre' = pre /\ orphans' = orphans
      /\ \A k \in Nodes : pc'[k] \in {"start", "check"} <=> pc[k] \in {"start", "check"}
      /\ \A k \in Nodes : pc'[k] = "start" => pc[k] = "start"
  BY DEF PortInv, TypeOK, Lock, Goto, orphans
<1> QED  BY <1>1, <1>2, <1>3, <1>4, QuietStep

LEMMA BecomesKeeps ==
  ASSUME PortInv, NEW n \in Nodes, NEW src, NEW dst, Becomes(n, src, dst),
         \/ src \subseteq {"running", "paused"} /\ dst \in {"running", "paused", "exited"}
         \/ dst = "removed"
  PROVE  PortInv'
<1>1. TypeOK'  BY DEF PortInv, TypeOK, Becomes, mu
<1>2. KeptForTheStart'  BY DEF PortInv, TypeOK, KeptForTheStart, Becomes, mu
<1>3. Closed'  BY DEF PortInv, Closed, Becomes
<1> QED  BY <1>1, <1>2, <1>3, QuietStep DEF Becomes, mu, orphans

LEMMA CrashKeeps == ASSUME PortInv, NEW n \in Nodes, Crash(n) PROVE PortInv'
<1>1. TypeOK'  BY DEF PortInv, TypeOK, Crash, mu
<1>2. KeptForTheStart'  BY DEF PortInv, TypeOK, KeptForTheStart, Crash, mu
<1>3. Closed'  BY DEF PortInv, Closed, Crash
<1> QED  BY <1>1, <1>2, <1>3, QuietStep DEF Crash, mu, orphans

\* OpenListener is the only step that listens on a new port.  It runs while there
\* is no reader, so no start is under way, and its Unlock begins the waiting ones.
LEMMA OpenKeeps == ASSUME PortInv, NEW n \in Nodes, OpenListener(n) PROVE PortInv'
<1> DEFINE W == Waiting
<1>0. PICK P \in SUBSET HostPorts :
        /\ \A p \in P : p \notin Listened
        /\ open'[n] \subseteq open[n] \cup P /\ open'[n] \in SUBSET HostPorts
        /\ \A m \in Nodes \ {n} : open'[m] = open[m]
        /\ open' \in [Nodes -> SUBSET HostPorts]
        /\ \E l \in {"bind", "idle"} : Admit([pc EXCEPT ![n] = l]) /\ (l = "idle" => open'[n] = {})
  <2>1. PICK k \in todo[n] :
          \/ \E p \in HostPorts :
               /\ Free(p)
               /\ open' = [open EXCEPT ![n] = @ \cup {p}]
               /\ Admit([pc EXCEPT ![n] = "bind"])
          \/ open' = [open EXCEPT ![n] = {}] /\ Admit([pc EXCEPT ![n] = "idle"])
    BY DEF OpenListener
  <2>2. CASE \E p \in HostPorts :
               /\ Free(p)
               /\ open' = [open EXCEPT ![n] = @ \cup {p}]
               /\ Admit([pc EXCEPT ![n] = "bind"])
    <3>1. PICK p \in HostPorts :
               /\ Free(p)
               /\ open' = [open EXCEPT ![n] = @ \cup {p}]
               /\ Admit([pc EXCEPT ![n] = "bind"])
      BY <2>2
    <3>2. p \notin Listened  BY <3>1 DEF Free
    <3>3. open \in [Nodes -> SUBSET HostPorts]  BY DEF PortInv, TypeOK
    <3>4. /\ open'[n] \subseteq open[n] \cup {p} /\ open'[n] \in SUBSET HostPorts
          /\ \A m \in Nodes \ {n} : open'[m] = open[m]
          /\ open' \in [Nodes -> SUBSET HostPorts]
      BY <3>1, <3>3
    <3> QED  BY <3>1, <3>2, <3>4, ZenonT(60)
  <2>3. CASE open' = [open EXCEPT ![n] = {}] /\ Admit([pc EXCEPT ![n] = "idle"])
    <3>1. open \in [Nodes -> SUBSET HostPorts]  BY DEF PortInv, TypeOK
    <3>2. /\ open'[n] = {} /\ \A m \in Nodes \ {n} : open'[m] = open[m]
          /\ open' \in [Nodes -> SUBSET HostPorts]
      BY <2>3, <3>1
    <3>3. {} \in SUBSET HostPorts  OBVIOUS
    <3> QED  BY <2>3, <3>2, <3>3
  <2> QED  BY <2>1, <2>2, <2>3
<1>1. PICK l \in {"bind", "idle"} : Admit([pc EXCEPT ![n] = l]) /\ (l = "idle" => open'[n] = {})
  BY <1>0
<1>2. /\ pc \in [Nodes -> {"idle", "bind", "lock", "create", "rlock", "start", "check"}]
      /\ pc[n] = "lock" /\ readers = {} /\ n \notin W
      /\ \A m \in Nodes : pc[m] \notin {"start", "check"}
      /\ \A m \in W : m \in Nodes /\ pc[m] = "rlock" /\ open[m] = {}
      /\ pre \in [Nodes -> SUBSET HostPorts] /\ freed \in [Nodes -> SUBSET HostPorts]
  BY DEF PortInv, TypeOK, StartsAreReaders, KeptForTheStart, OpenListener, Waiting
<1>3. /\ writer' = None /\ readers' = W
      /\ \A m \in Nodes : pc'[m] = IF m \in W THEN "start" ELSE IF m = n THEN l ELSE pc[m]
      /\ \A m \in Nodes : pre'[m] = IF m \in W THEN {} ELSE pre[m]
      /\ \A m \in Nodes : freed'[m] = IF m \in W THEN pre[m] ELSE freed[m]
      /\ pre' \in [Nodes -> SUBSET HostPorts] /\ freed' \in [Nodes -> SUBSET HostPorts]
      /\ pc' \in [Nodes -> {"idle", "bind", "lock", "create", "rlock", "start", "check"}]
  BY <1>1, <1>2 DEF Admit
<1>4. binds' = binds /\ ctr' = ctr /\ lost' = lost /\ orphans' = orphans /\ other' = other
  BY DEF OpenListener, orphans
<1>5. TypeOK'
  <2>1. readers' \subseteq Nodes  BY <1>2, <1>3
  <2> QED  BY <1>0, <1>3, <1>4, <2>1 DEF PortInv, TypeOK
<1>6. StartsAreReaders'  BY <1>1, <1>2, <1>3 DEF StartsAreReaders
<1>7. KeptForTheStart'
  BY <1>0, <1>1, <1>2, <1>3, <1>4 DEF PortInv, KeptForTheStart
<1>8. \A m \in Nodes : (m # n => Held(m)' \subseteq Held(m)) /\ Held(m)' \subseteq Held(m) \cup P /\ pre'[m] \subseteq pre[m]
  BY <1>0, <1>2, <1>3 DEF Held
<1>9. \A m \in Nodes : P \cap Held(m) = {} /\ P \cap orphans = {}
  BY <1>0, ListenedBy
<1>10. Apart'
  <2>1. \A a, b \in Nodes : a # b => Held(a)' \cap Held(b)' = {}
    BY <1>8, <1>9 DEF PortInv, Apart
  <2>2. \A a \in Nodes : Held(a)' \cap orphans' = {}
    BY <1>8, <1>9, <1>4 DEF PortInv, Apart
  <2>3. \A a \in Nodes : open'[a] \cap pre'[a] = {}
    BY <1>0, <1>8, <1>9 DEF PortInv, Apart, Held
  <2> QED  BY <2>1, <2>2, <2>3 DEF Apart
<1>11. Closed'  BY <1>1, <1>2, <1>3 DEF Closed
<1>12. PortsKept'
  <2> SUFFICES ASSUME NEW m \in Nodes, pc'[m] = "start", NEW p \in freed'[m], p \in Listened' PROVE FALSE
    BY DEF PortsKept
  <2>1. m \in W /\ p \in pre[m] /\ p \in Held(m)  BY <1>1, <1>2, <1>3 DEF Held
  <2>2. p \notin orphans'  BY <2>1, <1>4 DEF PortInv, Apart
  <2>3. PICK q \in Nodes : p \in Held(q)'
    BY <2>2 DEF Listened, Held
  <2>4. CASE q = m
    <3>1. Held(m)' = {}  BY <2>1, <1>0, <1>2, <1>3 DEF Held
    <3> QED  BY <2>3, <2>4, <3>1
  <2>5. CASE q # m  BY <2>1, <2>3, <2>5, <1>8, <1>9 DEF PortInv, Apart
  <2> QED  BY <2>4, <2>5
<1> QED  BY <1>5, <1>6, <1>7, <1>10, <1>11, <1>12 DEF PortInv

\* The listeners pass from GeneratePortBindings to the lifecycle.
LEMMA KeepListenersKeeps == ASSUME PortInv, NEW n \in Nodes, KeepListeners(n) PROVE PortInv'
<1>1. TypeOK'  BY DEF PortInv, TypeOK, KeepListeners, Goto, mu
<1>2. StartsAreReaders'  BY DEF PortInv, TypeOK, StartsAreReaders, KeepListeners, Goto, mu
<1>3. KeptForTheStart'  BY DEF PortInv, TypeOK, KeptForTheStart, KeepListeners, Goto, mu
<1>4. Closed'  BY DEF PortInv, TypeOK, Closed, KeepListeners, Goto, mu
<1>5. /\ orphans' = orphans \cup pre[n]
      /\ \A m \in Nodes : open'[m] = IF m = n THEN {} ELSE open[m]
      /\ \A m \in Nodes : pre'[m] = IF m = n THEN open[n] ELSE pre[m]
  BY DEF PortInv, TypeOK, KeepListeners, orphans
<1>6. \A m \in Nodes : Held(m)' \subseteq Held(m)  BY <1>5 DEF Held
<1>7. Apart'
  <2>1. \A a, b \in Nodes : a # b => Held(a)' \cap Held(b)' = {}
    BY <1>6 DEF PortInv, Apart
  <2>2. \A a \in Nodes : open'[a] \cap pre'[a] = {}
    BY <1>5 DEF PortInv, Apart
  <2>3. \A a \in Nodes : Held(a)' \cap orphans' = {}
    <3>1. \A a \in Nodes : Held(a)' \cap orphans = {}  BY <1>6 DEF PortInv, Apart
    <3>2. Held(n)' = open[n]  BY <1>5 DEF Held
    <3>3. Held(n)' \cap pre[n] = {}  BY <3>2 DEF PortInv, Apart
    <3>4. pre[n] \subseteq Held(n)  BY DEF Held
    <3>5. \A a \in Nodes : a # n => Held(a)' \cap pre[n] = {}  BY <1>6, <3>4 DEF PortInv, Apart
    <3> QED  BY <1>5, <3>1, <3>3, <3>5
  <2> QED  BY <2>1, <2>2, <2>3 DEF Apart
<1>8. Listened' \subseteq Listened
  BY <1>5, <1>6 DEF Listened, Held
<1>9. PortsKept'
  <2>1. freed' = freed /\ \A m \in Nodes : pc'[m] = "start" => pc[m] = "start"
    BY DEF PortInv, TypeOK, KeepListeners, Goto
  <2> QED  BY <1>8, <2>1 DEF PortInv, PortsKept
<1> QED  BY <1>1, <1>2, <1>3, <1>4, <1>7, <1>9 DEF PortInv

\* Listeners that are left open are still nobody else's.
LEMMA AtoiFailsKeeps == ASSUME PortInv, NEW n \in Nodes, AtoiFails(n) PROVE PortInv'
<1>1. TypeOK'  BY DEF PortInv, TypeOK, AtoiFails, Goto, mu
<1>2. StartsAreReaders'  BY DEF PortInv, TypeOK, StartsAreReaders, AtoiFails, Goto, mu
<1>3. KeptForTheStart'  BY DEF PortInv, TypeOK, KeptForTheStart, AtoiFails, Goto, mu
<1>4. Closed'  BY DEF PortInv, TypeOK, Closed, AtoiFails, Goto, mu
<1>5. /\ orphans' = orphans \cup open[n]
      /\ pre' = pre /\ \A m \in Nodes : open'[m] = IF m = n THEN {} ELSE open[m]
  BY DEF PortInv, TypeOK, AtoiFails, orphans
<1>6. \A m \in Nodes : Held(m)' \subseteq Held(m)  BY <1>5 DEF Held
<1>7. Apart'
  <2>1. \A a, b \in Nodes : a # b => Held(a)' \cap Held(b)' = {}
    BY <1>6 DEF PortInv, Apart
  <2>2. \A a \in Nodes : open'[a] \cap pre'[a] = {}
    BY <1>5 DEF PortInv, Apart
  <2>3. \A a \in Nodes : Held(a)' \cap orphans' = {}
    <3>1. \A a \in Nodes : Held(a)' \cap orphans = {}  BY <1>6 DEF PortInv, Apart
    <3>2. Held(n)' = pre[n]  BY <1>5 DEF Held
    <3>3. Held(n)' \cap open[n] = {}  BY <3>2 DEF PortInv, Apart
    <3>4. open[n] \subseteq Held(n)  BY DEF Held
    <3>5. \A a \in Nodes : a # n => Held(a)' \cap open[n] = {}  BY <1>6, <3>4 DEF PortInv, Apart
    <3> QED  BY <1>5, <3>1, <3>3, <3>5
  <2> QED  BY <2>1, <2>2, <2>3 DEF Apart
<1>8. Listened' \subseteq Listened
  BY <1>5, <1>6 DEF Listened, Held
<1>9. PortsKept'
  <2>1. freed' = freed /\ \A m \in Nodes : pc'[m] = "start" => pc[m] = "start"
    BY DEF PortInv, TypeOK, AtoiFails, Goto
  <2> QED  BY <1>8, <2>1 DEF PortInv, PortsKept
<1> QED  BY <1>1, <1>2, <1>3, <1>4, <1>7, <1>9 DEF PortInv

LEMMA ContainerCreateKeeps == ASSUME PortInv, NEW n \in Nodes, ContainerCreate(n) PROVE PortInv'
<1>1. TypeOK'  BY DEF PortInv, TypeOK, ContainerCreate, Goto, mu
<1>2. StartsAreReaders'  BY DEF PortInv, TypeOK, StartsAreReaders, ContainerCreate, Goto, mu
<1>3. KeptForTheStart'  BY DEF PortInv, TypeOK, KeptForTheStart, ContainerCreate, Goto, mu
<1>4. Closed'  BY DEF PortInv, TypeOK, Closed, ContainerCreate, Goto, mu
<1>5. orphans' = orphans /\ open' = open /\ \A m \in Nodes : pre'[m] \subseteq pre[m]
  BY DEF PortInv, TypeOK, ContainerCreate, orphans
<1>6. \A m \in Nodes : Held(m)' \subseteq Held(m)  BY <1>5 DEF Held
<1>7. Apart'  BY <1>5, <1>6 DEF PortInv, Apart
<1>8. Listened' \subseteq Listened  BY <1>5, <1>6 DEF Listened, Held
<1>9. PortsKept'
  <2>1. freed' = freed /\ \A m \in Nodes : pc'[m] = "start" => pc[m] = "start"
    BY DEF PortInv, TypeOK, ContainerCreate, Goto
  <2> QED  BY <1>8, <2>1 DEF PortInv, PortsKept
<1> QED  BY <1>1, <1>2, <1>3, <1>4, <1>7, <1>9 DEF PortInv

\* A start closes its own listeners: its ports are then nobody's.
LEMMA StartKeeps == ASSUME PortInv, NEW n \in Nodes, StartContainer(n) PROVE PortInv'
<1>1. CASE writer # None
  <2>1. TypeOK'  BY <1>1 DEF PortInv, TypeOK, StartContainer, Goto
  <2>2. KeptForTheStart'  BY <1>1 DEF PortInv, TypeOK, KeptForTheStart, StartContainer, Goto
  <2>3. Closed'  BY <1>1 DEF PortInv, TypeOK, Closed, StartContainer, Goto
  <2>4. /\ readers' = readers /\ freed' = freed /\ open' = open /\ pre' = pre /\ orphans' = orphans
        /\ \A k \in Nodes : pc'[k] \in {"start", "check"} <=> pc[k] \in {"start", "check"}
        /\ \A k \in Nodes : pc'[k] = "start" => pc[k] = "start"
    BY <1>1 DEF PortInv, TypeOK, StartContainer, Goto, orphans
  <2> QED  BY <2>1, <2>2, <2>3, <2>4, QuietStep
<1>2. CASE writer = None
  <2>1. TypeOK'  BY <1>2 DEF PortInv, TypeOK, StartContainer, Goto
  <2>2. StartsAreReaders'  BY <1>2 DEF PortInv, TypeOK, StartsAreReaders, StartContainer, Goto
  <2>3. KeptForTheStart'  BY <1>2 DEF PortInv, TypeOK, KeptForTheStart, StartContainer, Goto
  <2>4. Closed'  BY <1>2 DEF PortInv, TypeOK, Closed, StartContainer, Goto
  <2>5. /\ orphans' = orphans /\ open' = open /\ pc[n] = "idle"
        /\ \A m \in Nodes : pre'[m] = IF m = n THEN {} ELSE pre[m]
        /\ \A m \in Nodes : freed'[m] = IF m = n THEN pre[n] ELSE freed[m]
        /\ \A m \in Nodes : pc'[m] = IF m = n THEN "start" ELSE pc[m]
    BY <1>2 DEF PortInv, TypeOK, StartContainer, Goto, orphans
  <2>6. \A m \in Nodes : Held(m)' \subseteq Held(m)  BY <2>5 DEF Held
  <2>7. Apart'  BY <2>5, <2>6 DEF PortInv, Apart
  <2>8. Listened' \subseteq Listened  BY <2>5, <2>6 DEF Listened, Held
  <2>9. pre[n] \cap Listened' = {}
    <3> SUFFICES ASSUME NEW p \in pre[n], p \in Listened' PROVE FALSE  OBVIOUS
    <3>1. p \in Held(n)  BY DEF Held
    <3>2. p \notin orphans'  BY <2>5, <3>1 DEF PortInv, Apart
    <3>3. PICK q \in Nodes : p \in Held(q)'  BY <3>2 DEF Listened, Held
    <3>4. CASE q = n  BY <3>3, <3>4, <2>5 DEF Held, PortInv, KeptForTheStart
    <3>5. CASE q # n  BY <3>1, <3>3, <3>5, <2>6 DEF PortInv, Apart
    <3> QED  BY <3>4, <3>5
  <2>10. PortsKept'  BY <2>5, <2>8, <2>9 DEF PortInv, PortsKept
  <2> QED  BY <2>1, <2>2, <2>3, <2>4, <2>7, <2>10 DEF PortInv
<1> QED  BY <1>1, <1>2

\* The end of a start gives the read lock back and opens nothing.
LEMMA EndStartKeeps ==
  ASSUME PortInv, NEW n \in Nodes, ContainerStart(n) \/ CheckForFailedStart(n) PROVE PortInv'
<1>1. TypeOK'
  BY DEF PortInv, TypeOK, ContainerStart, CheckForFailedStart, Goto, RUnlock
<1>2. StartsAreReaders'
  BY DEF PortInv, TypeOK, StartsAreReaders, ContainerStart, CheckForFailedStart, Goto, RUnlock
<1>3. KeptForTheStart'
  BY DEF PortInv, TypeOK, KeptForTheStart, Closed, ContainerStart, CheckForFailedStart, Goto, RUnlock
<1>4. Closed'
  BY DEF PortInv, TypeOK, Closed, ContainerStart, CheckForFailedStart, Goto, RUnlock
<1>5. /\ open' = open /\ pre' = pre /\ orphans' = orphans
      /\ \A m \in Nodes : freed'[m] \subseteq freed[m] /\ (pc'[m] = "start" => pc[m] = "start")
  BY DEF PortInv, TypeOK, ContainerStart, CheckForFailedStart, Goto, RUnlock, orphans
<1>6. Apart'  BY <1>5 DEF PortInv, Apart, Held
<1>7. Listened' = Listened  BY <1>5 DEF Listened
<1>8. PortsKept'  BY <1>5, <1>7 DEF PortInv, PortsKept
<1> QED  BY <1>1, <1>2, <1>3, <1>4, <1>6, <1>8 DEF PortInv

\* The garbage collector and other processes take listeners away, never add one.
LEMMA EnvironmentKeeps == ASSUME PortInv, Finalize \/ OtherProcess PROVE PortInv'
<1>1. TypeOK'  BY DEF PortInv, TypeOK, Finalize, OtherProcess, mu
<1>2. /\ pc' = pc /\ open' = open /\ pre' = pre /\ ctr' = ctr /\ freed' = freed /\ readers' = readers
      /\ orphans' \subseteq orphans
  BY DEF Finalize, OtherProcess, mu, orphans
<1>3. StartsAreReaders' /\ KeptForTheStart' /\ Closed'
  BY <1>2 DEF PortInv, StartsAreReaders, KeptForTheStart, Closed
<1>4. Apart'  BY <1>2 DEF PortInv, Apart, Held
<1>5. Listened' \subseteq Listened  BY <1>2 DEF Listened
<1>6. PortsKept'  BY <1>2, <1>5 DEF PortInv, PortsKept
<1> QED  BY <1>1, <1>3, <1>4, <1>6 DEF PortInv

\* Every step preserves the invariant.
LEMMA NextPortInv == PortInv /\ [Next]_vars => PortInv'
<1> SUFFICES ASSUME PortInv, [Next]_vars PROVE PortInv'  OBVIOUS
<1>1. CASE UNCHANGED vars
  <2>1. Listened' = Listened /\ orphans' = orphans  BY <1>1 DEF vars, Listened, orphans
  <2> QED  BY <1>1, <2>1 DEF vars, PortInv, TypeOK, StartsAreReaders, KeptForTheStart, Apart, Held, Closed, PortsKept
<1>2. CASE \E n \in Nodes : Call(n)
  BY <1>2, LockKeeps, OpenKeeps, AtoiFailsKeeps, KeepListenersKeeps, ContainerCreateKeeps, EndStartKeeps DEF Call
<1>3. CASE \E n \in Nodes : PauseContainer(n) \/ UnpauseContainer(n) \/ StopContainer(n) \/ RemoveContainer(n)
  <2> PICK n \in Nodes : PauseContainer(n) \/ UnpauseContainer(n) \/ StopContainer(n) \/ RemoveContainer(n)
    BY <1>3
  <2>1. CASE PauseContainer(n)  BY <2>1, BecomesKeeps DEF PauseContainer
  <2>2. CASE UnpauseContainer(n)  BY <2>2, BecomesKeeps DEF UnpauseContainer
  <2>3. CASE StopContainer(n)  BY <2>3, BecomesKeeps DEF StopContainer
  <2>4. CASE RemoveContainer(n)  BY <2>4, BecomesKeeps DEF RemoveContainer
  <2> QED  BY <2>1, <2>2, <2>3, <2>4
<1>4. CASE \E n \in Nodes : CreateContainer(n) \/ StartContainer(n) \/ Crash(n)
  BY <1>4, CreateKeeps, StartKeeps, CrashKeeps
<1>5. CASE Finalize \/ OtherProcess  BY <1>5, EnvironmentKeeps
<1>6. CASE TestOver  BY <1>6, <1>1 DEF TestOver
<1> QED  BY <1>1, <1>2, <1>3, <1>4, <1>5, <1>6 DEF Next

\* "lock port allocation for the time between freeing the ports from the temporary
\* listeners to the consumption of the ports by the container": for every number of
\* nodes and ports, no OpenListener gets a port StartContainer has just freed.
THEOREM PortsAreKept == Spec => []PortsKept
<1>1. PortInv => PortsKept  BY DEF PortInv
<1> QED  BY InitPortInv, NextPortInv, <1>1, PTL DEF Spec

\* A lifecycle has listeners, or looks for them, only when its CreateContainer was
\* called; it has some when the next one generates bindings only in a second call.
Counted == \A n \in Nodes :
  /\ creates[n] \in Nat
  /\ pre[n] # {} \/ pc[n] \in {"bind", "lock", "create"} => creates[n] > 0
  /\ pre[n] # {} /\ pc[n] \in {"bind", "lock"} => creates[n] > 1
  /\ open[n] # {} => pc[n] \in {"bind", "lock"}
  /\ \A k \in todo[n] : \E ports \in Ports[n] : k \in ports

LostSo == \A n \in Nodes : lost[n] # {} => Misread(n) \/ creates[n] > 1
Domains == DOMAIN creates = Nodes /\ DOMAIN todo = Nodes
LostInv == TypeOK /\ Domains /\ Counted /\ LostSo

LEMMA InitLostInv == Init => LostInv
  BY NamesAssumption DEF Init, LostInv, Domains, TypeOK, Counted, LostSo

\* Every step keeps the account of the listeners that are left open.
LEMMA NextLostInv == PortInv' /\ LostInv /\ [Next]_vars => LostInv'
<1> SUFFICES ASSUME LostInv, [Next]_vars, TypeOK' PROVE Domains' /\ Counted' /\ LostSo'
  BY DEF LostInv, PortInv
<1>0. TypeOK /\ Domains /\ Counted /\ LostSo  BY DEF LostInv
<1>1. CASE UNCHANGED vars  BY <1>0, <1>1 DEF vars, Domains, Counted, LostSo, Misread
<1>2. ASSUME NEW n \in Nodes, CreateContainer(n) PROVE Domains' /\ Counted' /\ LostSo'
  <2>1. /\ pc[n] = "idle" /\ open' = open /\ pre' = pre /\ lost' = lost
        /\ creates'[n] = creates[n] + 1 /\ \A m \in Nodes \ {n} : creates'[m] = creates[m]
        /\ Domains'
        /\ \A m \in Nodes : \A k \in todo'[m] : k \in todo[m] \/ \E ports \in Ports[m] : k \in ports
        /\ pc'[n] \in {"idle", "bind"} /\ \A m \in Nodes \ {n} : pc'[m] = pc[m]
    BY <1>0, <1>2 DEF CreateContainer, Goto, TypeOK, Domains
  <2>2. Counted'  BY <1>0, <2>1 DEF Counted
  <2>3. LostSo'
    <3> SUFFICES ASSUME NEW m \in Nodes, lost'[m] # {} PROVE Misread(m) \/ creates'[m] > 1
      BY DEF LostSo, Misread
    <3>1. Misread(m) \/ creates[m] > 1  BY <1>0, <2>1 DEF LostSo
    <3> QED  BY <1>0, <2>1, <3>1 DEF Counted
  <2> QED  BY <2>1, <2>2, <2>3
<1>3. ASSUME NEW n \in Nodes, OpenListener(n) PROVE Domains' /\ Counted' /\ LostSo'
  <2>1. /\ pc[n] = "lock" /\ lost' = lost /\ creates' = creates
        /\ \A m \in Nodes \ {n} : open'[m] = open[m]
        /\ pc'[n] = "bind" \/ (pc'[n] = "idle" /\ open'[n] = {})
        /\ \A m \in Nodes \ {n} : pc'[m] = pc[m] \/ (pc[m] = "rlock" /\ pc'[m] = "start")
        /\ \A m \in Nodes : pre'[m] \subseteq pre[m] /\ todo'[m] \subseteq todo[m]
        /\ Domains'
    BY <1>0, <1>3 DEF OpenListener, Admit, Waiting, TypeOK, Domains
  <2>2. Counted'  BY <1>0, <2>1 DEF Counted
  <2>3. LostSo'  BY <1>0, <2>1 DEF LostSo, Misread
  <2> QED  BY <1>0, <2>1, <2>2, <2>3
<1>4. ASSUME NEW n \in Nodes, KeepListeners(n) \/ AtoiFails(n)
      PROVE  Domains' /\ Counted' /\ LostSo'
  <2>1. /\ pc[n] = "bind" /\ creates' = creates
        /\ \A m \in Nodes \ {n} : open'[m] = open[m] /\ pre'[m] = pre[m] /\ lost'[m] = lost[m] /\ pc'[m] = pc[m]
        /\ Domains' /\ open'[n] = {} /\ \A m \in Nodes : todo'[m] \subseteq todo[m]
        /\ \/ pc'[n] = "create" /\ lost'[n] = lost[n] \cup pre[n]
           \/ pc'[n] = "idle" /\ Misread(n) /\ pre'[n] = pre[n]
    <3>1. CASE KeepListeners(n)  BY <1>0, <3>1 DEF KeepListeners, Goto, TypeOK, Domains
    <3>2. CASE AtoiFails(n)
      <4>1. todo[n] # {} /\ \E k \in todo[n] : k.override = NotANumber  BY <3>2 DEF AtoiFails
      <4> QED  BY <1>0, <3>2, <4>1 DEF AtoiFails, Goto, TypeOK, Domains, Misread, Counted
    <3> QED  BY <1>4, <3>1, <3>2
  <2>2. Counted'  BY <1>0, <2>1 DEF Counted
  <2>3. LostSo'
    <3> SUFFICES ASSUME NEW m \in Nodes, lost'[m] # {} PROVE Misread(m) \/ creates'[m] > 1
      BY DEF LostSo, Misread
    <3>1. CASE m # n  BY <1>0, <2>1, <3>1 DEF LostSo
    <3>2. CASE m = n  BY <1>0, <2>1, <3>2 DEF LostSo, Counted
    <3> QED  BY <3>1, <3>2
  <2> QED  BY <1>0, <2>1, <2>2, <2>3
<1>5. ASSUME UNCHANGED <<todo, open, creates>>,
             \A m \in Nodes : /\ lost'[m] \subseteq lost[m] /\ pre'[m] \subseteq pre[m]
                              /\ pc'[m] \in {"bind", "lock"} <=> pc[m] \in {"bind", "lock"}
                              /\ pc'[m] = "create" => pc[m] = "create"
      PROVE  Domains' /\ Counted' /\ LostSo'
  <2>1. Domains' /\ Counted'  BY <1>0, <1>5 DEF Counted, Domains
  <2>2. LostSo'  BY <1>0, <1>5 DEF LostSo, Misread
  <2> QED  BY <1>0, <1>5, <2>1, <2>2
<1>6. ASSUME NEW n \in Nodes, Lock(n) \/ ContainerCreate(n) \/ ContainerStart(n) \/ CheckForFailedStart(n)
      PROVE  Domains' /\ Counted' /\ LostSo'
  <2>1. CASE Lock(n)  BY <1>0, <1>5, <2>1 DEF Lock, Goto, TypeOK, Domains
  <2>2. CASE ContainerCreate(n)  BY <1>0, <1>5, <2>2 DEF ContainerCreate, Goto, TypeOK, Domains, mu
  <2>3. CASE ContainerStart(n)  BY <1>0, <1>5, <2>3 DEF ContainerStart, Goto, TypeOK, Domains
  <2>4. CASE CheckForFailedStart(n)  BY <1>0, <1>5, <2>4 DEF CheckForFailedStart, Goto, TypeOK, Domains
  <2> QED  BY <1>6, <2>1, <2>2, <2>3, <2>4
<1>7. ASSUME NEW n \in Nodes, StartContainer(n) PROVE Domains' /\ Counted' /\ LostSo'
  BY <1>0, <1>5, <1>7 DEF StartContainer, Goto, TypeOK, Domains
<1>8. ASSUME NEW n \in Nodes,
             PauseContainer(n) \/ UnpauseContainer(n) \/ StopContainer(n) \/ RemoveContainer(n) \/ Crash(n)
      PROVE  Domains' /\ Counted' /\ LostSo'
  BY <1>0, <1>5, <1>8 DEF PauseContainer, UnpauseContainer, StopContainer, RemoveContainer, Becomes, Crash
<1>9. CASE Finalize \/ OtherProcess
  <2>1. CASE Finalize  BY <1>0, <1>5, <2>1 DEF Finalize, TypeOK, Domains
  <2>2. CASE OtherProcess  BY <1>0, <1>5, <2>2 DEF OtherProcess, TypeOK, Domains
  <2> QED  BY <1>9, <2>1, <2>2
<1>10. CASE TestOver  BY <1>1, <1>10 DEF TestOver
<1> QED
  BY <1>1, <1>2, <1>3, <1>4, <1>6, <1>7, <1>8, <1>9, <1>10 DEF Next, Call

\* The error paths of CreateContainer and StartContainer close the listeners they
\* opened, but where an override is not a number or a container that was never
\* started is created again.
THEOREM ListenersAreClosed == Spec => []NoListenerLeft
<1>1. PortInv /\ LostInv => NoListenerLeft  BY DEF PortInv, LostInv, LostSo, NoListenerLeft
<1> QED  BY InitPortInv, NextPortInv, InitLostInv, NextLostInv, <1>1, PTL DEF Spec

----------------------------------------------------------------------------
(* Waiting and polling *)

\* What the goroutines have read lies between the height the chain had when the call
\* began and the height it has now; a goroutine that returned has seen enough.
ReadOK(c) ==
  /\ base[c] <= height[c]
  /\ kind = "blocks" =>
       /\ starting[c] # 0 => base[c] <= starting[c] /\ current[c] <= height[c]
       /\ done[c] = "ok" => Passed(c) >= Delta
  /\ kind = "sync" =>
       /\ current[c] <= height[c]
       /\ done[c] = "ok" => base[c] <= current[c]

\* What is looked for is not among the heights a poll has left behind.
Missed == IF kind = "event" THEN at \notin from..(cursor - 1) ELSE at > cursor - 1

SeekOK ==
  kind \in {"event", "state"} =>
    /\ from <= to /\ from <= cursor
    /\ polling => cursor <= to /\ cursor <= height[Head]
    /\ ~failed /\ result # "ok" /\ cursor > from => Missed
    /\ ~failed /\ result = "error" => cursor > to

WaitInv ==
  /\ WaitTypeOK
  /\ \A c \in Chains : ReadOK(c)
  /\ SeekOK
  /\ BlocksPassed
  /\ InSync

\* The invariant holds when a call begins.
LEMMA InitWait == WaitInit => WaitInv
<1> SUFFICES ASSUME WaitInit PROVE WaitInv
  OBVIOUS
<1> USE BoundsAssumption, ChainsAssumption DEF WaitInit, Heights
<1>1. WaitTypeOK
  <2>1. starting \in [Chains -> Heights] /\ current \in [Chains -> Heights]
    BY DEF Zero
  <2>2. done \in [Chains -> {"run", "ok", "error"}]
    BY DEF Run
  <2>3. ctxDone \in BOOLEAN /\ failed \in BOOLEAN /\ polling \in BOOLEAN
    OBVIOUS
  <2>4. from \in Heights /\ to \in Heights /\ cursor \in 0..(MaxHeight + 1)
    OBVIOUS
  <2> QED
    BY <2>1, <2>2, <2>3, <2>4 DEF WaitTypeOK
<1>2. ASSUME NEW c \in Chains PROVE ReadOK(c)
  <2>1. height[c] \in Nat /\ base[c] = height[c]
    OBVIOUS
  <2>2. starting[c] = 0 /\ current[c] = 0 /\ done[c] = "run"
    BY DEF Zero, Run
  <2> QED
    BY <2>1, <2>2 DEF ReadOK
<1>3. SeekOK
  BY DEF SeekOK, Missed
<1>4. BlocksPassed /\ InSync
  BY DEF BlocksPassed, InSync
<1> QED
  BY <1>1, <1>2, <1>3, <1>4 DEF WaitInv

\* The steps of a poll leave the groups alone and pass no height unseen.
LEMMA PollSteps ==
  ASSUME WaitInv, CurrentHeight \/ PollFunc \/ WaitForCondition \/ Condition
  PROVE  WaitInv'
<1> USE BoundsAssumption, ChainsAssumption DEF WaitInv
<1> USE DEF call, poll, group
<1>1. CASE CurrentHeight
  <2>1. WaitTypeOK'
    <3>1. ctxDone' \in BOOLEAN /\ failed' \in BOOLEAN /\ polling' \in BOOLEAN
      BY <1>1 DEF WaitTypeOK, CurrentHeight
    <3> QED
      BY <1>1, <3>1 DEF WaitTypeOK, CurrentHeight, Heights
  <2>2. \A c \in Chains : ReadOK(c)'
    BY <1>1 DEF ReadOK, CurrentHeight, Passed
  <2>3. SeekOK'
    BY <1>1 DEF SeekOK, CurrentHeight, Polls, Missed, WaitTypeOK, Heights
  <2>4. BlocksPassed' /\ InSync'
    BY <1>1 DEF BlocksPassed, InSync, CurrentHeight, Polls
  <2> QED
    BY <2>1, <2>2, <2>3, <2>4
<1>2. CASE PollFunc
  <2>1. WaitTypeOK'
    <3>1. ctxDone' \in BOOLEAN /\ failed' \in BOOLEAN /\ polling' \in BOOLEAN
      BY <1>2 DEF WaitTypeOK, PollFunc
    <3>2. cursor' \in 0..(MaxHeight + 1)
      BY <1>2 DEF WaitTypeOK, PollFunc, Polls, Heights, SeekOK
    <3> QED
      BY <1>2, <3>1, <3>2 DEF WaitTypeOK, PollFunc
  <2>2. \A c \in Chains : ReadOK(c)'
    BY <1>2 DEF ReadOK, PollFunc, Passed
  <2>3. SeekOK'
    BY <1>2 DEF SeekOK, PollFunc, Polls, Missed, Found, EventAt, StateIs, WaitTypeOK, Heights
  <2>4. BlocksPassed' /\ InSync'
    BY <1>2 DEF BlocksPassed, InSync, PollFunc, Polls
  <2> QED
    BY <2>1, <2>2, <2>3, <2>4
<1>3. CASE WaitForCondition
  <2>1. WaitTypeOK'
    BY <1>3 DEF WaitTypeOK, WaitForCondition
  <2>2. \A c \in Chains : ReadOK(c)'
    BY <1>3 DEF ReadOK, WaitForCondition, Passed
  <2>3. SeekOK' /\ BlocksPassed' /\ InSync'
    BY <1>3 DEF SeekOK, BlocksPassed, InSync, WaitForCondition
  <2> QED
    BY <2>1, <2>2, <2>3
<1>4. CASE Condition
  <2>1. WaitTypeOK'
    BY <1>4 DEF WaitTypeOK, Condition
  <2>2. \A c \in Chains : ReadOK(c)'
    BY <1>4 DEF ReadOK, Condition, Passed
  <2>3. SeekOK' /\ BlocksPassed' /\ InSync'
    BY <1>4 DEF SeekOK, BlocksPassed, InSync, Condition
  <2> QED
    BY <2>1, <2>2, <2>3
<1> QED
  BY <1>1, <1>2, <1>3, <1>4

\* The steps of the errgroups of WaitForBlocks and NodesInSync.
LEMMA GroupSteps ==
  ASSUME WaitInv, WaitForBlocks \/ WaitForInSync \/ \E c \in Chains : Goroutine(c)
  PROVE  WaitInv'
<1> USE BoundsAssumption, ChainsAssumption DEF WaitInv
<1> USE DEF call, poll, group
<1>1. CASE WaitForBlocks
  <2>1. WaitTypeOK'
    BY <1>1 DEF WaitTypeOK, WaitForBlocks
  <2>2. \A c \in Chains : ReadOK(c)'
    BY <1>1 DEF ReadOK, WaitForBlocks, Passed
  <2>3. BlocksPassed'
    BY <1>1 DEF BlocksPassed, WaitForBlocks, ReadOK, Passed, WaitTypeOK, Heights
  <2>4. SeekOK' /\ InSync'
    BY <1>1 DEF SeekOK, InSync, WaitForBlocks
  <2> QED
    BY <2>1, <2>2, <2>3, <2>4
<1>2. CASE WaitForInSync
  <2>1. WaitTypeOK'
    BY <1>2 DEF WaitTypeOK, WaitForInSync, Run, Zero, Heights
  <2>2. \A c \in Chains : ReadOK(c)'
    BY <1>2 DEF ReadOK, WaitForInSync, WaitTypeOK, Run, Zero, Heights
  <2>3. InSync'
    BY <1>2 DEF InSync, WaitForInSync, NodesInSync, ReadOK, WaitTypeOK, Heights
  <2>4. SeekOK' /\ BlocksPassed'
    BY <1>2 DEF SeekOK, BlocksPassed, WaitForInSync
  <2> QED
    BY <2>1, <2>2, <2>3, <2>4
<1>3. ASSUME NEW c \in Chains, WaitForDelta(c) PROVE WaitInv'
  <2>1. WaitTypeOK'
    BY <1>3 DEF WaitTypeOK, WaitForDelta, update, Heights
  <2>2. ASSUME NEW d \in Chains PROVE ReadOK(d)'
    BY <1>3, <2>2 DEF ReadOK, WaitForDelta, update, Passed, WaitTypeOK, Heights
  <2>3. SeekOK' /\ BlocksPassed' /\ InSync'
    BY <1>3 DEF SeekOK, BlocksPassed, InSync, WaitForDelta
  <2> QED
    BY <2>1, <2>2, <2>3
<1>4. ASSUME NEW c \in Chains, ReadHeight(c) PROVE WaitInv'
  <2>1. WaitTypeOK'
    BY <1>4 DEF WaitTypeOK, ReadHeight, Heights
  <2>2. ASSUME NEW d \in Chains PROVE ReadOK(d)'
    BY <1>4, <2>2 DEF ReadOK, ReadHeight, Passed, WaitTypeOK, Heights
  <2>3. SeekOK' /\ BlocksPassed' /\ InSync'
    BY <1>4 DEF SeekOK, BlocksPassed, InSync, ReadHeight
  <2> QED
    BY <2>1, <2>2, <2>3
<1> QED
  BY <1>1, <1>2, <1>3, <1>4 DEF Goroutine

\* Blocks and the end of the context disturb nothing that has been read.
LEMMA EnvSteps ==
  ASSUME WaitInv, ContextEnds \/ Over \/ (\E c \in Chains : NewBlock(c)) \/ UNCHANGED waitVars
  PROVE  WaitInv'
<1> USE BoundsAssumption, ChainsAssumption DEF WaitInv
<1> USE DEF call, poll, group
<1>1. ASSUME NEW c \in Chains, NewBlock(c) PROVE WaitInv'
  <2>1. WaitTypeOK'
    BY <1>1 DEF WaitTypeOK, NewBlock, Heights
  <2>2. ASSUME NEW d \in Chains PROVE ReadOK(d)'
    BY <1>1, <2>2 DEF ReadOK, NewBlock, Passed, WaitTypeOK, Heights
  <2>3. SeekOK'
    BY <1>1 DEF SeekOK, NewBlock, Missed, WaitTypeOK, Heights
  <2>4. BlocksPassed' /\ InSync'
    BY <1>1 DEF BlocksPassed, InSync, NewBlock
  <2> QED
    BY <2>1, <2>2, <2>3, <2>4
<1>2. CASE ContextEnds
  BY <1>2 DEF ContextEnds, WaitTypeOK, ReadOK, Passed, SeekOK, Missed, BlocksPassed, InSync
<1>3. CASE Over \/ UNCHANGED waitVars
  BY <1>3 DEF Over, waitVars, WaitTypeOK, ReadOK, Passed, SeekOK, Missed, BlocksPassed, InSync
<1> QED
  BY <1>1, <1>2, <1>3

\* The invariant holds for ever.
LEMMA WaitAlways == WaitSpec => []WaitInv
<1>1. WaitInv /\ [WaitNext]_waitVars => WaitInv'
  BY PollSteps, GroupSteps, EnvSteps DEF WaitNext, Caller
<1> QED
  BY InitWait, <1>1, PTL DEF WaitSpec

\* No poll (DoPoll) without failed queries misses what it looks for.
THEOREM PollsFind == WaitSpec => []PollFinds
<1>1. WaitInv => PollFinds
  BY BoundsAssumption DEF WaitInv, PollFinds, SeekOK, Missed, WaitTypeOK, Heights
<1> QED
  BY WaitAlways, <1>1, PTL

\* WaitForBlocks returns only after Delta blocks of every chain.
THEOREM BlocksHavePassed == WaitSpec => []BlocksPassed
<1>1. WaitInv => BlocksPassed
  BY DEF WaitInv
<1> QED
  BY WaitAlways, <1>1, PTL

\* WaitForInSync returns only when every node has the height the chain had.
THEOREM NodesAreInSync == WaitSpec => []InSync
<1>1. WaitInv => InSync
  BY DEF WaitInv
<1> QED
  BY WaitAlways, <1>1, PTL
=============================================================================
