------------------------- MODULE ContainerLifecycle -------------------------
(***************************************************************************)
(* dockerutil.ContainerLifecycle (container_lifecycle.go) and the port      *)
(* allocation it relies on (ports.go).  Each node's goroutine creates,      *)
(* starts, stops and removes its container.  CreateContainer finds a host   *)
(* port for every published port by listening on it, and keeps listening;   *)
(* StartContainer closes the listeners just before the daemon binds the     *)
(* ports, holding the package's RWMutex for reading, so that no             *)
(* OpenListener of this process, which takes it for writing, gets one of    *)
(* them in between.                                                         *)
(*                                                                         *)
(* The mutex is Go's: one writer announces itself, new readers then wait,   *)
(* and its Unlock admits every waiting reader.  Other processes of the host *)
(* take and give back ports at any time.  Pulling, names, volumes, networks *)
(* and commands are left out; a docker call may always fail.                *)
(***************************************************************************)
EXTENDS Naturals, FiniteSets

CONSTANTS
  Nodes,
  HostPorts,
  Ports,      \* [Nodes -> the values its calls pass as ports: sets of [port, override]]
  Random,     \* no override: let the kernel choose
  NotANumber, \* an override that strconv.Atoi refuses
  None,
  MaxCreates  \* bound: calls of CreateContainer per node

ASSUME PortsAssumption == \A n \in Nodes : \A ports \in Ports[n] : \A k \in ports :
  k.override \in HostPorts \cup {Random, NotANumber}
ASSUME NamesAssumption == None \notin Nodes /\ {Random, NotANumber} \cap HostPorts = {} /\ Random # NotANumber /\ MaxCreates \in Nat

VARIABLES
  pc,       \* [Nodes -> ...]
  todo,     \* [Nodes -> pairs GeneratePortBindings has left]
  open,     \* [Nodes -> listeners GeneratePortBindings has opened]
  pre,      \* [Nodes -> preStartListeners]
  binds,    \* [Nodes -> host ports in the container's PortBindings]
  freed,    \* [Nodes -> ports whose listeners this StartContainer closed]
  ctr,      \* [Nodes -> state of the container at the daemon]
  lost,     \* [Nodes -> ports of open listeners its lifecycle does not refer to any more]
  other,    \* host ports other processes use
  writer, readers, \* the RWMutex
  creates   \* [Nodes -> Nat]

vars == <<pc, todo, open, pre, binds, freed, ctr, lost, other, writer, readers, creates>>
mu == <<writer, readers>>

Init ==
  /\ pc = [n \in Nodes |-> "idle"] /\ todo = [n \in Nodes |-> {}]
  /\ open = [n \in Nodes |-> {}] /\ pre = [n \in Nodes |-> {}] /\ binds = [n \in Nodes |-> {}]
  /\ freed = [n \in Nodes |-> {}] /\ ctr = [n \in Nodes |-> "none"]
  /\ lost = [n \in Nodes |-> {}] /\ other = {} /\ writer = None /\ readers = {}
  /\ creates = [n \in Nodes |-> 0]

Goto(n, l) == pc' = [pc EXCEPT ![n] = l]
Up(n) == ctr[n] \in {"running", "paused"}
Published == {p \in HostPorts : \E n \in Nodes : Up(n) /\ p \in binds[n]}
orphans == {p \in HostPorts : \E n \in Nodes : p \in lost[n]}
Listened == {p \in HostPorts : p \in orphans \/ \E n \in Nodes : p \in open[n] \cup pre[n]}
Free(p) == p \notin Listened \cup Published \cup other

----------------------------------------------------------------------------
(* CreateContainer *)

\* Up to GeneratePortBindings; a failed pull returns before it.
CreateContainer(n) ==
  /\ pc[n] = "idle" /\ ctr[n] \in {"none", "removed"} /\ creates[n] < MaxCreates
  /\ creates' = [creates EXCEPT ![n] = @ + 1]
  /\ \/ Goto(n, "bind") /\ \E ports \in Ports[n] : todo' = [todo EXCEPT ![n] = ports]
     \/ UNCHANGED <<pc, todo>>
  /\ UNCHANGED <<open, pre, binds, freed, ctr, lost, other, mu>>

\* OpenListener: mu.Lock() begins, in the order the writers reach it.
Lock(n) ==
  /\ pc[n] = "bind" /\ writer = None
  /\ \E k \in todo[n] : k.override # NotANumber
  /\ writer' = n /\ Goto(n, "lock")
  /\ UNCHANGED <<todo, open, pre, binds, freed, ctr, lost, other, readers, creates>>

\* Unlock lets the readers in that came after the writer.
Waiting == {n \in Nodes : pc[n] = "rlock"}
Admit(go) ==
  /\ writer' = None
  /\ readers' = readers \cup Waiting
  /\ freed' = [m \in Nodes |-> IF m \in Waiting THEN pre[m] ELSE freed[m]]
  /\ pre' = [m \in Nodes |-> IF m \in Waiting THEN {} ELSE pre[m]]
  /\ pc' = [m \in Nodes |-> IF m \in Waiting THEN "start" ELSE go[m]]

\* The readers are gone: listen and unlock.  An error closes what was opened.
OpenListener(n) ==
  /\ pc[n] = "lock" /\ readers = {}
  /\ \E k \in {x \in todo[n] : x.override # NotANumber} :
       \/ \E p \in HostPorts :
            /\ Free(p) /\ k.override \in {p, Random}
            /\ open' = [open EXCEPT ![n] = @ \cup {p}]
            /\ todo' = [todo EXCEPT ![n] = @ \ {k}]
            /\ Admit([pc EXCEPT ![n] = "bind"])
       \/ /\ open' = [open EXCEPT ![n] = {}]
          /\ todo' = [todo EXCEPT ![n] = {}]
          /\ Admit([pc EXCEPT ![n] = "idle"])
  /\ UNCHANGED <<binds, ctr, lost, other, creates>>

\* The map's next port has an override that is not a number: GeneratePortBindings
\* returns at once, and the listeners it opened for other ports stay open.
AtoiFails(n) ==
  /\ pc[n] = "bind" /\ \E k \in todo[n] : k.override = NotANumber
  /\ lost' = [lost EXCEPT ![n] = @ \cup open[n]]
  /\ open' = [open EXCEPT ![n] = {}] /\ todo' = [todo EXCEPT ![n] = {}]
  /\ Goto(n, "idle")
  /\ UNCHANGED <<pre, binds, freed, ctr, other, mu, creates>>

\* c.preStartListeners = listeners: the ones it had are forgotten, not closed.
KeepListeners(n) ==
  /\ pc[n] = "bind" /\ todo[n] = {}
  /\ lost' = [lost EXCEPT ![n] = @ \cup pre[n]]
  /\ pre' = [pre EXCEPT ![n] = open[n]] /\ open' = [open EXCEPT ![n] = {}]
  /\ Goto(n, "create")
  /\ UNCHANGED <<todo, binds, freed, ctr, other, mu, creates>>

\* Mutant: an error of the daemon leaves the listeners open.
ContainerCreateLeaves(n) ==
  /\ pc[n] = "create" /\ Goto(n, "idle")
  /\ \/ ctr' = [ctr EXCEPT ![n] = "created"] /\ binds' = [binds EXCEPT ![n] = pre[n]]
     \/ UNCHANGED <<ctr, binds>>
  /\ UNCHANGED <<todo, open, pre, freed, lost, other, mu, creates>>

ContainerCreate(n) ==
  /\ pc[n] = "create" /\ Goto(n, "idle")
  /\ \/ /\ ctr' = [ctr EXCEPT ![n] = "created"] /\ binds' = [binds EXCEPT ![n] = pre[n]]
        /\ UNCHANGED pre
     \/ pre' = [pre EXCEPT ![n] = {}] /\ UNCHANGED <<ctr, binds>>
  /\ UNCHANGED <<todo, open, freed, lost, other, mu, creates>>

----------------------------------------------------------------------------
(* StartContainer *)

\* Mutant: the listeners are closed before the lock is taken.
StartContainerEarly(n) ==
  /\ pc[n] = "idle" /\ ctr[n] \in {"created", "exited"}
  /\ freed' = [freed EXCEPT ![n] = pre[n]] /\ pre' = [pre EXCEPT ![n] = {}]
  /\ IF writer = None
     THEN readers' = readers \cup {n} /\ Goto(n, "start")
     ELSE UNCHANGED readers /\ Goto(n, "start")
  /\ UNCHANGED <<todo, open, binds, ctr, lost, other, writer, creates>>

\* mu.RLock(), then CloseAll; a writer that is there goes first.
StartContainer(n) ==
  /\ pc[n] = "idle" /\ ctr[n] \in {"created", "exited"}
  /\ IF writer = None
     THEN /\ readers' = readers \cup {n}
          /\ freed' = [freed EXCEPT ![n] = pre[n]] /\ pre' = [pre EXCEPT ![n] = {}]
          /\ Goto(n, "start")
     ELSE Goto(n, "rlock") /\ UNCHANGED <<readers, freed, pre>>
  /\ UNCHANGED <<todo, open, binds, ctr, lost, other, writer, creates>>

RUnlock(n) == readers' = readers \ {n} /\ freed' = [freed EXCEPT ![n] = {}]

\* Mutant: the error return is before the deferred RUnlock.
ContainerStartKeepsLock(n) ==
  /\ pc[n] = "start"
  /\ \/ /\ \A p \in binds[n] : Free(p)
        /\ ctr' = [ctr EXCEPT ![n] = "running"] /\ Goto(n, "check") /\ UNCHANGED <<readers, freed>>
     \/ Goto(n, "idle") /\ UNCHANGED <<ctr, readers, freed>>
  /\ UNCHANGED <<todo, open, pre, binds, lost, other, writer, creates>>

\* The daemon binds the ports, or cannot.
ContainerStart(n) ==
  /\ pc[n] = "start"
  /\ \/ /\ \A p \in binds[n] : Free(p)
        /\ ctr' = [ctr EXCEPT ![n] = "running"] /\ Goto(n, "check") /\ UNCHANGED <<readers, freed>>
     \/ Goto(n, "idle") /\ RUnlock(n) /\ UNCHANGED ctr
  /\ UNCHANGED <<todo, open, pre, binds, lost, other, writer, creates>>

\* The logs are read, still under the lock; the outcome is the caller's.
CheckForFailedStart(n) ==
  /\ pc[n] = "check" /\ Goto(n, "idle") /\ RUnlock(n)
  /\ UNCHANGED <<todo, open, pre, binds, ctr, lost, other, writer, creates>>

----------------------------------------------------------------------------
(* The other operations, and the environment *)

Becomes(n, from, to) ==
  /\ pc[n] = "idle" /\ ctr[n] \in from
  /\ ctr' = [ctr EXCEPT ![n] = to]
  /\ UNCHANGED <<pc, todo, open, pre, binds, freed, lost, other, mu, creates>>

PauseContainer(n) == Becomes(n, {"running"}, "paused")
UnpauseContainer(n) == Becomes(n, {"paused"}, "running")
StopContainer(n) == Becomes(n, {"running", "paused"}, "exited")
RemoveContainer(n) == Becomes(n, {"created", "running", "paused", "exited"}, "removed")

\* A process of a container may end by itself.
Crash(n) ==
  /\ ctr[n] = "running" /\ ctr' = [ctr EXCEPT ![n] = "exited"]
  /\ UNCHANGED <<pc, todo, open, pre, binds, freed, lost, other, mu, creates>>

\* The garbage collector closes listeners nothing refers to.
Finalize ==
  /\ orphans # {} /\ lost' = [n \in Nodes |-> {}]
  /\ UNCHANGED <<pc, todo, open, pre, binds, freed, ctr, other, mu, creates>>

OtherProcess ==
  /\ \/ \E p \in HostPorts : Free(p) /\ other' = {p}
     \/ other # {} /\ other' = {}
  /\ UNCHANGED <<pc, todo, open, pre, binds, freed, ctr, lost, mu, creates>>

\* The test is over: nothing is called any more.
TestOver == (\A n \in Nodes : pc[n] = "idle" /\ ctr[n] = "removed") /\ UNCHANGED vars

Call(n) ==
  \/ Lock(n) \/ OpenListener(n) \/ AtoiFails(n) \/ KeepListeners(n) \/ ContainerCreate(n)
  \/ ContainerStart(n) \/ CheckForFailedStart(n)

Next ==
  \/ \E n \in Nodes :
       \/ CreateContainer(n) \/ StartContainer(n) \/ PauseContainer(n) \/ UnpauseContainer(n)
       \/ StopContainer(n) \/ RemoveContainer(n) \/ Crash(n) \/ Call(n)
  \/ Finalize \/ OtherProcess \/ TestOver
Spec == Init /\ [][Next]_vars

\* Goroutines run, docker calls answer (StartContainer sets a deadline), and
\* sync.Mutex, which orders the writers, starves none.
FairSpec == Spec /\ \A n \in Nodes : WF_vars(Call(n)) /\ SF_vars(Lock(n))

----------------------------------------------------------------------------
(* Properties *)

\* Type correctness.
TypeOK ==
  /\ pc \in [Nodes -> {"idle", "bind", "lock", "create", "rlock", "start", "check"}]
  /\ ctr \in [Nodes -> {"none", "created", "running", "paused", "exited", "removed"}]
  /\ \A f \in {open, pre, binds, freed, lost} : f \in [Nodes -> SUBSET HostPorts]
  /\ other \subseteq HostPorts
  /\ writer \in Nodes \cup {None} /\ readers \subseteq Nodes

\* The mutex: its readers are the starts under way, and while one is, no writer
\* is past Lock.
StartsAreReaders == readers = {n \in Nodes : pc[n] \in {"start", "check"}}

\* "lock port allocation for the time between freeing the ports from the temporary
\* listeners to the consumption of the ports by the container" (container_lifecycle.go:132):
\* between the two no listener of this process is on one of those ports.
PortsKept == \A n \in Nodes : pc[n] = "start" => freed[n] \cap Listened = {}

\* The listeners a lifecycle knows of are open while bindings are generated, or
\* until the created container starts (a container removed before it was started
\* keeps its listeners).
KeptForTheStart == \A n \in Nodes :
  /\ open[n] # {} => pc[n] \in {"bind", "lock"}
  /\ pre[n] # {} => pc[n] = "create" \/ ctr[n] \in {"created", "removed"}

\* Some call passes an override that is not a number: ports.go:74-76 returns
\* without CloseAll.
Misread(n) == \E ports \in Ports[n] : \E k \in ports : k.override = NotANumber

\* The error paths of CreateContainer and StartContainer close the listeners, with
\* two exceptions, each of the node concerned only: an override that is not a
\* number, and a container created a second time, whose lifecycle forgets the
\* listeners of a first one that was never started (container_lifecycle.go:78).
NoListenerLeft ==
  /\ KeptForTheStart
  /\ \A n \in Nodes : lost[n] # {} => Misread(n) \/ creates[n] > 1

\* CreateContainer and StartContainer return: readers and writers do not wait for
\* each other forever, whatever fails.
CallsReturn == \A n \in Nodes : pc[n] # "idle" ~> pc[n] = "idle"
=============================================================================
