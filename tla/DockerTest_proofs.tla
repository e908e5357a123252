--------------------------- MODULE DockerTest_proofs ---------------------------
(***************************************************************************)
(* One test and its docker resources, for any goroutines, subnets, capacity *)
(* of the reporter's channel and bounds: what a cleanup leaves behind, which *)
(* container the relayer's operations act on, and what the report contains   *)
(* when Close returns, with any docker call failing and the process killed   *)
(* at any point.                                                            *)
(***************************************************************************)
EXTENDS DockerTest, FiniteSetTheorems, TLAPS

\* Where the test goroutine is while commands may be running.
Body == {"body", "relayerCreate", "relayerStart", "relayerLogs", "relayerRemove"}
\* Where it is after a cleanup, before it makes a network.
Cleaned == {"subnets", "network", "report", "close", "closeChannel", "flushing", "over", "died"}

Busy == {t \in Threads : job[t] # "idle"}

TypesOK ==
  /\ main \in {"track", "list", "sweep", "prune"} \cup Body \cup Cleaned
  /\ job \in [Threads -> {"idle", "create", "start", "wait", "stop", "report"}]
  /\ jobCtr \in [Threads -> {None} \cup 1..MaxCtrs]
  /\ ctr \in [1..MaxCtrs -> {"none", "created", "running", "paused", "exited"}]
  /\ by \in [1..MaxCtrs -> {None, "job", "relayer"}]
  /\ next \in Nat \ {0} /\ lifecycle \in {None, 0} \cup 1..MaxCtrs
  /\ execs \in Nat /\ reported \in Nat /\ queued \in Nat /\ closed \in BOOLEAN

\* A command runs only in the body of the test, in a container of its own.
JobsOK ==
  \A t \in Threads :
    /\ job[t] # "idle" => main \in Body
    /\ job[t] \in {"start", "wait", "stop"} =>
         jobCtr[t] \in 1..MaxCtrs /\ jobCtr[t] < next /\ by[jobCtr[t]] = "job"

\* Between the steps of StartRelayer and StopRelayer the lifecycle is the one
\* they began with.
RelayerOK ==
  /\ RelayerTracked
  /\ main = "relayerCreate" => lifecycle = 0
  /\ main \in {"relayerStart", "relayerLogs", "relayerRemove"} => lifecycle \in 1..MaxCtrs

\* While a cleanup has not failed, what it has not removed is what it has left;
\* it never acts on a container that is gone.
CleanupOK ==
  /\ main = "sweep" => todo \subseteq Containers
  /\ main = "sweep" /\ swept /\ ~keep => Containers \subseteq todo
  /\ main = "prune" /\ swept /\ ~keep => Containers = {}
  /\ CleanedUp

\* A command is reported or still running; the channel is closed last.
ReportOK ==
  /\ reported + Cardinality(Busy) = execs
  /\ closed => main \in {"flushing", "over"}
  /\ writer = "done" => closed /\ queued = 0
  /\ main = "over" => writer = "done"

DockerInv == TypesOK /\ JobsOK /\ RelayerOK /\ CleanupOK /\ ReportOK

USE DEF Body, Cleaned

\* There are finitely many goroutines.
LEMMA BusyFinite == IsFiniteSet(Busy) /\ Cardinality(Busy) \in Nat
BY ThreadsAssumption, FS_Subset, FS_CardinalityType DEF Busy

\* A command goes on to its next step.
LEMMA BusyGoesOn ==
  ASSUME DockerInv, NEW t \in Threads, job[t] # "idle", NEW l, l # "idle", Goto(t, l)
  PROVE  Busy' = Busy
BY DEF DockerInv, TypesOK, Goto, Busy

\* ContainerList, the removals and the pruning: no command runs, then.
LEMMA CleanupSteps ==
  ASSUME DockerInv, writer # "panicked",
         \/ ContainerList
         \/ \E c \in 1..MaxCtrs : Sweep(c)
         \/ SweepDone
         \/ PruneNetworksWithRetry
  PROVE  DockerInv'
<1> USE NoneAssumption, BoundsAssumption
<1>1. CASE ContainerList
  <2>1. TypesOK'
    BY <1>1 DEF DockerInv, TypesOK, ContainerList, Then, jobs, docker, network, reporter
  <2>2. JobsOK'
    BY <1>1 DEF DockerInv, JobsOK, ContainerList, Then, TypesOK, jobs, docker
  <2>3. RelayerOK'
    BY <1>1 DEF DockerInv, RelayerOK, ContainerList, Then, TypesOK, JobsOK, RelayerTracked, Containers,
        Exists, docker, jobs
  <2>4. CleanupOK'
    BY <1>1 DEF DockerInv, CleanupOK, ContainerList, Then, TypesOK, JobsOK, CleanedUp, Containers,
        Exists, docker, network, jobs
  <2>5. ReportOK'
    BY <1>1 DEF DockerInv, ReportOK, ContainerList, Then, TypesOK, JobsOK, Busy, jobs, reporter
  <2> QED  BY <2>1, <2>2, <2>3, <2>4, <2>5 DEF DockerInv
<1>2. CASE \E c \in 1..MaxCtrs : Sweep(c)
  <2> PICK c \in 1..MaxCtrs : Sweep(c)  BY <1>2
  <2> DEFINE after == {"none", "exited", ctr[c]}
  <2>1. /\ main = "sweep" /\ c \in todo /\ todo' = todo \ {c}
        /\ UNCHANGED <<main, keep, jobs, by, next, lifecycle, own, reporter>>
        /\ ctr' = ctr \/ \E s \in after : ctr' = [ctr EXCEPT ![c] = s]
        /\ swept' => swept /\ (keep \/ ctr' = [ctr EXCEPT ![c] = "none"])
    BY DEF Sweep, network
  <2>2. ctr[c] # "none"  BY <2>1 DEF DockerInv, CleanupOK, Containers, Exists
  <2>3. /\ ctr' \in [1..MaxCtrs -> {"none", "created", "running", "paused", "exited"}]
        /\ \A d \in 1..MaxCtrs : d # c => ctr'[d] = ctr[d]
    <3>1. CASE ctr' = ctr  BY <3>1 DEF DockerInv, TypesOK
    <3>2. CASE \E s \in after : ctr' = [ctr EXCEPT ![c] = s]
      <4> PICK s \in after : ctr' = [ctr EXCEPT ![c] = s]  BY <3>2
      <4>1. s \in {"none", "created", "running", "paused", "exited"}  BY DEF DockerInv, TypesOK
      <4> QED  BY <4>1 DEF DockerInv, TypesOK
    <3> QED  BY <2>1, <3>1, <3>2
  <2>4. \A d \in 1..MaxCtrs : ctr'[d] # "none" => ctr[d] # "none"  BY <2>2, <2>3
  <2>5. TypesOK'
    BY <2>1, <2>3, <2>4 DEF DockerInv, TypesOK, jobs, reporter
  <2>6. JobsOK'
    BY DEF DockerInv, JobsOK, Sweep, TypesOK, jobs
  <2>7. RelayerOK'
    BY <2>1, <2>3, <2>4 DEF DockerInv, RelayerOK, RelayerTracked, Containers, Exists
  <2>8. CleanupOK'
    <3>1. todo' \subseteq Containers'  BY <2>1, <2>3, <2>4 DEF DockerInv, CleanupOK, Containers, Exists
    <3>2. swept' /\ ~keep => Containers' \subseteq todo'
      <4> SUFFICES ASSUME swept', ~keep PROVE Containers' \subseteq todo'  OBVIOUS
      <4>1. ctr'[c] = "none"  BY <2>1 DEF DockerInv, TypesOK
      <4> QED  BY <2>1, <2>3, <2>4, <4>1 DEF DockerInv, CleanupOK, Containers, Exists
    <3> QED  BY <2>1, <3>1, <3>2 DEF CleanupOK, CleanedUp
  <2>9. ReportOK'
    BY DEF DockerInv, ReportOK, Sweep, TypesOK, JobsOK, Busy, jobs, reporter
  <2> QED  BY <2>5, <2>6, <2>7, <2>8, <2>9 DEF DockerInv
<1>3. CASE SweepDone
  <2>1. TypesOK'
    BY <1>3 DEF DockerInv, TypesOK, SweepDone, Then, jobs, docker, network, cleanup, reporter
  <2>2. JobsOK'
    BY <1>3 DEF DockerInv, JobsOK, SweepDone, Then, TypesOK, jobs, docker
  <2>3. RelayerOK'
    BY <1>3 DEF DockerInv, RelayerOK, SweepDone, Then, TypesOK, JobsOK, RelayerTracked, Containers,
        Exists, docker, jobs
  <2>4. CleanupOK'
    BY <1>3 DEF DockerInv, CleanupOK, SweepDone, Then, TypesOK, JobsOK, CleanedUp, Containers, Exists,
        docker, cleanup, network, jobs
  <2>5. ReportOK'
    BY <1>3 DEF DockerInv, ReportOK, SweepDone, Then, TypesOK, JobsOK, Busy, jobs, reporter
  <2> QED  BY <2>1, <2>2, <2>3, <2>4, <2>5 DEF DockerInv
<1>4. CASE PruneNetworksWithRetry
  <2>1. TypesOK'
    BY <1>4 DEF DockerInv, TypesOK, PruneNetworksWithRetry, Then, jobs, docker, reporter
  <2>2. JobsOK'
    BY <1>4 DEF DockerInv, JobsOK, PruneNetworksWithRetry, Then, TypesOK, jobs, docker
  <2>3. RelayerOK'
    BY <1>4 DEF DockerInv, RelayerOK, PruneNetworksWithRetry, Then, TypesOK, JobsOK, RelayerTracked,
        Containers, Exists, docker, jobs
  <2>4. CleanupOK'
    BY <1>4 DEF DockerInv, CleanupOK, PruneNetworksWithRetry, Then, TypesOK, JobsOK, CleanedUp,
        Containers, Exists, docker, jobs
  <2>5. ReportOK'
    BY <1>4 DEF DockerInv, ReportOK, PruneNetworksWithRetry, Then, TypesOK, JobsOK, Busy, jobs, reporter
  <2> QED  BY <2>1, <2>2, <2>3, <2>4, <2>5 DEF DockerInv
<1> QED  BY <1>1, <1>2, <1>3, <1>4

\* The begin of the test.
LEMMA SetupSteps ==
  ASSUME DockerInv, writer # "panicked",
         \/ TrackTest
         \/ getUsedSubnets
         \/ NetworkCreate
         \/ OtherNetworks
  PROVE  DockerInv'
<1> USE NoneAssumption, BoundsAssumption
<1>1. CASE TrackTest
  <2>1. TypesOK'
    BY <1>1 DEF DockerInv, TypesOK, TrackTest, R!Send, R!Push, jobs, docker, network, cleanup
  <2>2. JobsOK'
    BY <1>1 DEF DockerInv, JobsOK, TrackTest, TypesOK, jobs, docker
  <2>3. RelayerOK'
    BY <1>1 DEF DockerInv, RelayerOK, TrackTest, TypesOK, JobsOK, RelayerTracked, Containers, Exists,
        docker, jobs
  <2>4. CleanupOK'
    BY <1>1 DEF DockerInv, CleanupOK, TrackTest, TypesOK, JobsOK, CleanedUp, Containers, Exists, docker,
        cleanup, network, jobs
  <2>5. ReportOK'
    BY <1>1 DEF DockerInv, ReportOK, TrackTest, R!Send, R!Push, TypesOK, JobsOK, Busy, jobs
  <2> QED  BY <2>1, <2>2, <2>3, <2>4, <2>5 DEF DockerInv
<1>2. CASE getUsedSubnets
  <2>1. TypesOK'
    BY <1>2 DEF DockerInv, TypesOK, getUsedSubnets, Panic, jobs, docker, reporter
  <2>2. JobsOK'
    BY <1>2 DEF DockerInv, JobsOK, getUsedSubnets, Panic, TypesOK, jobs, docker
  <2>3. RelayerOK'
    BY <1>2 DEF DockerInv, RelayerOK, getUsedSubnets, Panic, TypesOK, JobsOK, RelayerTracked, Containers,
        Exists, docker, jobs
  <2>4. CleanupOK'
    BY <1>2 DEF DockerInv, CleanupOK, getUsedSubnets, Panic, TypesOK, JobsOK, CleanedUp, Containers,
        Exists, docker, jobs
  <2>5. ReportOK'
    BY <1>2 DEF DockerInv, ReportOK, getUsedSubnets, Panic, TypesOK, JobsOK, Busy, jobs, reporter
  <2> QED  BY <2>1, <2>2, <2>3, <2>4, <2>5 DEF DockerInv
<1>3. CASE NetworkCreate
  <2>1. TypesOK'
    BY <1>3 DEF DockerInv, TypesOK, NetworkCreate, Panic, jobs, docker, reporter
  <2>2. JobsOK'
    BY <1>3 DEF DockerInv, JobsOK, NetworkCreate, Panic, TypesOK, jobs, docker
  <2>3. RelayerOK'
    BY <1>3 DEF DockerInv, RelayerOK, NetworkCreate, Panic, TypesOK, JobsOK, RelayerTracked, Containers,
        Exists, docker, jobs
  <2>4. CleanupOK'
    BY <1>3 DEF DockerInv, CleanupOK, NetworkCreate, Panic, TypesOK, JobsOK, CleanedUp, Containers,
        Exists, docker, jobs
  <2>5. ReportOK'
    BY <1>3 DEF DockerInv, ReportOK, NetworkCreate, Panic, TypesOK, JobsOK, Busy, jobs, reporter
  <2> QED  BY <2>1, <2>2, <2>3, <2>4, <2>5 DEF DockerInv
<1>4. CASE OtherNetworks
  <2>1. TypesOK'
    BY <1>4 DEF DockerInv, TypesOK, OtherNetworks, jobs, docker, cleanup, reporter
  <2>2. JobsOK'
    BY <1>4 DEF DockerInv, JobsOK, OtherNetworks, TypesOK, jobs, docker
  <2>3. RelayerOK'
    BY <1>4 DEF DockerInv, RelayerOK, OtherNetworks, TypesOK, JobsOK, RelayerTracked, Containers, Exists,
        docker, jobs
  <2>4. CleanupOK'
    BY <1>4 DEF DockerInv, CleanupOK, OtherNetworks, TypesOK, JobsOK, CleanedUp, Containers, Exists,
        docker, cleanup, jobs
  <2>5. ReportOK'
    BY <1>4 DEF DockerInv, ReportOK, OtherNetworks, TypesOK, JobsOK, Busy, jobs, reporter
  <2> QED  BY <2>1, <2>2, <2>3, <2>4, <2>5 DEF DockerInv
<1> QED  BY <1>1, <1>2, <1>3, <1>4

\* The commands.
LEMMA JobSteps ==
  ASSUME DockerInv, writer # "panicked",
         \/ \E t \in Threads : Exec(t)
         \/ \E t \in Threads : CreateContainer(t)
         \/ \E t \in Threads : StartContainer(t)
         \/ \E t \in Threads : Waited(t)
         \/ \E t \in Threads : WaitCanceled(t)
         \/ \E t \in Threads : WaitFails(t)
         \/ \E t \in Threads : Stop(t)
         \/ \E t \in Threads : TrackRelayerExec(t)
  PROVE  DockerInv'
<1> USE NoneAssumption, BoundsAssumption
<1>1. CASE \E t \in Threads : Exec(t)
  <2> PICK t \in Threads : Exec(t)  BY <1>1
  <2>1. TypesOK'
    BY DEF DockerInv, TypesOK, Exec, Goto, docker, network, cleanup, reporter
  <2>2. JobsOK'
    BY DEF DockerInv, JobsOK, Exec, Goto, TypesOK, docker
  <2>3. RelayerOK'
    BY DEF DockerInv, RelayerOK, Exec, Goto, TypesOK, JobsOK, RelayerTracked, Containers, Exists, docker
  <2>4. CleanupOK'
    BY DEF DockerInv, CleanupOK, Exec, Goto, TypesOK, JobsOK, CleanedUp, Containers, Exists, docker,
        cleanup, network
  <2>5. ReportOK'
    <3>1. /\ job[t] = "idle" /\ job' = [job EXCEPT ![t] = "create"] /\ execs' = execs + 1
          /\ main = "body" /\ main' = main /\ UNCHANGED reporter
      BY DEF Exec, Goto
    <3>2. Busy' = Busy \cup {t} /\ t \notin Busy  BY <3>1 DEF DockerInv, TypesOK, Busy
    <3>3. Cardinality(Busy') = Cardinality(Busy) + 1  BY <3>2, BusyFinite, FS_AddElement
    <3>4. reported \in Nat /\ execs \in Nat /\ reported + Cardinality(Busy) = execs
      BY DEF DockerInv, TypesOK, ReportOK
    <3>5. reported' + Cardinality(Busy') = execs'  BY <3>1, <3>3, <3>4, BusyFinite DEF reporter
    <3> QED  BY <3>1, <3>5 DEF DockerInv, ReportOK, reporter
  <2> QED  BY <2>1, <2>2, <2>3, <2>4, <2>5 DEF DockerInv
<1>2. CASE \E t \in Threads : CreateContainer(t)
  <2> PICK t \in Threads : CreateContainer(t)  BY <1>2
  <2>1. TypesOK'
    <3>1. CASE UNCHANGED <<docker, jobCtr>>
      BY <3>1 DEF DockerInv, TypesOK, CreateContainer, Goto, docker, reporter
    <3>2. CASE ~UNCHANGED <<docker, jobCtr>>
      <4>1. /\ next <= MaxCtrs /\ next' = next + 1 /\ Goto(t, "start")
            /\ ctr' = [ctr EXCEPT ![next] = "created"] /\ by' = [by EXCEPT ![next] = "job"]
            /\ jobCtr' = [jobCtr EXCEPT ![t] = next]
            /\ UNCHANGED <<main, lifecycle, execs, reporter>>
        BY <3>2 DEF CreateContainer
      <4>2. next \in 1..MaxCtrs  BY <4>1 DEF DockerInv, TypesOK
      <4>3. jobCtr' \in [Threads -> {None} \cup 1..MaxCtrs]  BY <4>1, <4>2 DEF DockerInv, TypesOK
      <4>4. next' \in Nat \ {0}  BY <4>1 DEF DockerInv, TypesOK
      <4> QED  BY <4>1, <4>3, <4>4 DEF DockerInv, TypesOK, Goto, reporter
    <3> QED  BY <3>1, <3>2
  <2>2. JobsOK'
    BY DEF DockerInv, JobsOK, CreateContainer, Goto, TypesOK, docker
  <2>3. RelayerOK'
    BY ZenonT(60) DEF DockerInv, RelayerOK, CreateContainer, Goto, TypesOK, JobsOK, RelayerTracked, Containers,
        Exists, docker
  <2>4. CleanupOK'
    BY DEF DockerInv, CleanupOK, CreateContainer, Goto, TypesOK, JobsOK, CleanedUp, Containers, Exists,
        docker, cleanup, network
  <2>5. ReportOK'
    <3>1. job[t] # "idle" /\ main' = main /\ UNCHANGED <<execs, reporter>>
      BY DEF CreateContainer
    <3>2. PICK l \in {"start", "report"} : Goto(t, l)  BY DEF CreateContainer
    <3>3. Busy' = Busy  BY <3>1, <3>2, BusyGoesOn
    <3> QED  BY <3>1, <3>3 DEF DockerInv, ReportOK, reporter
  <2> QED  BY <2>1, <2>2, <2>3, <2>4, <2>5 DEF DockerInv
<1>3. CASE \E t \in Threads : StartContainer(t)
  <2> PICK t \in Threads : StartContainer(t)  BY <1>3
  <2>1. TypesOK'
    BY DEF DockerInv, TypesOK, StartContainer, Goto, network, cleanup, reporter
  <2>2. JobsOK'
    BY DEF DockerInv, JobsOK, StartContainer, Goto, TypesOK
  <2>3. RelayerOK'
    BY DEF DockerInv, RelayerOK, StartContainer, Goto, TypesOK, JobsOK, RelayerTracked, Containers, Exists
  <2>4. CleanupOK'
    BY DEF DockerInv, CleanupOK, StartContainer, Goto, TypesOK, JobsOK, CleanedUp, Containers, Exists,
        cleanup, network
  <2>5. ReportOK'
    <3>1. job[t] # "idle" /\ main' = main /\ UNCHANGED <<execs, reporter>>
      BY DEF StartContainer
    <3>2. PICK l \in {"wait", "report"} : Goto(t, l)  BY DEF StartContainer
    <3>3. Busy' = Busy  BY <3>1, <3>2, BusyGoesOn
    <3> QED  BY <3>1, <3>3 DEF DockerInv, ReportOK, reporter
  <2> QED  BY <2>1, <2>2, <2>3, <2>4, <2>5 DEF DockerInv
<1>4. CASE \E t \in Threads : Waited(t)
  <2> PICK t \in Threads : Waited(t)  BY <1>4
  <2>1. TypesOK'
    BY DEF DockerInv, TypesOK, Waited, Goto, docker, network, cleanup, reporter
  <2>2. JobsOK'
    BY DEF DockerInv, JobsOK, Waited, Goto, TypesOK, docker
  <2>3. RelayerOK'
    BY DEF DockerInv, RelayerOK, Waited, Goto, TypesOK, JobsOK, RelayerTracked, Containers, Exists, docker
  <2>4. CleanupOK'
    BY DEF DockerInv, CleanupOK, Waited, Goto, TypesOK, JobsOK, CleanedUp, Containers, Exists, docker,
        cleanup, network
  <2>5. ReportOK'
    BY DEF DockerInv, ReportOK, Waited, Goto, TypesOK, JobsOK, Busy, reporter
  <2> QED  BY <2>1, <2>2, <2>3, <2>4, <2>5 DEF DockerInv
<1>5. CASE \E t \in Threads : WaitCanceled(t)
  <2> PICK t \in Threads : WaitCanceled(t)  BY <1>5
  <2>1. TypesOK'
    BY DEF DockerInv, TypesOK, WaitCanceled, Goto, docker, network, cleanup, reporter
  <2>2. JobsOK'
    BY DEF DockerInv, JobsOK, WaitCanceled, Goto, TypesOK, docker
  <2>3. RelayerOK'
    BY DEF DockerInv, RelayerOK, WaitCanceled, Goto, TypesOK, JobsOK, RelayerTracked, Containers, Exists,
        docker
  <2>4. CleanupOK'
    BY DEF DockerInv, CleanupOK, WaitCanceled, Goto, TypesOK, JobsOK, CleanedUp, Containers, Exists,
        docker, cleanup, network
  <2>5. ReportOK'
    BY DEF DockerInv, ReportOK, WaitCanceled, Goto, TypesOK, JobsOK, Busy, reporter
  <2> QED  BY <2>1, <2>2, <2>3, <2>4, <2>5 DEF DockerInv
<1>6. CASE \E t \in Threads : WaitFails(t)
  <2> PICK t \in Threads : WaitFails(t)  BY <1>6
  <2>1. TypesOK'
    BY DEF DockerInv, TypesOK, WaitFails, Goto, docker, network, cleanup, reporter
  <2>2. JobsOK'
    BY DEF DockerInv, JobsOK, WaitFails, Goto, TypesOK, docker
  <2>3. RelayerOK'
    BY DEF DockerInv, RelayerOK, WaitFails, Goto, TypesOK, JobsOK, RelayerTracked, Containers, Exists,
        docker
  <2>4. CleanupOK'
    BY DEF DockerInv, CleanupOK, WaitFails, Goto, TypesOK, JobsOK, CleanedUp, Containers, Exists, docker,
        cleanup, network
  <2>5. ReportOK'
    BY DEF DockerInv, ReportOK, WaitFails, Goto, TypesOK, JobsOK, Busy, reporter
  <2> QED  BY <2>1, <2>2, <2>3, <2>4, <2>5 DEF DockerInv
<1>7. CASE \E t \in Threads : Stop(t)
  <2> PICK t \in Threads : Stop(t)  BY <1>7
  <2>1. TypesOK'
    BY DEF DockerInv, TypesOK, Stop, Goto, network, cleanup, reporter
  <2>2. JobsOK'
    BY DEF DockerInv, JobsOK, Stop, Goto, TypesOK
  <2>3. RelayerOK'
    BY DEF DockerInv, RelayerOK, Stop, Goto, TypesOK, JobsOK, RelayerTracked, Containers, Exists
  <2>4. CleanupOK'
    BY DEF DockerInv, CleanupOK, Stop, Goto, TypesOK, JobsOK, CleanedUp, Containers, Exists, cleanup,
        network
  <2>5. ReportOK'
    BY DEF DockerInv, ReportOK, Stop, Goto, TypesOK, JobsOK, Busy, reporter
  <2> QED  BY <2>1, <2>2, <2>3, <2>4, <2>5 DEF DockerInv
<1>8. CASE \E t \in Threads : TrackRelayerExec(t)
  <2> PICK t \in Threads : TrackRelayerExec(t)  BY <1>8
  <2>1. TypesOK'
    BY DEF DockerInv, TypesOK, TrackRelayerExec, Goto, R!SendExec, R!Push, docker, network, cleanup
  <2>2. JobsOK'
    BY DEF DockerInv, JobsOK, TrackRelayerExec, Goto, TypesOK, docker
  <2>3. RelayerOK'
    BY DEF DockerInv, RelayerOK, TrackRelayerExec, Goto, TypesOK, JobsOK, RelayerTracked, Containers,
        Exists, docker
  <2>4. CleanupOK'
    BY DEF DockerInv, CleanupOK, TrackRelayerExec, Goto, TypesOK, JobsOK, CleanedUp, Containers, Exists,
        docker, cleanup, network
  <2>5. ReportOK'
    <3>1. /\ job[t] = "report" /\ job' = [job EXCEPT ![t] = "idle"] /\ reported' = reported + 1
          /\ ~closed /\ main' = main /\ UNCHANGED <<execs, closed, writer>>
      BY DEF TrackRelayerExec, Goto, R!SendExec, R!Push
    <3>2. Busy' = Busy \ {t} /\ t \in Busy  BY <3>1 DEF DockerInv, TypesOK, Busy
    <3>3. Cardinality(Busy') = Cardinality(Busy) - 1  BY <3>2, BusyFinite, FS_RemoveElement
    <3>4. reported \in Nat /\ execs \in Nat /\ reported + Cardinality(Busy) = execs
      BY DEF DockerInv, TypesOK, ReportOK
    <3>5. reported' + Cardinality(Busy') = execs'  BY <3>1, <3>3, <3>4, BusyFinite
    <3> QED  BY <3>1, <3>5 DEF DockerInv, ReportOK
  <2> QED  BY <2>1, <2>2, <2>3, <2>4, <2>5 DEF DockerInv
<1> QED  BY <1>1, <1>2, <1>3, <1>4, <1>5, <1>6, <1>7, <1>8

\* The operations of the relayer.
LEMMA RelayerSteps ==
  ASSUME DockerInv, writer # "panicked",
         \/ StartRelayer
         \/ RelayerCreate
         \/ RelayerStart
         \/ StopRelayer
         \/ RelayerLogs
         \/ RelayerRemove
         \/ PauseRelayer
         \/ ResumeRelayer
  PROVE  DockerInv'
<1> USE NoneAssumption, BoundsAssumption
<1>1. CASE StartRelayer
  <2>1. TypesOK'
    BY <1>1 DEF DockerInv, TypesOK, StartRelayer, NewLifecycle, jobs, docker, network, cleanup, reporter
  <2>2. JobsOK'
    BY <1>1 DEF DockerInv, JobsOK, StartRelayer, NewLifecycle, TypesOK, jobs, docker
  <2>3. RelayerOK'
    BY <1>1 DEF DockerInv, RelayerOK, StartRelayer, NewLifecycle, TypesOK, JobsOK, RelayerTracked,
        Containers, Exists, docker, jobs
  <2>4. CleanupOK'
    BY <1>1 DEF DockerInv, CleanupOK, StartRelayer, NewLifecycle, TypesOK, JobsOK, CleanedUp, Containers,
        Exists, docker, cleanup, network, jobs
  <2>5. ReportOK'
    BY <1>1 DEF DockerInv, ReportOK, StartRelayer, NewLifecycle, TypesOK, JobsOK, Busy, jobs, reporter
  <2> QED  BY <2>1, <2>2, <2>3, <2>4, <2>5 DEF DockerInv
<1>2. CASE RelayerCreate
  <2>1. TypesOK'
    <3>1. CASE UNCHANGED docker
      BY <1>2, <3>1 DEF DockerInv, TypesOK, RelayerCreate, docker, jobs, reporter
    <3>2. CASE ~UNCHANGED docker
      <4>1. /\ next <= MaxCtrs /\ next' = next + 1 /\ lifecycle' = next /\ main' = "relayerStart"
            /\ ctr' = [ctr EXCEPT ![next] = "created"] /\ by' = [by EXCEPT ![next] = "relayer"]
            /\ UNCHANGED <<jobs, reporter>>
        BY <1>2, <3>2 DEF RelayerCreate
      <4>2. lifecycle' \in 1..MaxCtrs /\ next' \in Nat \ {0}  BY <4>1 DEF DockerInv, TypesOK
      <4> QED  BY <4>1, <4>2 DEF DockerInv, TypesOK, jobs, reporter
    <3> QED  BY <3>1, <3>2
  <2>2. JobsOK'
    BY <1>2 DEF DockerInv, JobsOK, RelayerCreate, TypesOK, jobs, docker
  <2>3. RelayerOK'
    BY <1>2 DEF DockerInv, RelayerOK, RelayerCreate, TypesOK, JobsOK, RelayerTracked, Containers, Exists,
        docker, jobs
  <2>4. CleanupOK'
    BY <1>2 DEF DockerInv, CleanupOK, RelayerCreate, TypesOK, JobsOK, CleanedUp, Containers, Exists,
        docker, cleanup, network, jobs
  <2>5. ReportOK'
    BY <1>2 DEF DockerInv, ReportOK, RelayerCreate, TypesOK, JobsOK, Busy, jobs, reporter
  <2> QED  BY <2>1, <2>2, <2>3, <2>4, <2>5 DEF DockerInv
<1>3. CASE RelayerStart
  <2>1. TypesOK'
    BY <1>3 DEF DockerInv, TypesOK, RelayerStart, jobs, network, cleanup, reporter
  <2>2. JobsOK'
    BY <1>3 DEF DockerInv, JobsOK, RelayerStart, TypesOK, jobs
  <2>3. RelayerOK'
    BY <1>3 DEF DockerInv, RelayerOK, RelayerStart, TypesOK, JobsOK, RelayerTracked, Containers, Exists,
        jobs
  <2>4. CleanupOK'
    BY <1>3 DEF DockerInv, CleanupOK, RelayerStart, TypesOK, JobsOK, CleanedUp, Containers, Exists,
        cleanup, network, jobs
  <2>5. ReportOK'
    BY <1>3 DEF DockerInv, ReportOK, RelayerStart, TypesOK, JobsOK, Busy, jobs, reporter
  <2> QED  BY <2>1, <2>2, <2>3, <2>4, <2>5 DEF DockerInv
<1>4. CASE StopRelayer
  <2>1. TypesOK'
    BY <1>4 DEF DockerInv, TypesOK, StopRelayer, jobs, network, cleanup, reporter
  <2>2. JobsOK'
    BY <1>4 DEF DockerInv, JobsOK, StopRelayer, TypesOK, jobs
  <2>3. RelayerOK'
    BY <1>4 DEF DockerInv, RelayerOK, StopRelayer, TypesOK, JobsOK, RelayerTracked, Containers, Exists, jobs
  <2>4. CleanupOK'
    BY <1>4 DEF DockerInv, CleanupOK, StopRelayer, TypesOK, JobsOK, CleanedUp, Containers, Exists,
        cleanup, network, jobs
  <2>5. ReportOK'
    BY <1>4 DEF DockerInv, ReportOK, StopRelayer, TypesOK, JobsOK, Busy, jobs, reporter
  <2> QED  BY <2>1, <2>2, <2>3, <2>4, <2>5 DEF DockerInv
<1>5. CASE RelayerLogs
  <2>1. TypesOK'
    BY <1>5 DEF DockerInv, TypesOK, RelayerLogs, R!Send, R!Push, jobs, docker, network, cleanup, reporter
  <2>2. JobsOK'
    BY <1>5 DEF DockerInv, JobsOK, RelayerLogs, TypesOK, jobs, docker
  <2>3. RelayerOK'
    BY <1>5 DEF DockerInv, RelayerOK, RelayerLogs, TypesOK, JobsOK, RelayerTracked, Containers, Exists,
        docker, jobs
  <2>4. CleanupOK'
    BY <1>5 DEF DockerInv, CleanupOK, RelayerLogs, TypesOK, JobsOK, CleanedUp, Containers, Exists,
        docker, cleanup, network, jobs
  <2>5. ReportOK'
    BY <1>5 DEF DockerInv, ReportOK, RelayerLogs, R!Send, R!Push, TypesOK, JobsOK, Busy, jobs, reporter
  <2> QED  BY <2>1, <2>2, <2>3, <2>4, <2>5 DEF DockerInv
<1>6. CASE RelayerRemove
  <2>1. TypesOK'
    BY <1>6 DEF DockerInv, TypesOK, RelayerRemove, jobs, network, cleanup, reporter
  <2>2. JobsOK'
    BY <1>6 DEF DockerInv, JobsOK, RelayerRemove, TypesOK, jobs
  <2>3. RelayerOK'
    BY <1>6 DEF DockerInv, RelayerOK, RelayerRemove, TypesOK, JobsOK, RelayerTracked, Containers, Exists,
        jobs
  <2>4. CleanupOK'
    BY <1>6 DEF DockerInv, CleanupOK, RelayerRemove, TypesOK, JobsOK, CleanedUp, Containers, Exists,
        cleanup, network, jobs
  <2>5. ReportOK'
    BY <1>6 DEF DockerInv, ReportOK, RelayerRemove, TypesOK, JobsOK, Busy, jobs, reporter
  <2> QED  BY <2>1, <2>2, <2>3, <2>4, <2>5 DEF DockerInv
<1>7. CASE PauseRelayer
  <2>1. TypesOK'
    BY <1>7 DEF DockerInv, TypesOK, PauseRelayer, jobs, network, cleanup, reporter
  <2>2. JobsOK'
    BY <1>7 DEF DockerInv, JobsOK, PauseRelayer, TypesOK, jobs
  <2>3. RelayerOK'
    BY <1>7 DEF DockerInv, RelayerOK, PauseRelayer, TypesOK, JobsOK, RelayerTracked, Containers, Exists,
        jobs
  <2>4. CleanupOK'
    BY <1>7 DEF DockerInv, CleanupOK, PauseRelayer, TypesOK, JobsOK, CleanedUp, Containers, Exists,
        cleanup, network, jobs
  <2>5. ReportOK'
    BY <1>7 DEF DockerInv, ReportOK, PauseRelayer, TypesOK, JobsOK, Busy, jobs, reporter
  <2> QED  BY <2>1, <2>2, <2>3, <2>4, <2>5 DEF DockerInv
<1>8. CASE ResumeRelayer
  <2>1. TypesOK'
    BY <1>8 DEF DockerInv, TypesOK, ResumeRelayer, jobs, network, cleanup, reporter
  <2>2. JobsOK'
    BY <1>8 DEF DockerInv, JobsOK, ResumeRelayer, TypesOK, jobs
  <2>3. RelayerOK'
    BY <1>8 DEF DockerInv, RelayerOK, ResumeRelayer, TypesOK, JobsOK, RelayerTracked, Containers, Exists,
        jobs
  <2>4. CleanupOK'
    BY <1>8 DEF DockerInv, CleanupOK, ResumeRelayer, TypesOK, JobsOK, CleanedUp, Containers, Exists,
        cleanup, network, jobs
  <2>5. ReportOK'
    BY <1>8 DEF DockerInv, ReportOK, ResumeRelayer, TypesOK, JobsOK, Busy, jobs, reporter
  <2> QED  BY <2>1, <2>2, <2>3, <2>4, <2>5 DEF DockerInv
<1> QED  BY <1>1, <1>2, <1>3, <1>4, <1>5, <1>6, <1>7, <1>8

\* The end of the test, the writer of the reporter and the environment.
LEMMA EndSteps ==
  ASSUME DockerInv, writer # "panicked",
         \/ TestReturns
         \/ FinishTest
         \/ FinishSuite
         \/ Close
         \/ CloseReturns
         \/ Write
         \/ \E c \in 1..MaxCtrs : Exits(c)
         \/ ContextEnds
         \/ Killed
  PROVE  DockerInv'
<1> USE NoneAssumption, BoundsAssumption
<1>1. CASE TestReturns
  <2>1. TypesOK'
    BY <1>1 DEF DockerInv, TypesOK, TestReturns, jobs, docker, network, reporter
  <2>2. JobsOK'
    BY <1>1 DEF DockerInv, JobsOK, TestReturns, TypesOK, jobs, docker
  <2>3. RelayerOK'
    BY <1>1 DEF DockerInv, RelayerOK, TestReturns, TypesOK, JobsOK, RelayerTracked, Containers, Exists,
        docker, jobs
  <2>4. CleanupOK'
    BY <1>1 DEF DockerInv, CleanupOK, TestReturns, TypesOK, JobsOK, CleanedUp, Containers, Exists,
        docker, network, jobs
  <2>5. ReportOK'
    BY <1>1 DEF DockerInv, ReportOK, TestReturns, TypesOK, JobsOK, Busy, jobs, reporter
  <2> QED  BY <2>1, <2>2, <2>3, <2>4, <2>5 DEF DockerInv
<1>2. CASE FinishTest
  <2>1. TypesOK'
    BY <1>2 DEF DockerInv, TypesOK, FinishTest, R!Send, R!Push, jobs, docker, network, cleanup
  <2>2. JobsOK'
    BY <1>2 DEF DockerInv, JobsOK, FinishTest, TypesOK, jobs, docker
  <2>3. RelayerOK'
    BY <1>2 DEF DockerInv, RelayerOK, FinishTest, TypesOK, JobsOK, RelayerTracked, Containers, Exists,
        docker, jobs
  <2>4. CleanupOK'
    BY <1>2 DEF DockerInv, CleanupOK, FinishTest, TypesOK, JobsOK, CleanedUp, Containers, Exists, docker,
        cleanup, network, jobs
  <2>5. ReportOK'
    BY <1>2 DEF DockerInv, ReportOK, FinishTest, R!Send, R!Push, TypesOK, JobsOK, Busy, jobs
  <2> QED  BY <2>1, <2>2, <2>3, <2>4, <2>5 DEF DockerInv
<1>3. CASE FinishSuite
  <2>1. TypesOK'
    BY <1>3 DEF DockerInv, TypesOK, FinishSuite, R!Send, R!Push, jobs, docker, network, cleanup
  <2>2. JobsOK'
    BY <1>3 DEF DockerInv, JobsOK, FinishSuite, TypesOK, jobs, docker
  <2>3. RelayerOK'
    BY <1>3 DEF DockerInv, RelayerOK, FinishSuite, TypesOK, JobsOK, RelayerTracked, Containers, Exists,
        docker, jobs
  <2>4. CleanupOK'
    BY <1>3 DEF DockerInv, CleanupOK, FinishSuite, TypesOK, JobsOK, CleanedUp, Containers, Exists,
        docker, cleanup, network, jobs
  <2>5. ReportOK'
    BY <1>3 DEF DockerInv, ReportOK, FinishSuite, R!Send, R!Push, TypesOK, JobsOK, Busy, jobs
  <2> QED  BY <2>1, <2>2, <2>3, <2>4, <2>5 DEF DockerInv
<1>4. CASE Close
  <2>1. TypesOK'
    BY <1>4 DEF DockerInv, TypesOK, Close, R!CloseChannel, jobs, docker, network, cleanup
  <2>2. JobsOK'
    BY <1>4 DEF DockerInv, JobsOK, Close, R!CloseChannel, TypesOK, jobs, docker
  <2>3. RelayerOK'
    BY <1>4 DEF DockerInv, RelayerOK, Close, R!CloseChannel, TypesOK, JobsOK, RelayerTracked, Containers,
        Exists, docker, jobs
  <2>4. CleanupOK'
    BY <1>4 DEF DockerInv, CleanupOK, Close, R!CloseChannel, TypesOK, JobsOK, CleanedUp, Containers,
        Exists, docker, cleanup, network, jobs
  <2>5. ReportOK'
    BY <1>4 DEF DockerInv, ReportOK, Close, R!CloseChannel, TypesOK, JobsOK, Busy, jobs
  <2> QED  BY <2>1, <2>2, <2>3, <2>4, <2>5 DEF DockerInv
<1>5. CASE CloseReturns
  <2>1. TypesOK'
    BY <1>5 DEF DockerInv, TypesOK, CloseReturns, jobs, docker, network, cleanup, reporter
  <2>2. JobsOK'
    BY <1>5 DEF DockerInv, JobsOK, CloseReturns, TypesOK, jobs, docker
  <2>3. RelayerOK'
    BY <1>5 DEF DockerInv, RelayerOK, CloseReturns, TypesOK, JobsOK, RelayerTracked, Containers, Exists,
        docker, jobs
  <2>4. CleanupOK'
    BY <1>5 DEF DockerInv, CleanupOK, CloseReturns, TypesOK, JobsOK, CleanedUp, Containers, Exists,
        docker, cleanup, network, jobs
  <2>5. ReportOK'
    BY <1>5 DEF DockerInv, ReportOK, CloseReturns, TypesOK, JobsOK, Busy, jobs, reporter
  <2> QED  BY <2>1, <2>2, <2>3, <2>4, <2>5 DEF DockerInv
<1>6. CASE Write
  <2>1. TypesOK'
    BY <1>6 DEF DockerInv, TypesOK, Write, R!write, R!Encode, R!EncodeFails, R!WriterDone, jobs, docker,
        network, cleanup
  <2>2. JobsOK'
    BY <1>6 DEF DockerInv, JobsOK, Write, R!write, R!Encode, R!EncodeFails, R!WriterDone, TypesOK, jobs,
        docker
  <2>3. RelayerOK'
    BY <1>6 DEF DockerInv, RelayerOK, Write, R!write, R!Encode, R!EncodeFails, R!WriterDone, TypesOK,
        JobsOK, RelayerTracked, Containers, Exists, docker, jobs
  <2>4. CleanupOK'
    BY <1>6 DEF DockerInv, CleanupOK, Write, R!write, R!Encode, R!EncodeFails, R!WriterDone, TypesOK,
        JobsOK, CleanedUp, Containers, Exists, docker, cleanup, network, jobs
  <2>5. ReportOK'
    BY <1>6 DEF DockerInv, ReportOK, Write, R!write, R!Encode, R!EncodeFails, R!WriterDone, TypesOK,
        JobsOK, Busy, jobs
  <2> QED  BY <2>1, <2>2, <2>3, <2>4, <2>5 DEF DockerInv
<1>7. CASE \E c \in 1..MaxCtrs : Exits(c)
  <2> PICK c \in 1..MaxCtrs : Exits(c)  BY <1>7
  <2>1. TypesOK'
    BY DEF DockerInv, TypesOK, Exits, jobs, network, cleanup, reporter
  <2>2. JobsOK'
    BY DEF DockerInv, JobsOK, Exits, TypesOK, jobs
  <2>3. RelayerOK'
    BY DEF DockerInv, RelayerOK, Exits, TypesOK, JobsOK, RelayerTracked, Containers, Exists, jobs
  <2>4. CleanupOK'
    BY DEF DockerInv, CleanupOK, Exits, TypesOK, JobsOK, CleanedUp, Containers, Exists, cleanup, network,
        jobs
  <2>5. ReportOK'
    BY DEF DockerInv, ReportOK, Exits, TypesOK, JobsOK, Busy, jobs, reporter
  <2> QED  BY <2>1, <2>2, <2>3, <2>4, <2>5 DEF DockerInv
<1>8. CASE ContextEnds
  <2>1. TypesOK'
    BY <1>8 DEF DockerInv, TypesOK, ContextEnds, jobs, docker, network, cleanup, reporter
  <2>2. JobsOK'
    BY <1>8 DEF DockerInv, JobsOK, ContextEnds, TypesOK, jobs, docker
  <2>3. RelayerOK'
    BY <1>8 DEF DockerInv, RelayerOK, ContextEnds, TypesOK, JobsOK, RelayerTracked, Containers, Exists,
        docker, jobs
  <2>4. CleanupOK'
    BY <1>8 DEF DockerInv, CleanupOK, ContextEnds, TypesOK, JobsOK, CleanedUp, Containers, Exists,
        docker, cleanup, network, jobs
  <2>5. ReportOK'
    BY <1>8 DEF DockerInv, ReportOK, ContextEnds, TypesOK, JobsOK, Busy, jobs, reporter
  <2> QED  BY <2>1, <2>2, <2>3, <2>4, <2>5 DEF DockerInv
<1>9. CASE Killed
  <2>1. TypesOK'
    BY <1>9 DEF DockerInv, TypesOK, Killed, network
  <2>2. JobsOK'
    BY <1>9 DEF DockerInv, JobsOK, Killed, TypesOK
  <2>3. RelayerOK'
    BY <1>9 DEF DockerInv, RelayerOK, Killed, TypesOK, JobsOK, RelayerTracked, Containers, Exists
  <2>4. CleanupOK'
    BY <1>9 DEF DockerInv, CleanupOK, Killed, TypesOK, JobsOK, CleanedUp, Containers, Exists, network
  <2>5. ReportOK'
    <3>1. Busy' = {}  BY <1>9 DEF Killed, Busy
    <3>2. Cardinality(Busy') = 0  BY <3>1, FS_EmptySet
    <3> QED  BY <1>9, <3>2 DEF Killed, ReportOK
  <2> QED  BY <2>1, <2>2, <2>3, <2>4, <2>5 DEF DockerInv
<1> QED  BY <1>1, <1>2, <1>3, <1>4, <1>5, <1>6, <1>7, <1>8, <1>9

\* Nothing has been made yet.
LEMMA InitDocker == Init => DockerInv
<1> SUFFICES ASSUME Init PROVE DockerInv
  OBVIOUS
<1>1. TypesOK /\ JobsOK
  <2>1. 1 \in Nat \ {0} /\ 0 \in Nat  OBVIOUS
  <2>2. TypesOK  BY <2>1 DEF Init, TypesOK, R!NewReporter
  <2>3. JobsOK  BY DEF Init, JobsOK
  <2> QED  BY <2>2, <2>3
<1>2. RelayerOK /\ CleanupOK
  BY DEF Init, RelayerOK, RelayerTracked, CleanupOK, CleanedUp, Containers, Exists
<1>3. ReportOK
  <2>1. Busy = {}  BY DEF Init, Busy
  <2>2. Cardinality(Busy) = 0  BY <2>1, FS_EmptySet
  <2> QED  BY <2>2 DEF Init, ReportOK, R!NewReporter
<1> QED  BY <1>1, <1>2, <1>3 DEF DockerInv

\* Every step of the test, of its goroutines and of docker.
LEMMA DockerStep == DockerInv /\ [Next]_vars => DockerInv'
<1> SUFFICES ASSUME DockerInv, [Next]_vars PROVE DockerInv'
  OBVIOUS
<1>1. CASE writer # "panicked" /\ (DockerCleanup \/ TrackTest \/ getUsedSubnets \/ NetworkCreate \/ OtherNetworks)
  BY <1>1, CleanupSteps, SetupSteps DEF DockerCleanup
<1>2. CASE writer # "panicked" /\ \E t \in Threads : Exec(t) \/ Job(t) \/ WaitFails(t)
  BY <1>2, JobSteps DEF Job
<1>3. CASE /\ writer # "panicked"
           /\ \/ StartRelayer \/ RelayerCreate \/ RelayerStart \/ StopRelayer
              \/ RelayerLogs \/ RelayerRemove \/ PauseRelayer \/ ResumeRelayer
  BY <1>3, RelayerSteps
<1>4. CASE /\ writer # "panicked"
           /\ \/ TestReturns \/ FinishTest \/ FinishSuite \/ Close \/ CloseReturns \/ Write
              \/ ContextEnds \/ Killed \/ \E c \in 1..MaxCtrs : Exits(c)
  BY <1>4, EndSteps
<1>5. CASE UNCHANGED vars
  <2>1. TypesOK' /\ JobsOK'
    BY <1>5 DEF DockerInv, TypesOK, JobsOK, vars, jobs, docker, reporter
  <2>2. RelayerOK' /\ CleanupOK'
    BY <1>5 DEF DockerInv, RelayerOK, RelayerTracked, CleanupOK, CleanedUp, Containers, Exists, vars,
        docker, cleanup, network
  <2>3. ReportOK'  BY <1>5 DEF DockerInv, ReportOK, Busy, vars, jobs, reporter
  <2> QED  BY <2>1, <2>2, <2>3 DEF DockerInv
<1> QED  BY <1>1, <1>2, <1>3, <1>4, <1>5 DEF Next, Alive, Main, Over

\* In every state of a test, killed and started again or not.
LEMMA DockerInvHolds == Spec => []DockerInv
<1> QED  BY InitDocker, DockerStep, PTL DEF Spec

\* However StartRelayer and StopRelayer fail half-way: the container the relayer
\* still has is the one its operations act on.
THEOREM RelayerIsTracked == Spec => []RelayerTracked
<1>1. DockerInv => RelayerTracked  BY DEF DockerInv, RelayerOK
<1> QED  BY <1>1, DockerInvHolds, PTL

\* A cleanup without an error leaves no container and no network of the test,
\* whichever process made them.
THEOREM CleansUp == Spec => []CleanedUp
<1>1. DockerInv => CleanedUp  BY DEF DockerInv, CleanupOK
<1> QED  BY <1>1, DockerInvHolds, PTL

\* Once Close has returned everything sent has been written, each executed
\* command among it, for any number of goroutines and any capacity.
THEOREM ReportsAreFlushed == Spec => []Flushed
<1>1. DockerInv => Flushed
  <2> SUFFICES ASSUME DockerInv, main = "over" PROVE queued = 0 /\ reported = execs
    BY DEF Flushed
  <2>1. queued = 0  BY DEF DockerInv, ReportOK
  <2>2. Busy = {}  BY DEF DockerInv, JobsOK, Busy
  <2>3. Cardinality(Busy) = 0  BY <2>2, FS_EmptySet
  <2> QED  BY <2>1, <2>3 DEF DockerInv, ReportOK, TypesOK
<1> QED  BY <1>1, DockerInvHolds, PTL
==============================================================================
