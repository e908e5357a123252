----------------------------- MODULE DockerTest -----------------------------
(***************************************************************************)
(* One test and the docker resources labelled with its name: DockerSetup    *)
(* and DockerCleanup (dockerutil/setup.go), the one-shot containers of      *)
(* Image.Run (dockerutil/image.go) in which DockerRelayer.Exec runs relayer *)
(* commands, the relayer's own container (relayer/docker.go) and the        *)
(* Reporter every command is reported to.                                   *)
(*                                                                         *)
(* The goroutine of the test starts, stops, pauses and resumes the relayer; *)
(* other goroutines run commands.  Any docker call may fail.  The test      *)
(* process may be killed at any point and run again.  Names, images, logs   *)
(* and wallets are left out.                                                *)
(***************************************************************************)
EXTENDS Naturals, FiniteSets

CONSTANTS
  Threads,     \* goroutines that call Exec
  Subnets,     \* the /16 networks findAvailableSubnet chooses from
  Cap,         \* capacity of the reporter's channel
  None,
  MaxCtrs,     \* bound: containers ever created
  MaxOps,      \* bound: relayer operations of a test run
  MaxExecs,    \* bound: commands of a test run
  MaxKills     \* bound: times the test process is killed

ASSUME CapAssumption == Cap \in Nat \ {0}
ASSUME BoundsAssumption == MaxCtrs \in Nat /\ MaxOps \in Nat /\ MaxExecs \in Nat /\ MaxKills \in Nat
ASSUME NoneAssumption == None \notin Subnets \cup Nat \cup {"job", "relayer"}
ASSUME ThreadsAssumption == IsFiniteSet(Threads)

VARIABLES
  main,     \* where the goroutine of the test is
  keep,     \* KEEP_CONTAINERS is set
  ctxDone,  \* the context of the test has ended
  job,      \* [Threads -> where Exec is]
  jobCtr,   \* [Threads -> container of the job, or None]
  ctr,      \* [1..MaxCtrs -> state of a container with the test's label]
  by,       \* [1..MaxCtrs -> who in this process created it]
  next,     \* the next container
  lifecycle,\* DockerRelayer.containerLifecycle: None, 0 (no ID yet) or a container
  why,      \* what the cleanup is part of: "setup", "test" (its end) or "panic"
  todo,     \* containers the cleanup has left
  swept,    \* no call of the cleanup just made failed
  used,     \* what getUsedSubnets returned
  own,      \* networks with the test's label
  others,   \* subnets of other networks
  ops, kills, execs,
  queued, reported, closed, writer   \* the Reporter

R == INSTANCE Reporter

reporter == <<queued, reported, closed, writer>>
jobs == <<job, jobCtr, execs>>
network == <<used, own, others>>
docker == <<ctr, by, next>>
cleanup == <<why, todo, swept>>
vars == <<main, keep, ctxDone, jobs, docker, lifecycle, cleanup, network, ops, kills, reporter>>

Init ==
  /\ main = "track" /\ why = "setup" /\ keep \in BOOLEAN /\ ctxDone = FALSE
  /\ job = [t \in Threads |-> "idle"] /\ jobCtr = [t \in Threads |-> None]
  /\ execs = 0
  /\ ctr = [c \in 1..MaxCtrs |-> "none"] /\ by = [c \in 1..MaxCtrs |-> None] /\ next = 1 /\ lifecycle = None
  /\ todo = {} /\ swept = FALSE
  /\ used = {} /\ own = {} /\ others = {}
  /\ ops = 0 /\ kills = 0
  /\ R!NewReporter

Exists(c) == ctr[c] # "none"
Containers == {c \in 1..MaxCtrs : Exists(c)}

----------------------------------------------------------------------------
(* DockerCleanup, run by DockerSetup and again when the test has ended.     *)

Then == IF why = "setup" THEN "subnets" ELSE "report"

\* Mutant: All is not set, stopped containers are not listed.
ContainerListRunning ==
  /\ main = "list"
  /\ \/ /\ todo' = {c \in Containers : ctr[c] \in {"running", "paused"}}
        /\ swept' = TRUE /\ main' = "sweep"
     \/ main' = Then /\ swept' = FALSE /\ UNCHANGED todo
  /\ UNCHANGED <<keep, ctxDone, jobs, docker, lifecycle, why, network, ops, kills, reporter>>

ContainerList ==
  /\ main = "list"
  /\ \/ todo' = Containers /\ swept' = TRUE /\ main' = "sweep"
     \/ main' = Then /\ swept' = FALSE /\ UNCHANGED todo
  /\ UNCHANGED <<keep, ctxDone, jobs, docker, lifecycle, why, network, ops, kills, reporter>>

\* Stop, wait and remove one container; what fails is logged.
Sweep(c) ==
  /\ main = "sweep" /\ c \in todo /\ todo' = todo \ {c}
  /\ \/ keep /\ UNCHANGED <<ctr, swept>>
     \/ ~keep /\ ctr' = [ctr EXCEPT ![c] = "none"] /\ UNCHANGED swept
     \/ /\ ~keep /\ swept' = FALSE
        /\ \E s \in {ctr[c], "exited"} : ctr' = [ctr EXCEPT ![c] = s]
  /\ UNCHANGED <<main, keep, ctxDone, jobs, by, next, lifecycle, why, network, ops, kills, reporter>>

SweepDone ==
  /\ main = "sweep" /\ todo = {}
  /\ main' = IF keep THEN Then ELSE "prune"
  /\ UNCHANGED <<keep, ctxDone, jobs, docker, lifecycle, cleanup, network, ops, kills, reporter>>

\* A network with containers is not pruned; the retries end in success or an error.
PruneNetworksWithRetry ==
  /\ main = "prune" /\ main' = Then
  /\ \/ own' = (IF Containers = {} THEN {} ELSE own) /\ UNCHANGED swept
     \/ swept' = FALSE /\ UNCHANGED own
  /\ UNCHANGED <<keep, ctxDone, jobs, docker, lifecycle, why, todo, used, others, ops, kills, reporter>>

----------------------------------------------------------------------------
(* DockerSetup *)

\* The registered cleanup runs, then the process ends.
Panic == main' = "list" /\ why' = "panic"

getUsedSubnets ==
  /\ main = "subnets"
  /\ \/ used' = own \cup others /\ main' = "network" /\ UNCHANGED why
     \/ Panic /\ UNCHANGED used
  /\ UNCHANGED <<keep, ctxDone, jobs, docker, lifecycle, todo, swept, own, others, ops, kills, reporter>>

\* The search begins at a random subnet and takes the first that overlaps no used one.
findAvailableSubnet == Subnets \ used

NetworkCreate ==
  /\ main = "network"
  /\ \/ /\ \E s \in findAvailableSubnet \ (own \cup others) : own' = own \cup {s}
        /\ main' = "body" /\ used' = {} /\ swept' = FALSE /\ UNCHANGED why
     \/ Panic /\ used' = {} /\ UNCHANGED <<own, swept>>
  /\ UNCHANGED <<keep, ctxDone, jobs, docker, lifecycle, todo, others, ops, kills, reporter>>

----------------------------------------------------------------------------
(* DockerRelayer.Exec: Image.Run, then TrackRelayerExec *)

Goto(t, l) == job' = [job EXCEPT ![t] = l]

Exec(t) ==
  /\ main = "body" /\ job[t] = "idle" /\ execs < MaxExecs
  /\ execs' = execs + 1 /\ Goto(t, "create")
  /\ UNCHANGED <<main, jobCtr, keep, ctxDone, docker, lifecycle, cleanup, network, ops, kills, reporter>>

\* EnsurePulled and CreateContainer.
CreateContainer(t) ==
  /\ job[t] = "create"
  /\ \/ /\ next <= MaxCtrs /\ next' = next + 1
        /\ ctr' = [ctr EXCEPT ![next] = "created"] /\ by' = [by EXCEPT ![next] = "job"]
        /\ jobCtr' = [jobCtr EXCEPT ![t] = next]
        /\ Goto(t, "start")
     \/ Goto(t, "report") /\ UNCHANGED <<docker, jobCtr>>
  /\ UNCHANGED <<main, keep, ctxDone, lifecycle, cleanup, network, ops, kills, reporter, execs>>

\* A container that does not start is left behind.
StartContainer(t) ==
  /\ job[t] = "start"
  /\ \/ ctr' = [ctr EXCEPT ![jobCtr[t]] = "running"] /\ Goto(t, "wait")
     \/ Goto(t, "report") /\ UNCHANGED ctr
  /\ UNCHANGED <<main, keep, ctxDone, jobCtr, execs, by, next, lifecycle, cleanup, network, ops, kills, reporter>>

\* Wait: the container has exited and its logs are read.
Waited(t) ==
  /\ job[t] = "wait" /\ ctr[jobCtr[t]] = "exited" /\ Goto(t, "stop")
  /\ UNCHANGED <<main, keep, ctxDone, jobCtr, execs, docker, lifecycle, cleanup, network, ops, kills, reporter>>

\* Mutant: Wait does not watch the context.
WaitCanceledLate(t) ==
  /\ job[t] = "wait" /\ ctxDone /\ ctr[jobCtr[t]] = "exited" /\ Goto(t, "report")
  /\ UNCHANGED <<main, keep, ctxDone, jobCtr, execs, docker, lifecycle, cleanup, network, ops, kills, reporter>>

\* The context ended: the container is left to the cleanup.
WaitCanceled(t) ==
  /\ job[t] = "wait" /\ ctxDone /\ Goto(t, "report")
  /\ UNCHANGED <<main, keep, ctxDone, jobCtr, execs, docker, lifecycle, cleanup, network, ops, kills, reporter>>

\* Waiting failed or the logs could not be read: it is left, too.
WaitFails(t) ==
  /\ job[t] = "wait" /\ Goto(t, "report")
  /\ UNCHANGED <<main, keep, ctxDone, jobCtr, execs, docker, lifecycle, cleanup, network, ops, kills, reporter>>

\* Stop and remove; a failure is logged and the result is the command's.
Stop(t) ==
  /\ job[t] = "stop"
  /\ Goto(t, "report")
  /\ \E c \in {"none", "exited"} : ctr' = [ctr EXCEPT ![jobCtr[t]] = c]
  /\ UNCHANGED <<main, keep, ctxDone, jobCtr, execs, by, next, lifecycle, cleanup, network, ops, kills, reporter>>

TrackRelayerExec(t) ==
  /\ job[t] = "report" /\ R!SendExec /\ Goto(t, "idle") /\ jobCtr' = [jobCtr EXCEPT ![t] = None]
  /\ UNCHANGED <<main, keep, ctxDone, execs, docker, lifecycle, cleanup, network, ops, kills>>

----------------------------------------------------------------------------
(* StartRelayer, StopRelayer, PauseRelayer, ResumeRelayer *)

NewLifecycle == 0

\* "tried to start relayer again without stopping first"
StartRelayer ==
  /\ main = "body" /\ ops < MaxOps /\ ops' = ops + 1
  /\ IF lifecycle # None THEN UNCHANGED <<main, lifecycle>>
     ELSE lifecycle' = NewLifecycle /\ main' = "relayerCreate"
  /\ UNCHANGED <<keep, ctxDone, jobs, docker, cleanup, network, kills, reporter>>

RelayerCreate ==
  /\ main = "relayerCreate"
  /\ \/ /\ next <= MaxCtrs /\ next' = next + 1
        /\ ctr' = [ctr EXCEPT ![next] = "created"] /\ by' = [by EXCEPT ![next] = "relayer"]
        /\ lifecycle' = next
        /\ main' = "relayerStart"
     \/ main' = "body" /\ UNCHANGED <<docker, lifecycle>>
  /\ UNCHANGED <<keep, ctxDone, jobs, cleanup, network, ops, kills, reporter>>

RelayerStart ==
  /\ main = "relayerStart" /\ main' = "body"
  /\ \/ ctr' = [ctr EXCEPT ![lifecycle] = "running"]
     \/ UNCHANGED ctr
  /\ UNCHANGED <<keep, ctxDone, jobs, by, next, lifecycle, cleanup, network, ops, kills, reporter>>

\* Without a container ID, ContainerStop fails.
StopRelayer ==
  /\ main = "body" /\ ops < MaxOps /\ ops' = ops + 1
  /\ \/ /\ lifecycle \in 1..MaxCtrs /\ Exists(lifecycle)
        /\ ctr' = [ctr EXCEPT ![lifecycle] = IF @ = "created" THEN @ ELSE "exited"]
        /\ main' = "relayerLogs"
     \/ UNCHANGED <<main, ctr>>
  /\ UNCHANGED <<keep, ctxDone, jobs, by, next, lifecycle, cleanup, network, kills, reporter>>

\* The logs and the state of the container are fetched and reported.
RelayerLogs ==
  /\ main = "relayerLogs"
  /\ \/ main' = "relayerRemove" /\ R!Send
     \/ main' = "body" /\ UNCHANGED reporter
  /\ UNCHANGED <<keep, ctxDone, jobs, docker, lifecycle, cleanup, network, ops, kills>>

\* Mutant: the lifecycle is dropped before the error is returned.
RelayerRemoveForgets ==
  /\ main = "relayerRemove" /\ main' = "body" /\ lifecycle' = None
  /\ \E s \in {"none", ctr[lifecycle]} : ctr' = [ctr EXCEPT ![lifecycle] = s]
  /\ UNCHANGED <<keep, ctxDone, jobs, by, next, cleanup, network, ops, kills, reporter>>

RelayerRemove ==
  /\ main = "relayerRemove" /\ main' = "body"
  /\ \/ ctr' = [ctr EXCEPT ![lifecycle] = "none"] /\ lifecycle' = None
     \/ UNCHANGED <<ctr, lifecycle>>
  /\ UNCHANGED <<keep, ctxDone, jobs, by, next, cleanup, network, ops, kills, reporter>>

PauseRelayer ==
  /\ main = "body" /\ lifecycle \in 1..MaxCtrs /\ ctr[lifecycle] = "running"
  /\ ctr' = [ctr EXCEPT ![lifecycle] = "paused"]
  /\ UNCHANGED <<main, keep, ctxDone, jobs, by, next, lifecycle, cleanup, network, ops, kills, reporter>>

ResumeRelayer ==
  /\ main = "body" /\ lifecycle \in 1..MaxCtrs /\ ctr[lifecycle] = "paused"
  /\ ctr' = [ctr EXCEPT ![lifecycle] = "running"]
  /\ UNCHANGED <<main, keep, ctxDone, jobs, by, next, lifecycle, cleanup, network, ops, kills, reporter>>

----------------------------------------------------------------------------
(* The begin and the end of the test, and the environment *)

TrackTest ==
  /\ main = "track" /\ R!Send /\ main' = "list"
  /\ UNCHANGED <<keep, ctxDone, jobs, docker, lifecycle, cleanup, network, ops, kills>>

TestReturns ==
  /\ main = "body" /\ \A t \in Threads : job[t] = "idle"
  /\ main' = "list" /\ why' = "test"
  /\ UNCHANGED <<keep, ctxDone, jobs, docker, lifecycle, todo, swept, network, ops, kills, reporter>>

FinishTest ==
  /\ main = "report" /\ R!Send /\ main' = IF why = "panic" THEN "died" ELSE "close"
  /\ UNCHANGED <<keep, ctxDone, jobs, docker, lifecycle, cleanup, network, ops, kills>>

\* Reporter.Close sends FinishSuite, closes the channel and waits for the writer.
FinishSuite ==
  /\ main = "close" /\ R!Send /\ main' = "closeChannel"
  /\ UNCHANGED <<keep, ctxDone, jobs, docker, lifecycle, cleanup, network, ops, kills>>

\* Mutant: Close only sends FinishSuite.
CloseForgets ==
  /\ main = "closeChannel" /\ main' = "flushing"
  /\ UNCHANGED <<keep, ctxDone, jobs, docker, lifecycle, cleanup, network, ops, kills, reporter>>

Close ==
  /\ main = "closeChannel" /\ R!CloseChannel /\ main' = "flushing"
  /\ UNCHANGED <<keep, ctxDone, jobs, docker, lifecycle, cleanup, network, ops, kills>>

\* Mutant: Close does not wait for the writer.
CloseReturnsEarly ==
  /\ main = "flushing" /\ main' = "over"
  /\ UNCHANGED <<keep, ctxDone, jobs, docker, lifecycle, cleanup, network, ops, kills, reporter>>

CloseReturns ==
  /\ main = "flushing" /\ writer = "done" /\ main' = "over"
  /\ UNCHANGED <<keep, ctxDone, jobs, docker, lifecycle, cleanup, network, ops, kills, reporter>>

Write ==
  /\ R!write
  /\ UNCHANGED <<main, keep, ctxDone, jobs, docker, lifecycle, cleanup, network, ops, kills>>

\* A container's process ends.
Exits(c) ==
  /\ ctr[c] = "running" /\ ctr' = [ctr EXCEPT ![c] = "exited"]
  /\ UNCHANGED <<main, keep, ctxDone, jobs, by, next, lifecycle, cleanup, network, ops, kills, reporter>>

ContextEnds ==
  /\ main = "body" /\ ~ctxDone /\ ctxDone' = TRUE
  /\ UNCHANGED <<main, keep, jobs, docker, lifecycle, cleanup, network, ops, kills, reporter>>

\* Another process creates a network between the listing and the creation (bound: once).
OtherNetworks ==
  /\ main = "network" /\ others = {} /\ \E s \in Subnets \ (own \cup others) : others' = others \cup {s}
  /\ UNCHANGED <<main, keep, ctxDone, jobs, docker, lifecycle, cleanup, used, own, ops, kills, reporter>>

\* The test process is killed and started again; what is in docker stays.
Killed ==
  /\ kills < MaxKills /\ main \notin {"over", "died"} /\ kills' = kills + 1
  /\ main' = "track" /\ why' = "setup" /\ by' = [c \in 1..MaxCtrs |-> None]
  /\ ctxDone' = FALSE /\ lifecycle' = None /\ todo' = {} /\ ops' = 0
  /\ job' = [t \in Threads |-> "idle"] /\ jobCtr' = [t \in Threads |-> None]
  /\ execs' = 0
  /\ queued' = 1 /\ reported' = 0 /\ closed' = FALSE /\ writer' = "writing"
  /\ UNCHANGED <<keep, ctr, next, swept, network>>

Over == (main \in {"over", "died"} \/ writer = "panicked") /\ UNCHANGED vars

Job(t) ==
  \/ CreateContainer(t) \/ StartContainer(t) \/ Waited(t) \/ WaitCanceled(t)
  \/ Stop(t) \/ TrackRelayerExec(t)

DockerCleanup == ContainerList \/ (\E c \in 1..MaxCtrs : Sweep(c)) \/ SweepDone \/ PruneNetworksWithRetry

Main ==
  \/ TrackTest \/ DockerCleanup \/ getUsedSubnets \/ NetworkCreate
  \/ RelayerCreate \/ RelayerStart \/ RelayerLogs \/ RelayerRemove
  \/ TestReturns \/ FinishTest \/ FinishSuite \/ Close \/ CloseReturns

Alive ==
  \/ Main \/ Write \/ StartRelayer \/ StopRelayer \/ PauseRelayer \/ ResumeRelayer
  \/ (\E t \in Threads : Exec(t) \/ Job(t) \/ WaitFails(t))
  \/ (\E c \in 1..MaxCtrs : Exits(c)) \/ ContextEnds \/ OtherNetworks \/ Killed

Next == (writer # "panicked" /\ Alive) \/ Over
Spec == Init /\ [][Next]_vars

(***************************************************************************)
(* Fairness: docker calls answer, goroutines run and the test returns once  *)
(* its commands have.  Nothing makes a container's process end.             *)
(***************************************************************************)
Live(A) == writer # "panicked" /\ A
FairSpec == Spec /\ WF_vars(Live(Main)) /\ WF_vars(Live(Write)) /\ \A t \in Threads : WF_vars(Live(Job(t)))

----------------------------------------------------------------------------
(* Properties *)

\* A relayer container that exists is the one StopRelayer and PauseRelayer act on:
\* no failure on the way loses it, and there are never two.
RelayerTracked == \A c \in Containers : by[c] = "relayer" => lifecycle = c

\* A cleanup in which every call succeeded leaves no container and no network with the
\* test's label (its volumes, setup.go:263-301, are not modelled): neither what failed commands and an unstopped relayer left, nor "any leftover
\* resources from a previous test run, e.g. if the test was interrupted" (setup.go:76).
CleanedUp ==
  main \in {"subnets", "network", "report", "close", "closeChannel", "flushing", "over", "died"} /\ swept /\ ~keep
    => Containers = {} /\ own = {}

\* "Close closes the reporter and blocks until its results are flushed to the
\* underlying writer" (reporter.go:61): what was sent is written, and
\* every command that was executed is in it, the failed ones too.
Flushed ==
  main = "over" => queued = 0 /\ reported = execs

\* When the context ends every command returns, whatever its container does.
ExecReturns ==
  \A t \in Threads : (ctxDone /\ job[t] # "idle") ~> (job[t] = "idle" \/ writer = "panicked")

\* A test that has returned ends: cleanup and Close come to an end.
TestEnds ==
  (main = "list" /\ why = "test") ~> (main = "over" \/ why = "setup" \/ writer = "panicked")
=============================================================================
