---------------------------- MODULE BuildManager ----------------------------
(***************************************************************************)
(* The orchestrator's build manager (orchestrator/src/build/manager.ts):   *)
(* the builds table, the in-memory queue and maps, one asynchronous        *)
(* launchBuild per slot, and the Docker containers they drive.             *)
(*                                                                         *)
(* Node runs one handler at a time.  A handler that calls processQueue     *)
(* raises `draining`: each turn of its while loop is a step, and no other  *)
(* handler runs before the loop has ended.  A launch whose promise has     *)
(* settled is at "settled" until its .finally callback, a microtask, has   *)
(* run; no handler runs before that either.  Every await is a value of     *)
(* `at`: between the step that reaches it and the step that leaves it,     *)
(* other handlers and the containers do.                                   *)
(***************************************************************************)
EXTENDS Naturals, Sequences, FiniteSets

CONSTANTS Builds,         \* build ids (crypto.randomUUID: never reused)
          Projects,       \* app paths
          Keystores,      \* keystore ids
          None,           \* "no project yet" and "debug signing"
          MaxConcurrent,  \* config.maxConcurrentBuilds
          MaxRestarts,    \* bound on restarts of the orchestrator process
          RemoveMayFail   \* may Docker refuse to remove a container?

ASSUME ConstantsAssumption ==
    /\ IsFiniteSet(Builds)
    /\ None \notin Projects \cup Keystores
    /\ MaxConcurrent \in Nat \ {0}
    /\ MaxRestarts \in Nat
    /\ RemoveMayFail \in BOOLEAN

VARIABLES
    \* the SQLite tables, which survive a restart
    status, appPath, keystoreId, keystoreRow,
    \* the module-level state of manager.ts and runner.ts, which does not
    queue, runningCount, cancelledBuilds, activeContainers, pendingSecrets,
    volumesReady,
    \* launchBuild's closures and the event loop
    at, artifactPath, draining,
    \* the Docker daemon: containers, what they printed, stops under way
    container, printed, stopping,
    \* history: restarts so far
    restarts

tables  == <<status, appPath, keystoreId, keystoreRow>>
memory  == <<queue, runningCount, cancelledBuilds, activeContainers,
             pendingSecrets, volumesReady>>
docker  == <<container, printed, stopping>>
vars    == <<tables, memory, at, artifactPath, draining, docker, restarts>>

Active   == {"queued", "starting", "running"}
Terminal == {"success", "failed", "cancelled"}

\* The awaits of launchBuild, in the order it reaches them.
Attached == {"starting", "openingStats", "waiting"}
InTry    == {"attaching"} \cup Attached
InFlight == {"creating"} \cup InTry \cup {"measuring", "removing", "settled"}

TypeOK ==
    /\ status \in [Builds -> {"none"} \cup Active \cup Terminal]
    /\ appPath \in [Builds -> Projects \cup {None}]
    /\ keystoreId \in [Builds -> Keystores \cup {None}]
    /\ keystoreRow \in [Keystores -> {"fresh", "stored", "deleted"}]
    /\ queue \in Seq(Builds)
    /\ runningCount \in Nat
    /\ cancelledBuilds \in SUBSET Builds
    /\ activeContainers \in SUBSET Builds
    /\ pendingSecrets \in SUBSET Builds
    /\ volumesReady \in {"unset", "ready", "rejected"}
    /\ at \in [Builds -> {"none", "done"} \cup InFlight]
    /\ artifactPath \in SUBSET Builds
    /\ draining \in BOOLEAN
    /\ container \in
         [Builds -> {"none", "created", "running", "exited0", "died", "removed"}]
    /\ printed \in SUBSET Builds
    /\ stopping \in SUBSET Builds
    /\ restarts \in Nat

Init ==
    /\ status = [b \in Builds |-> "none"]
    /\ appPath = [b \in Builds |-> None]
    /\ keystoreId = [b \in Builds |-> None]
    /\ keystoreRow = [k \in Keystores |-> "fresh"]
    /\ queue = <<>>
    /\ runningCount = 0
    /\ cancelledBuilds = {}
    /\ activeContainers = {}
    /\ pendingSecrets = {}
    /\ volumesReady = "unset"
    /\ at = [b \in Builds |-> "none"]
    /\ artifactPath = {}
    /\ draining = FALSE
    /\ container = [b \in Builds |-> "none"]
    /\ printed = {}
    /\ stopping = {}
    /\ restarts = 0

-----------------------------------------------------------------------------
(* The event loop.                                                         *)

Settled == {b \in Builds : at[b] = "settled"}

\* The next macrotask (a request, an answer of Docker, stream data) may run.
Idle == ~draining /\ Settled = {}

Launches == {b \in Builds : at[b] \in InFlight}

-----------------------------------------------------------------------------
(* HTTP handlers.                                                          *)

\* db.activeBuildForAppPath: is there a queued/starting/running row for p?
ActiveBuildForAppPath(p) ==
    \E b \in Builds : appPath[b] = p /\ status[b] \in Active

\* startBuild: k = None stands for a build without a keystore.  A request
\* that fails validation changes nothing.
StartBuild(b, p, k) ==
    /\ Idle
    /\ status[b] = "none"
    /\ k # None => keystoreRow[k] = "stored"
    /\ ~ActiveBuildForAppPath(p)
    /\ status' = [status EXCEPT ![b] = "queued"]
    /\ appPath' = [appPath EXCEPT ![b] = p]
    /\ keystoreId' = [keystoreId EXCEPT ![b] = k]
    /\ pendingSecrets' = pendingSecrets \cup {b}
    /\ queue' = Append(queue, b)
    /\ draining' = TRUE
    /\ UNCHANGED <<keystoreRow, runningCount, cancelledBuilds, activeContainers,
                   volumesReady, at, artifactPath, docker, restarts>>

CancelQueued(b) ==
    /\ status[b] = "queued"
    /\ status' = [status EXCEPT ![b] = "cancelled"]
    /\ UNCHANGED stopping

CancelLaunched(b) ==
    /\ status[b] \in {"starting", "running"}
    /\ stopping' = IF b \in activeContainers THEN stopping \cup {b} ELSE stopping
    /\ UNCHANGED status

\* cancelBuild: a terminal build is refused (409) and nothing changes.
CancelBuild(b) ==
    /\ Idle
    /\ CancelQueued(b) \/ CancelLaunched(b)
    /\ cancelledBuilds' = cancelledBuilds \cup {b}
    /\ UNCHANGED <<appPath, keystoreId, keystoreRow, queue, runningCount,
                   activeContainers, pendingSecrets, volumesReady, at,
                   artifactPath, draining, container, printed, restarts>>

\* POST and DELETE /api/keystores: an upload gets a fresh id.
SetKeystoreRow(k, from, to) ==
    /\ Idle
    /\ keystoreRow[k] = from
    /\ keystoreRow' = [keystoreRow EXCEPT ![k] = to]
    /\ UNCHANGED <<status, appPath, keystoreId, memory, at, artifactPath,
                   draining, docker, restarts>>

UploadKeystore(k) == SetKeystoreRow(k, "fresh", "stored")
DeleteKeystore(k) == SetKeystoreRow(k, "stored", "deleted")

-----------------------------------------------------------------------------
(* processQueue, one turn of its loop per step.                            *)

\* Mutant: an off-by-one in the bound of the loop.
CanShiftOneMore == draining /\ runningCount <= MaxConcurrent /\ queue # <<>>

CanShift == draining /\ runningCount < MaxConcurrent /\ queue # <<>>

ShiftCancelled ==
    /\ CanShift
    /\ Head(queue) \in cancelledBuilds
    /\ queue' = Tail(queue)
    /\ UNCHANGED <<tables, runningCount, cancelledBuilds, activeContainers,
                   pendingSecrets, volumesReady, at, artifactPath, draining,
                   docker, restarts>>

\* The part of launchBuild before its first await.  'starting' is written
\* first, then 'failed' if the keystore is gone: one turn, so one step.
LaunchBuild(b) ==
    LET keystoreGone == keystoreId[b] # None /\ keystoreRow[keystoreId[b]] # "stored"
    IN  /\ pendingSecrets' = pendingSecrets \ {b}
        /\ status' = [status EXCEPT ![b] = IF keystoreGone THEN "failed" ELSE "starting"]
        /\ at' = [at EXCEPT ![b] = IF keystoreGone THEN "settled" ELSE "creating"]

ShiftAndLaunch ==
    /\ CanShift
    /\ Head(queue) \notin cancelledBuilds
    /\ queue' = Tail(queue)
    /\ runningCount' = runningCount + 1
    /\ LaunchBuild(Head(queue))
    /\ UNCHANGED <<appPath, keystoreId, keystoreRow, cancelledBuilds,
                   activeContainers, volumesReady, artifactPath, draining,
                   docker, restarts>>

LoopEnds ==
    /\ draining
    /\ runningCount >= MaxConcurrent \/ queue = <<>>
    /\ draining' = FALSE
    /\ UNCHANGED <<tables, memory, at, artifactPath, docker, restarts>>

\* Mutant: the finally callback frees the slot and does not call processQueue.
SettleOnly(b) ==
    /\ ~draining
    /\ at[b] = "settled"
    /\ at' = [at EXCEPT ![b] = "done"]
    /\ runningCount' = runningCount - 1
    /\ UNCHANGED <<tables, queue, cancelledBuilds, activeContainers, draining,
                   pendingSecrets, volumesReady, artifactPath, docker, restarts>>

\* Mutant: runningCount-- both in launchBuild's return path and in finally.
SettleTwice(b) ==
    /\ ~draining
    /\ at[b] = "settled"
    /\ at' = [at EXCEPT ![b] = "done"]
    /\ runningCount' = runningCount - 2
    /\ draining' = TRUE
    /\ UNCHANGED <<tables, queue, cancelledBuilds, activeContainers,
                   pendingSecrets, volumesReady, artifactPath, docker, restarts>>

\* launchBuild(id).finally(() => { runningCount--; processQueue(); })
Settle(b) ==
    /\ ~draining
    /\ at[b] = "settled"
    /\ at' = [at EXCEPT ![b] = "done"]
    /\ runningCount' = runningCount - 1
    /\ draining' = TRUE
    /\ UNCHANGED <<tables, queue, cancelledBuilds, activeContainers,
                   pendingSecrets, volumesReady, artifactPath, docker, restarts>>

-----------------------------------------------------------------------------
(* launchBuild, from one await to the next.                                *)

\* ensureCacheVolumes keeps the one promise it made, a rejected one too.
VolumesAnswer(answer) ==
    /\ Idle
    /\ volumesReady = "unset"
    /\ \E b \in Builds : at[b] = "creating"
    /\ volumesReady' = answer
    /\ UNCHANGED <<tables, queue, runningCount, cancelledBuilds, activeContainers,
                   pendingSecrets, at, artifactPath, draining, docker, restarts>>

ContainerCreated(b) ==
    /\ Idle
    /\ at[b] = "creating"
    /\ volumesReady = "ready"
    /\ container' = [container EXCEPT ![b] = "created"]
    /\ activeContainers' = activeContainers \cup {b}
    /\ status' = [status EXCEPT ![b] = "running"]
    /\ at' = [at EXCEPT ![b] = "attaching"]
    /\ UNCHANGED <<appPath, keystoreId, keystoreRow, queue, runningCount,
                   cancelledBuilds, pendingSecrets, volumesReady, artifactPath,
                   draining, printed, stopping, restarts>>

\* Mutant: the catch around the create returns without finalizeFailed.
CreateFailsSilently(b) ==
    /\ Idle
    /\ at[b] = "creating"
    /\ volumesReady # "unset"
    /\ at' = [at EXCEPT ![b] = "settled"]
    /\ UNCHANGED <<tables, memory, artifactPath, draining, docker, restarts>>

\* Mutant: a launch that fails to create its container never settles.
CreateFailsForever(b) ==
    /\ Idle
    /\ at[b] = "creating"
    /\ volumesReady # "unset"
    /\ status' = [status EXCEPT ![b] = "failed"]
    /\ at' = [at EXCEPT ![b] = "done"]
    /\ UNCHANGED <<appPath, keystoreId, keystoreRow, memory, artifactPath,
                   draining, docker, restarts>>

\* This catch returns before the try block: no finally, cancelledBuilds stays.
CreateFails(b) ==
    /\ Idle
    /\ at[b] = "creating"
    /\ volumesReady # "unset"
    /\ status' = [status EXCEPT ![b] = "failed"]
    /\ at' = [at EXCEPT ![b] = "settled"]
    /\ UNCHANGED <<appPath, keystoreId, keystoreRow, memory, artifactPath,
                   draining, docker, restarts>>

Proceed(b, from, to) ==
    /\ Idle
    /\ at[b] = from
    /\ at' = [at EXCEPT ![b] = to]
    /\ UNCHANGED <<tables, memory, artifactPath, draining, printed, stopping, restarts>>

OutputAttached(b) == Proceed(b, "attaching", "starting") /\ UNCHANGED container

\* cancelledBuilds is not consulted between the create and this start.
ContainerStarted(b) ==
    /\ Proceed(b, "starting", "openingStats")
    /\ container' = [container EXCEPT ![b] = "running"]

StatsAttached(b) == Proceed(b, "openingStats", "waiting") /\ UNCHANGED container

\* Mutant: the finally block does not await removeContainer.
ConcludeWithoutRemove(b, verdict) ==
    /\ status' = [status EXCEPT ![b] = verdict]
    /\ activeContainers' = activeContainers \ {b}
    /\ cancelledBuilds' = cancelledBuilds \ {b}
    /\ at' = [at EXCEPT ![b] = "settled"]
    /\ UNCHANGED <<appPath, keystoreId, keystoreRow, queue, runningCount,
                   pendingSecrets, volumesReady, artifactPath, draining, docker,
                   restarts>>

\* Mutant: the finally block runs and no verdict was written.
ConcludeWithoutVerdict(b, verdict) ==
    /\ activeContainers' = activeContainers \ {b}
    /\ cancelledBuilds' = cancelledBuilds \ {b}
    /\ at' = [at EXCEPT ![b] = "removing"]
    /\ UNCHANGED <<tables, queue, runningCount, pendingSecrets, volumesReady,
                   artifactPath, draining, docker, restarts>>

\* The row gets its verdict, then the finally block runs up to its await.
Conclude(b, verdict) ==
    /\ status' = [status EXCEPT ![b] = verdict]
    /\ activeContainers' = activeContainers \ {b}
    /\ cancelledBuilds' = cancelledBuilds \ {b}
    /\ at' = [at EXCEPT ![b] = "removing"]
    /\ UNCHANGED <<appPath, keystoreId, keystoreRow, queue, runningCount,
                   pendingSecrets, volumesReady, artifactPath, draining, docker,
                   restarts>>

\* A Docker call awaited in the try block rejects: catch, then finally.
DockerCallFails(b) == Idle /\ at[b] \in InTry /\ Conclude(b, "failed")

Exited(b) == container[b] \in {"exited0", "died"}

WaitAnswersCancelled(b) ==
    /\ Idle
    /\ at[b] = "waiting" /\ Exited(b)
    /\ b \in cancelledBuilds
    /\ Conclude(b, "cancelled")

WaitAnswersFailure(b) ==
    /\ Idle
    /\ at[b] = "waiting" /\ Exited(b)
    /\ b \notin cancelledBuilds
    /\ container[b] = "died" \/ b \notin artifactPath
    /\ Conclude(b, "failed")

\* Mutant: success decided by the artifact line alone, not by the exit status.
WaitAnswersAnyExit(b) ==
    /\ Exited(b) /\ b \in artifactPath
    /\ b \notin cancelledBuilds
    /\ Proceed(b, "waiting", "measuring")
    /\ UNCHANGED container

\* finalizeSuccess awaits extractArtifactMetrics; the row still says running.
WaitAnswersSuccess(b) ==
    /\ container[b] = "exited0" /\ b \in artifactPath
    /\ b \notin cancelledBuilds
    /\ Proceed(b, "waiting", "measuring")
    /\ UNCHANGED container

MetricsAnswer(b, verdict) == Idle /\ at[b] = "measuring" /\ Conclude(b, verdict)

Remove(b) ==
    /\ Idle
    /\ at[b] = "removing"
    /\ at' = [at EXCEPT ![b] = "settled"]
    /\ UNCHANGED <<tables, memory, artifactPath, draining, printed, stopping, restarts>>

ContainerRemoved(b) == Remove(b) /\ container' = [container EXCEPT ![b] = "removed"]

\* removeContainer(container!).catch(() => {})
RemoveFails(b) == RemoveMayFail /\ Remove(b) /\ UNCHANGED container

\* outputStream.on('data') with an @@ARTIFACT: line.  Chunks that come after
\* wait() has answered change nothing launchBuild still reads.
ArtifactLineArrives(b) ==
    /\ Idle
    /\ at[b] \in Attached
    /\ b \in printed \ artifactPath
    /\ artifactPath' = artifactPath \cup {b}
    /\ UNCHANGED <<tables, memory, at, draining, docker, restarts>>

-----------------------------------------------------------------------------
(* The Docker daemon and the containers, concurrent with the event loop.   *)

\* build-entrypoint.sh prints @@ARTIFACT: before it exits 0.
PrintsArtifact(b) ==
    /\ container[b] = "running"
    /\ b \notin printed
    /\ printed' = printed \cup {b}
    /\ UNCHANGED <<tables, memory, at, artifactPath, draining, container,
                   stopping, restarts>>

ContainerBecomes(b, state) ==
    /\ container[b] = "running"
    /\ container' = [container EXCEPT ![b] = state]
    /\ UNCHANGED <<tables, memory, at, artifactPath, draining, printed, restarts>>

ExitsZero(b) == b \in printed /\ ContainerBecomes(b, "exited0") /\ UNCHANGED stopping
Dies(b)      == ContainerBecomes(b, "died") /\ UNCHANGED stopping

\* container.stop reaches the daemon: it kills a running container and is a
\* 304 or 404, which stopContainer swallows, on any other.
StopLands(b) ==
    /\ b \in stopping
    /\ stopping' = stopping \ {b}
    /\ IF container[b] = "running"
         THEN ContainerBecomes(b, "died")
         ELSE UNCHANGED <<tables, memory, at, artifactPath, draining, container,
                          printed, restarts>>

-----------------------------------------------------------------------------
\* The process dies and comes back: server.ts opens the database and serves;
\* nothing reads the rows or the containers of the previous process.
Restart ==
    /\ restarts < MaxRestarts
    /\ restarts' = restarts + 1
    /\ queue' = <<>>
    /\ runningCount' = 0
    /\ cancelledBuilds' = {}
    /\ activeContainers' = {}
    /\ pendingSecrets' = {}
    /\ volumesReady' = "unset"
    /\ at' = [b \in Builds |-> "none"]
    /\ artifactPath' = {}
    /\ draining' = FALSE
    /\ stopping' \in SUBSET stopping
    /\ UNCHANGED <<tables, container, printed>>

\* Nothing is under way: the server waits for a request.
WaitForRequests ==
    /\ Idle /\ queue = <<>> /\ Launches = {} /\ stopping = {}
    /\ UNCHANGED vars

Request ==
    \/ \E b \in Builds, p \in Projects, k \in Keystores \cup {None} : StartBuild(b, p, k)
    \/ \E b \in Builds : CancelBuild(b)
    \/ \E k \in Keystores : UploadKeystore(k) \/ DeleteKeystore(k)

ProcessQueue == ShiftCancelled \/ ShiftAndLaunch \/ LoopEnds

LaunchStep(b) ==
    \/ Settle(b)
    \/ ContainerCreated(b) \/ CreateFails(b)
    \/ OutputAttached(b) \/ ContainerStarted(b) \/ StatsAttached(b)
    \/ DockerCallFails(b)
    \/ WaitAnswersCancelled(b) \/ WaitAnswersFailure(b) \/ WaitAnswersSuccess(b)
    \/ MetricsAnswer(b, "success") \/ MetricsAnswer(b, "failed")
    \/ ContainerRemoved(b) \/ RemoveFails(b)
    \/ ArtifactLineArrives(b)

ContainerStep(b) == PrintsArtifact(b) \/ ExitsZero(b) \/ Dies(b) \/ StopLands(b)

Next ==
    \/ Request
    \/ ProcessQueue
    \/ VolumesAnswer("ready") \/ VolumesAnswer("rejected")
    \/ \E b \in Builds : LaunchStep(b) \/ ContainerStep(b)
    \/ Restart
    \/ WaitForRequests

Spec == Init /\ [][Next]_vars

-----------------------------------------------------------------------------
(* What the manager promises.                                              *)

\* No launch is lost and none frees its slot twice: runningCount is the number
\* of launches that have not settled, at most MAX_CONCURRENT_BUILDS, whatever
\* Docker call fails, whoever cancels and wherever the process was restarted.
SlotsMatchLaunches ==
    /\ runningCount = Cardinality(Launches)
    /\ runningCount <= MaxConcurrent

\* Between two handlers no build waits in the queue while a slot is free:
\* every path that frees a slot or enqueues a build runs processQueue.
NoIdleSlot == Idle /\ runningCount < MaxConcurrent => queue = <<>>

\* At most one queued, starting or running row per project (CHANGELOG v0.6.7):
\* a row that reached a verdict is never reopened behind the admission check.
OneActiveBuildPerProject ==
    \A b, c \in Builds :
        b # c /\ {status[b], status[c]} \subseteq Active => appPath[b] # appPath[c]

\* An active row is one this process works on: it waits in the queue or its
\* launch is in flight, so activeBuildForAppPath refuses a build only while
\* another one is really under way.
ActiveRowIsLive ==
    \A b \in Builds : status[b] \in Active =>
        \/ status[b] = "queued" /\ \E i \in 1..Len(queue) : queue[i] = b
        \/ at[b] \in InFlight

\* ActiveRowIsLive as long as the process has not been restarted.
ActiveRowIsLiveUntilRestart == restarts = 0 => ActiveRowIsLive

\* A launch that gave its slot back left a verdict in the table.
SettledLaunchHasVerdict ==
    \A b \in Builds : at[b] \in {"removing", "settled", "done"} => status[b] \in Terminal

\* If Docker removes what it is told to and the process is not restarted, a
\* container exists only while its launch holds a slot: MAX_CONCURRENT_BUILDS
\* bounds the containers too.
ContainersHoldSlots ==
    restarts = 0 /\ ~RemoveMayFail =>
        \A b \in Builds : container[b] \notin {"none", "removed"} => at[b] \in InFlight

\* success is written only for a container that ran to the end by itself: a
\* stop that landed on the running container excludes it.
SuccessRanToTheEnd ==
    \A b \in Builds : status[b] = "success" => container[b] \in {"exited0", "removed"}

\* Cancelling, failing and finishing never overwrite one another's verdict.
VerdictIsFinal ==
    [][\A b \in Builds : status[b] \in Terminal => status'[b] = status[b]]_vars

-----------------------------------------------------------------------------
(* What the API promises: BuildManager implements BuildBoard.              *)

Board == INSTANCE BuildBoard WITH slots <- Launches

\* Every step of the manager, of Docker and of a restart is a step of the board
\* or leaves it unchanged.
ImplementsBoard == Board!Spec

-----------------------------------------------------------------------------
(* What the code does not do: TLC refutes both.                            *)

\* store/db.ts:240 "used to refuse starting a second concurrent build of the
\* same project": no two containers ever run on one project directory.
OneContainerPerProject ==
    \A b, c \in Builds :
        b # c /\ container[b] = "running" /\ container[c] = "running"
            => appPath[b] # appPath[c]

\* routes/builds.ts:62 answers { cancelled: true }: the container of a build
\* whose cancel was so answered does not run on unless a stop is on its way.
CancelStopsContainer ==
    \A b \in cancelledBuilds : container[b] = "running" => b \in stopping

-----------------------------------------------------------------------------
(* Liveness.                                                               *)

\* Node runs its callbacks, Docker answers every call, and a container ends:
\* each phase of build-entrypoint.sh is bounded by a timeout.
Fairness ==
    /\ WF_vars(ProcessQueue)
    /\ WF_vars(VolumesAnswer("ready") \/ VolumesAnswer("rejected"))
    /\ \A b \in Builds : WF_vars(LaunchStep(b)) /\ WF_vars(ContainerStep(b))

FairSpec == Spec /\ Fairness

\* Every accepted build gets its verdict.
EveryBuildConcludes == \A b \in Builds : status[b] \in Active ~> status[b] \in Terminal

=============================================================================
