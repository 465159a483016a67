------------------------- MODULE BuildManagerProofs -------------------------
(* Theorems about BuildManager, for any number of builds, projects, keystores *)
(* and slots.                                                                 *)
EXTENDS BuildManager, FiniteSetTheorems, TLAPS

(* No step leaves the types: queue stays a sequence of build ids, and every   *)
(* table column and closure variable keeps its range.  runningCount is left   *)
(* out: that it never falls below 0 needs the slot invariant.                 *)
Types ==
    /\ status \in [Builds -> {"none"} \cup Active \cup Terminal]
    /\ appPath \in [Builds -> Projects \cup {None}]
    /\ keystoreId \in [Builds -> Keystores \cup {None}]
    /\ keystoreRow \in [Keystores -> {"fresh", "stored", "deleted"}]
    /\ queue \in Seq(Builds)
    /\ runningCount \in Int
    /\ cancelledBuilds \in SUBSET Builds
    /\ activeContainers \in SUBSET Builds
    /\ pendingSecrets \in SUBSET Builds
    /\ volumesReady \in {"unset", "ready", "rejected"}
    /\ at \in [Builds -> {"none", "done"} \cup InFlight]
    /\ artifactPath \in SUBSET Builds
    /\ draining \in BOOLEAN
    /\ container \in
         [Builds -> {"none", "created", "running", "exited0", "died", "removed"}]
    /\ printed \in SUBSET Builds
    /\ stopping \in SUBSET Builds
    /\ restarts \in Nat

LEMMA TypesInit == Init => Types
<1> SUFFICES ASSUME Init PROVE Types
  OBVIOUS
<1>1. /\ status \in [Builds -> {"none"} \cup Active \cup Terminal]
      /\ at \in [Builds -> {"none", "done"} \cup InFlight]
      /\ container \in
           [Builds -> {"none", "created", "running", "exited0", "died", "removed"}]
  BY DEF Init
<1>2. /\ appPath \in [Builds -> Projects \cup {None}]
      /\ keystoreId \in [Builds -> Keystores \cup {None}]
      /\ keystoreRow \in [Keystores -> {"fresh", "stored", "deleted"}]
  BY DEF Init
<1>3. queue \in Seq(Builds)
  BY DEF Init
<1>4. /\ cancelledBuilds = {} /\ activeContainers = {} /\ pendingSecrets = {}
      /\ artifactPath = {} /\ printed = {} /\ stopping = {}
      /\ volumesReady = "unset"
      /\ runningCount = 0 /\ restarts = 0
  BY DEF Init
<1>5. draining \in BOOLEAN
  BY DEF Init
<1>6. QED
  BY <1>1, <1>2, <1>3, <1>4, <1>5 DEF Types

LEMMA TypesNext == Types /\ [Next]_vars => Types'
<1> SUFFICES ASSUME Types, [Next]_vars PROVE Types'
  OBVIOUS
<1> USE DEF Types
<1> USE DEF Active, Terminal, InFlight, InTry, Attached, tables, memory, docker
<1>1. ASSUME NEW b \in Builds, NEW p \in Projects, NEW k \in Keystores \cup {None},
             StartBuild(b, p, k)
      PROVE  Types'
  BY <1>1 DEF StartBuild
<1>2. ASSUME NEW b \in Builds, CancelBuild(b) PROVE Types'
  BY <1>2 DEF CancelBuild, CancelQueued, CancelLaunched
<1>3. ASSUME NEW k \in Keystores, UploadKeystore(k) \/ DeleteKeystore(k) PROVE Types'
  BY <1>3 DEF UploadKeystore, DeleteKeystore, SetKeystoreRow
<1>4. ASSUME ProcessQueue PROVE Types'
  <2>1. CASE ShiftCancelled
    BY <2>1 DEF ShiftCancelled, CanShift
  <2>2. CASE ShiftAndLaunch
    <3>1. Head(queue) \in Builds /\ Tail(queue) \in Seq(Builds)
      BY <2>2 DEF ShiftAndLaunch, CanShift
    <3>2. QED
      BY <2>2, <3>1 DEF ShiftAndLaunch, LaunchBuild
  <2>3. CASE LoopEnds
    BY <2>3 DEF LoopEnds
  <2>4. QED
    BY <1>4, <2>1, <2>2, <2>3 DEF ProcessQueue
<1>5. ASSUME NEW answer \in {"ready", "rejected"}, VolumesAnswer(answer) PROVE Types'
  BY <1>5 DEF VolumesAnswer
<1>6. ASSUME NEW b \in Builds, LaunchStep(b) PROVE Types'
  <2>1. CASE Settle(b)
    BY <2>1 DEF Settle
  <2>2. CASE ContainerCreated(b)
    BY <2>2 DEF ContainerCreated
  <2>3. CASE CreateFails(b)
    BY <2>3 DEF CreateFails
  <2>4. CASE OutputAttached(b) \/ ContainerStarted(b) \/ StatsAttached(b)
             \/ WaitAnswersSuccess(b)
    BY <2>4 DEF OutputAttached, ContainerStarted, StatsAttached, WaitAnswersSuccess, Proceed
  <2>5. CASE DockerCallFails(b) \/ WaitAnswersCancelled(b) \/ WaitAnswersFailure(b)
             \/ MetricsAnswer(b, "success") \/ MetricsAnswer(b, "failed")
    BY <2>5 DEF DockerCallFails, WaitAnswersCancelled, WaitAnswersFailure,
                MetricsAnswer, Conclude
  <2>6. CASE ContainerRemoved(b) \/ RemoveFails(b)
    BY <2>6 DEF ContainerRemoved, RemoveFails, Remove
  <2>7. CASE ArtifactLineArrives(b)
    BY <2>7 DEF ArtifactLineArrives
  <2>8. QED
    BY <1>6, <2>1, <2>2, <2>3, <2>4, <2>5, <2>6, <2>7 DEF LaunchStep
<1>7. ASSUME NEW b \in Builds, ContainerStep(b) PROVE Types'
  BY <1>7 DEF ContainerStep, PrintsArtifact, ExitsZero, Dies, StopLands, ContainerBecomes
<1>8. ASSUME Restart PROVE Types'
  <2>1. queue' \in Seq(Builds)
    BY <1>8 DEF Restart
  <2>2. at' \in [Builds -> {"none", "done"} \cup InFlight]
    BY <1>8 DEF Restart
  <2>3. /\ {cancelledBuilds', activeContainers', pendingSecrets', artifactPath',
            stopping'} \subseteq SUBSET Builds
        /\ volumesReady' = "unset" /\ draining' = FALSE
        /\ runningCount' \in Int /\ restarts' \in Nat
    BY <1>8 DEF Restart
  <2>4. UNCHANGED <<tables, container, printed>>
    BY <1>8 DEF Restart
  <2>5. QED
    BY <2>1, <2>2, <2>3, <2>4
<1>9. CASE UNCHANGED vars
  BY <1>9 DEF vars
<1>10. CASE Request
  BY <1>1, <1>2, <1>3, <1>10 DEF Request
<1>11. QED
  BY <1>4, <1>5, <1>6, <1>7, <1>8, <1>9, <1>10 DEF Next, WaitForRequests

-----------------------------------------------------------------------------
(* The inductive invariant.                                                *)

\* What waits in the queue: builds not launched yet, each once, "queued" or,
\* if cancelBuild came first, "cancelled" and known to processQueue as such.
QueueInv ==
    /\ \A i \in 1..Len(queue) :
        /\ at[queue[i]] = "none"
        /\ status[queue[i]] = IF queue[i] \in cancelledBuilds THEN "cancelled" ELSE "queued"
    /\ \A i, j \in 1..Len(queue) : i # j => queue[i] # queue[j]
    /\ \A b \in cancelledBuilds : status[b] \notin {"none", "queued"}

\* The row of a launch agrees with how far the launch has come.
RowInv ==
    \A b \in Builds :
        /\ at[b] = "creating" => status[b] = "starting"
        /\ at[b] \in InTry \cup {"measuring"} => status[b] = "running"
        /\ at[b] \in {"removing", "settled", "done"} => status[b] \in Terminal

\* A build that was not launched or is being created has no container yet,
\* and a launch that measures the artifact, or succeeded, saw it exit with 0.
ContainerInv ==
    \A b \in Builds :
        /\ status[b] \in {"none", "queued"} \/ at[b] = "creating" => container[b] = "none"
        /\ at[b] = "measuring" => container[b] = "exited0"
        /\ status[b] = "success" => container[b] \in {"exited0", "removed"}

\* ContainersHoldSlots, and a settled launch has already removed its container.
HolderInv ==
    restarts = 0 /\ ~RemoveMayFail =>
        \A b \in Builds : container[b] \notin {"none", "removed"} =>
            at[b] \in InTry \cup {"measuring", "removing"}

\* NoIdleSlot also while a finally callback is pending.
IdleInv == ~draining /\ runningCount < MaxConcurrent => queue = <<>>

IInv ==
    /\ Types
    /\ SlotsMatchLaunches
    /\ QueueInv
    /\ RowInv
    /\ ContainerInv
    /\ HolderInv
    /\ IdleInv
    /\ OneActiveBuildPerProject
    /\ ActiveRowIsLiveUntilRestart

-----------------------------------------------------------------------------
(* Slots: a launch enters Launches when processQueue counts it, leaves it  *)
(* when its finally callback uncounts it, and moves inside it otherwise.   *)

LEMMA LaunchesFinite == IsFiniteSet(Launches) /\ Cardinality(Launches) \in Nat
BY ConstantsAssumption, FS_Subset, FS_CardinalityType DEF Launches

LEMMA SlotsKept ==
  ASSUME SlotsMatchLaunches, Launches' = Launches, runningCount' = runningCount
  PROVE  SlotsMatchLaunches'
BY DEF SlotsMatchLaunches

LEMMA SlotsNext ==
  ASSUME Types, QueueInv, SlotsMatchLaunches, [Next]_vars
  PROVE  SlotsMatchLaunches'
<1> USE DEF memory
<1>1. ASSUME NEW b \in Builds, NEW p \in Projects, NEW k \in Keystores \cup {None},
             StartBuild(b, p, k)
      PROVE  SlotsMatchLaunches'
  BY <1>1, SlotsKept DEF StartBuild, Launches
<1>2. ASSUME NEW b \in Builds, CancelBuild(b) PROVE SlotsMatchLaunches'
  BY <1>2, SlotsKept DEF CancelBuild, Launches
<1>3. ASSUME NEW k \in Keystores, UploadKeystore(k) \/ DeleteKeystore(k)
      PROVE  SlotsMatchLaunches'
  BY <1>3, SlotsKept DEF UploadKeystore, DeleteKeystore, SetKeystoreRow, Launches
<1>4. CASE ShiftCancelled \/ LoopEnds
  BY <1>4, SlotsKept DEF ShiftCancelled, LoopEnds, Launches
<1>5. CASE ShiftAndLaunch
  <2> DEFINE b == Head(queue)
  <2>1. b \in Builds /\ at[b] = "none" /\ runningCount < MaxConcurrent
    BY <1>5 DEF ShiftAndLaunch, CanShift, Types, QueueInv
  <2>2. at' = [at EXCEPT ![b] = at'[b]] /\ at'[b] \in {"creating", "settled"}
    BY <1>5, <2>1 DEF ShiftAndLaunch, LaunchBuild, Types
  <2>3. Launches' = Launches \cup {b} /\ b \notin Launches
    BY <2>1, <2>2 DEF Launches, InFlight, InTry, Attached, Types
  <2>4. Cardinality(Launches') = Cardinality(Launches) + 1
    BY <2>3, LaunchesFinite, FS_AddElement
  <2>5. QED
    BY <1>5, <2>1, <2>4, LaunchesFinite, ConstantsAssumption
       DEF ShiftAndLaunch, SlotsMatchLaunches
<1>6. ASSUME NEW answer \in {"ready", "rejected"}, VolumesAnswer(answer)
      PROVE  SlotsMatchLaunches'
  BY <1>6, SlotsKept DEF VolumesAnswer, Launches
<1>7. ASSUME NEW b \in Builds, Settle(b) PROVE SlotsMatchLaunches'
  <2>1. Launches' = Launches \ {b} /\ b \in Launches
    BY <1>7 DEF Settle, Launches, InFlight, InTry, Attached, Types
  <2>2. Cardinality(Launches') = Cardinality(Launches) - 1
    BY <2>1, LaunchesFinite, FS_RemoveElement
  <2>3. QED
    BY <1>7, <2>2, LaunchesFinite, ConstantsAssumption DEF Settle, SlotsMatchLaunches
<1>8. ASSUME NEW b \in Builds, at[b] \in InFlight, NEW to \in InFlight,
             at' = [at EXCEPT ![b] = to], runningCount' = runningCount
      PROVE  SlotsMatchLaunches'
  <2>1. Launches' = Launches
    BY <1>8 DEF Launches, Types
  <2>2. QED
    BY <1>8, <2>1, SlotsKept
<1>9. ASSUME NEW b \in Builds, LaunchStep(b), ~Settle(b) PROVE SlotsMatchLaunches'
  <2> USE DEF InFlight, InTry, Attached
  <2>1. CASE ContainerCreated(b)
    BY <1>8, <2>1 DEF ContainerCreated
  <2>2. CASE CreateFails(b)
    BY <1>8, <2>2 DEF CreateFails
  <2>3. CASE OutputAttached(b) \/ ContainerStarted(b) \/ StatsAttached(b)
             \/ WaitAnswersSuccess(b)
    BY <1>8, <2>3
       DEF OutputAttached, ContainerStarted, StatsAttached, WaitAnswersSuccess, Proceed
  <2>4. CASE DockerCallFails(b) \/ WaitAnswersCancelled(b) \/ WaitAnswersFailure(b)
             \/ MetricsAnswer(b, "success") \/ MetricsAnswer(b, "failed")
    BY <1>8, <2>4 DEF DockerCallFails, WaitAnswersCancelled, WaitAnswersFailure,
                      MetricsAnswer, Conclude
  <2>5. CASE ContainerRemoved(b) \/ RemoveFails(b)
    BY <1>8, <2>5 DEF ContainerRemoved, RemoveFails, Remove
  <2>6. CASE ArtifactLineArrives(b)
    BY <2>6, SlotsKept DEF ArtifactLineArrives, Launches
  <2>7. QED
    BY <1>9, <2>1, <2>2, <2>3, <2>4, <2>5, <2>6 DEF LaunchStep
<1>10. ASSUME NEW b \in Builds, ContainerStep(b) PROVE SlotsMatchLaunches'
  BY <1>10, SlotsKept
     DEF ContainerStep, PrintsArtifact, ExitsZero, Dies, StopLands, ContainerBecomes, Launches
<1>11. CASE Restart
  <2>1. Launches' = {}
    BY <1>11 DEF Restart, Launches, InFlight, InTry, Attached
  <2>2. QED
    BY <1>11, <2>1, FS_EmptySet, ConstantsAssumption DEF Restart, SlotsMatchLaunches
<1>12. CASE UNCHANGED vars
  BY <1>12, SlotsKept DEF vars, Launches
<1>13. CASE Request
  BY <1>1, <1>2, <1>3, <1>13 DEF Request
<1>14. QED
  BY <1>4, <1>5, <1>6, <1>7, <1>9, <1>10, <1>11, <1>12, <1>13
     DEF Next, ProcessQueue, WaitForRequests

-----------------------------------------------------------------------------
(* The queue and the rows.                                                 *)

LEMMA QueueKept ==
  ASSUME QueueInv, UNCHANGED <<queue, status, at, cancelledBuilds>>
  PROVE  QueueInv'
BY DEF QueueInv

\* A launch in flight is not in the queue: what it writes disturbs nothing there.
LEMMA QueueKeptByLaunch ==
  ASSUME Types, QueueInv, NEW b \in Builds, at[b] \in InFlight,
         NEW s, s \notin {"none", "queued"}, NEW to,
         status' = [status EXCEPT ![b] = s] \/ status' = status,
         at' = [at EXCEPT ![b] = to],
         queue' = queue,
         cancelledBuilds' \in {cancelledBuilds, cancelledBuilds \ {b}}
  PROVE  QueueInv'
<1>1. at[b] # "none"
  BY DEF InFlight, InTry, Attached
<1>2. \A i \in 1..Len(queue) : queue[i] \in Builds /\ queue[i] # b
  BY <1>1 DEF QueueInv, Types
<1>3. QED
  BY <1>2 DEF QueueInv, Types

LEMMA QueueNext ==
  ASSUME Types, QueueInv, RowInv, [Next]_vars
  PROVE  QueueInv'
<1> USE DEF memory, tables
<1>0. \A i \in 1..Len(queue) : queue[i] \in Builds
  BY DEF Types
<1>1. ASSUME NEW b \in Builds, NEW p \in Projects, NEW k \in Keystores \cup {None},
             StartBuild(b, p, k)
      PROVE  QueueInv'
  <2>1. /\ status[b] = "none" /\ status' = [status EXCEPT ![b] = "queued"]
        /\ queue' = Append(queue, b)
        /\ UNCHANGED <<at, cancelledBuilds>>
    BY <1>1 DEF StartBuild
  <2>2. at[b] = "none" /\ b \notin cancelledBuilds
    BY <2>1 DEF RowInv, QueueInv, Types, InFlight, InTry, Attached, Terminal
  <2>3. \A i \in 1..Len(queue) : queue[i] # b
    BY <2>1 DEF QueueInv
  <2>4. /\ Len(queue') = Len(queue) + 1
        /\ queue'[Len(queue) + 1] = b
        /\ \A i \in 1..Len(queue) : queue'[i] = queue[i]
    BY <2>1 DEF Types
  <2>5. Len(queue) \in Nat
    BY DEF Types
  <2>6. QED
    BY <1>0, <2>1, <2>2, <2>3, <2>4, <2>5 DEF QueueInv, Types
<1>2. ASSUME NEW b \in Builds, CancelBuild(b) PROVE QueueInv'
  <2>1. /\ cancelledBuilds' = cancelledBuilds \cup {b}
        /\ UNCHANGED <<queue, at>>
    BY <1>2 DEF CancelBuild
  <2>2. CASE CancelQueued(b)
    BY <1>0, <2>1, <2>2 DEF CancelQueued, QueueInv, Types
  <2>3. CASE CancelLaunched(b)
    <3>1. status[b] \in {"starting", "running"} /\ status' = status
      BY <2>3 DEF CancelLaunched
    <3>2. \A i \in 1..Len(queue) : queue[i] # b
      BY <3>1 DEF QueueInv
    <3>3. QED
      BY <2>1, <3>1, <3>2 DEF QueueInv
  <2>4. QED
    BY <1>2, <2>2, <2>3 DEF CancelBuild
<1>3. ASSUME NEW k \in Keystores, UploadKeystore(k) \/ DeleteKeystore(k) PROVE QueueInv'
  BY <1>3, QueueKept DEF UploadKeystore, DeleteKeystore, SetKeystoreRow
<1>4. ASSUME queue # <<>>, queue' = Tail(queue),
             UNCHANGED cancelledBuilds,
             \A c \in Builds \ {Head(queue)} : status'[c] = status[c] /\ at'[c] = at[c],
             \A c \in cancelledBuilds : status'[c] = status[c]
      PROVE  QueueInv'
  <2>1. Len(queue) \in Nat /\ Len(queue) > 0 /\ Head(queue) = queue[1]
    BY <1>4 DEF Types
  <2>2. /\ Len(queue') = Len(queue) - 1
        /\ \A i \in 1..Len(queue') : queue'[i] = queue[i + 1] /\ i + 1 \in 1..Len(queue)
    BY <1>4, <2>1 DEF Types
  <2>3. \A i \in 1..Len(queue') : queue'[i] \in Builds \ {Head(queue)}
    BY <1>0, <2>1, <2>2 DEF QueueInv
  <2>4. QED
    BY <1>4, <2>1, <2>2, <2>3 DEF QueueInv
<1>5. CASE ShiftCancelled
  BY <1>4, <1>5 DEF ShiftCancelled, CanShift
<1>6. CASE ShiftAndLaunch
  <2>1. Head(queue) \in Builds /\ Head(queue) \notin cancelledBuilds
    BY <1>6 DEF ShiftAndLaunch, CanShift, Types
  <2>2. QED
    BY <1>4, <1>6, <2>1 DEF ShiftAndLaunch, LaunchBuild, CanShift, Types
<1>7. CASE LoopEnds
  BY <1>7, QueueKept DEF LoopEnds
<1>8. ASSUME NEW answer \in {"ready", "rejected"}, VolumesAnswer(answer) PROVE QueueInv'
  BY <1>8, QueueKept DEF VolumesAnswer
<1>9. ASSUME NEW b \in Builds, LaunchStep(b) PROVE QueueInv'
  <2> USE DEF InFlight, InTry, Attached
  <2>1. CASE Settle(b)
    BY <2>1, QueueKeptByLaunch DEF Settle
  <2>2. CASE ContainerCreated(b)
    BY <2>2, QueueKeptByLaunch DEF ContainerCreated
  <2>3. CASE CreateFails(b)
    BY <2>3, QueueKeptByLaunch DEF CreateFails
  <2>4. CASE OutputAttached(b) \/ ContainerStarted(b) \/ StatsAttached(b)
             \/ WaitAnswersSuccess(b)
    BY <2>4, QueueKeptByLaunch
       DEF OutputAttached, ContainerStarted, StatsAttached, WaitAnswersSuccess, Proceed
  <2>5. CASE DockerCallFails(b) \/ WaitAnswersCancelled(b) \/ WaitAnswersFailure(b)
             \/ MetricsAnswer(b, "success") \/ MetricsAnswer(b, "failed")
    BY <2>5, QueueKeptByLaunch
       DEF DockerCallFails, WaitAnswersCancelled, WaitAnswersFailure, MetricsAnswer, Conclude
  <2>6. CASE ContainerRemoved(b) \/ RemoveFails(b)
    BY <2>6, QueueKeptByLaunch DEF ContainerRemoved, RemoveFails, Remove
  <2>7. CASE ArtifactLineArrives(b)
    BY <2>7, QueueKept DEF ArtifactLineArrives
  <2>8. QED
    BY <1>9, <2>1, <2>2, <2>3, <2>4, <2>5, <2>6, <2>7 DEF LaunchStep
<1>10. ASSUME NEW b \in Builds, ContainerStep(b) PROVE QueueInv'
  BY <1>10, QueueKept
     DEF ContainerStep, PrintsArtifact, ExitsZero, Dies, StopLands, ContainerBecomes
<1>11. CASE Restart
  <2>1. Len(queue') = 0 /\ cancelledBuilds' = {}
    BY <1>11 DEF Restart
  <2>2. QED
    BY <2>1 DEF QueueInv
<1>12. CASE UNCHANGED vars
  BY <1>12, QueueKept DEF vars
<1>13. CASE Request
  BY <1>1, <1>2, <1>3, <1>13 DEF Request
<1>14. QED
  BY <1>5, <1>6, <1>7, <1>8, <1>9, <1>10, <1>11, <1>12, <1>13
     DEF Next, ProcessQueue, WaitForRequests

-----------------------------------------------------------------------------
(* Rows, containers and launches agree.                                    *)

RowsInv == RowInv /\ ContainerInv /\ HolderInv

LEMMA RowsKept ==
  ASSUME RowsInv, UNCHANGED <<status, at, container, restarts>>
  PROVE  RowsInv'
BY DEF RowsInv, RowInv, ContainerInv, HolderInv

LEMMA RowsNext ==
  ASSUME Types, QueueInv, RowsInv, [Next]_vars
  PROVE  RowsInv'
<1> USE DEF memory, tables, docker, Active, Terminal, InFlight, InTry, Attached
<1>1. ASSUME NEW b \in Builds, NEW p \in Projects, NEW k \in Keystores \cup {None},
             StartBuild(b, p, k)
      PROVE  RowsInv'
  <2>1. /\ status[b] = "none" /\ status' = [status EXCEPT ![b] = "queued"]
        /\ UNCHANGED <<at, container, restarts>>
    BY <1>1 DEF StartBuild
  <2>2. QED
    BY <2>1 DEF RowsInv, RowInv, ContainerInv, HolderInv, Types
<1>2. ASSUME NEW b \in Builds, CancelBuild(b) PROVE RowsInv'
  <2>1. /\ \/ status' = status
           \/ status[b] = "queued" /\ status' = [status EXCEPT ![b] = "cancelled"]
        /\ UNCHANGED <<at, container, restarts>>
    BY <1>2 DEF CancelBuild, CancelQueued, CancelLaunched
  <2>2. QED
    BY <2>1 DEF RowsInv, RowInv, ContainerInv, HolderInv, Types
<1>3. ASSUME NEW k \in Keystores, UploadKeystore(k) \/ DeleteKeystore(k) PROVE RowsInv'
  BY <1>3, RowsKept DEF UploadKeystore, DeleteKeystore, SetKeystoreRow
<1>4. CASE ShiftCancelled \/ LoopEnds
  BY <1>4, RowsKept DEF ShiftCancelled, LoopEnds
<1>5. CASE ShiftAndLaunch
  <2> DEFINE b == Head(queue)
  <2>1. b \in Builds /\ at[b] = "none" /\ status[b] = "queued"
    BY <1>5 DEF ShiftAndLaunch, CanShift, QueueInv, Types
  <2>2. container[b] = "none"
    BY <2>1 DEF RowsInv, ContainerInv
  <2>3. /\ \/ /\ status' = [status EXCEPT ![b] = "failed"]
              /\ at' = [at EXCEPT ![b] = "settled"]
           \/ /\ status' = [status EXCEPT ![b] = "starting"]
              /\ at' = [at EXCEPT ![b] = "creating"]
        /\ UNCHANGED <<container, restarts>>
    BY <1>5 DEF ShiftAndLaunch, LaunchBuild
  <2> HIDE DEF b
  <2>4. RowInv'
    BY <2>1, <2>3 DEF RowsInv, RowInv, Types
  <2>5. ContainerInv'
    BY <2>1, <2>2, <2>3 DEF RowsInv, ContainerInv, Types
  <2>6. HolderInv'
    BY <2>1, <2>2, <2>3 DEF RowsInv, HolderInv, Types
  <2>7. QED
    BY <2>4, <2>5, <2>6 DEF RowsInv
<1>6. ASSUME NEW answer \in {"ready", "rejected"}, VolumesAnswer(answer) PROVE RowsInv'
  BY <1>6, RowsKept DEF VolumesAnswer
<1>7. ASSUME NEW b \in Builds, LaunchStep(b) PROVE RowsInv'
  <2>1. CASE Settle(b)
    <3>1. at[b] = "settled" /\ at' = [at EXCEPT ![b] = "done"]
          /\ UNCHANGED <<status, container, restarts>>
      BY <2>1 DEF Settle
    <3>2. QED
      BY <3>1 DEF RowsInv, RowInv, ContainerInv, HolderInv, Types
  <2>2. CASE ContainerCreated(b)
    <3>1. /\ at[b] = "creating" /\ at' = [at EXCEPT ![b] = "attaching"]
          /\ status' = [status EXCEPT ![b] = "running"]
          /\ container' = [container EXCEPT ![b] = "created"]
          /\ UNCHANGED restarts
      BY <2>2 DEF ContainerCreated
    <3>2. QED
      BY <3>1 DEF RowsInv, RowInv, ContainerInv, HolderInv, Types
  <2>3. CASE CreateFails(b)
    <3>1. /\ at[b] = "creating" /\ at' = [at EXCEPT ![b] = "settled"]
          /\ status' = [status EXCEPT ![b] = "failed"]
          /\ UNCHANGED <<container, restarts>>
      BY <2>3 DEF CreateFails
    <3>2. QED
      BY <3>1 DEF RowsInv, RowInv, ContainerInv, HolderInv, Types
  <2>4. CASE OutputAttached(b) \/ ContainerStarted(b) \/ StatsAttached(b)
    <3>1. /\ at[b] \in InTry /\ at'[b] \in InTry
          /\ at' = [at EXCEPT ![b] = at'[b]]
          /\ \/ container' = container
             \/ container' = [container EXCEPT ![b] = "running"]
          /\ UNCHANGED <<status, restarts>>
      BY <2>4 DEF OutputAttached, ContainerStarted, StatsAttached, Proceed, Types
    <3>2. QED
      BY <3>1 DEF RowsInv, RowInv, ContainerInv, HolderInv, Types
  <2>5. CASE WaitAnswersSuccess(b)
    <3>1. /\ at[b] = "waiting" /\ at' = [at EXCEPT ![b] = "measuring"]
          /\ container[b] = "exited0"
          /\ UNCHANGED <<status, container, restarts>>
      BY <2>5 DEF WaitAnswersSuccess, Proceed
    <3>2. QED
      BY <3>1 DEF RowsInv, RowInv, ContainerInv, HolderInv, Types
  <2>6. ASSUME NEW verdict \in {"success", "failed", "cancelled"}, Conclude(b, verdict),
               at[b] \in InTry \cup {"measuring"},
               verdict = "success" => at[b] = "measuring"
        PROVE  RowsInv'
    <3>1. /\ at' = [at EXCEPT ![b] = "removing"]
          /\ status' = [status EXCEPT ![b] = verdict]
          /\ UNCHANGED <<container, restarts>>
      BY <2>6 DEF Conclude
    <3>2. QED
      BY <2>6, <3>1 DEF RowsInv, RowInv, ContainerInv, HolderInv, Types
  <2>7. CASE DockerCallFails(b) \/ WaitAnswersCancelled(b) \/ WaitAnswersFailure(b)
             \/ MetricsAnswer(b, "success") \/ MetricsAnswer(b, "failed")
    BY <2>6, <2>7 DEF DockerCallFails, WaitAnswersCancelled, WaitAnswersFailure, MetricsAnswer
  <2>8. CASE ContainerRemoved(b) \/ RemoveFails(b)
    <3>1. /\ at[b] = "removing" /\ at' = [at EXCEPT ![b] = "settled"]
          /\ \/ container' = [container EXCEPT ![b] = "removed"]
             \/ RemoveMayFail /\ container' = container
          /\ UNCHANGED <<status, restarts>>
      BY <2>8 DEF ContainerRemoved, RemoveFails, Remove
    <3>2. QED
      BY <3>1 DEF RowsInv, RowInv, ContainerInv, HolderInv, Types
  <2>9. CASE ArtifactLineArrives(b)
    BY <2>9, RowsKept DEF ArtifactLineArrives
  <2>10. QED
    BY <1>7, <2>1, <2>2, <2>3, <2>4, <2>5, <2>7, <2>8, <2>9 DEF LaunchStep
<1>8. ASSUME NEW b \in Builds, ContainerStep(b) PROVE RowsInv'
  <2>1. /\ \/ container' = container
           \/ /\ container[b] = "running"
              /\ container' = [container EXCEPT ![b] = container'[b]]
              /\ container'[b] \in {"exited0", "died"}
        /\ UNCHANGED <<status, at, restarts>>
    BY <1>8 DEF ContainerStep, PrintsArtifact, ExitsZero, Dies, StopLands,
                ContainerBecomes, Types
  <2>2. QED
    BY <2>1 DEF RowsInv, RowInv, ContainerInv, HolderInv, Types
<1>9. CASE Restart
  <2>1. /\ \A b \in Builds : at'[b] = "none"
        /\ restarts' = restarts + 1 /\ restarts \in Nat
        /\ UNCHANGED <<status, container>>
    BY <1>9 DEF Restart, Types
  <2>2. QED
    BY <2>1 DEF RowsInv, RowInv, ContainerInv, HolderInv
<1>10. CASE UNCHANGED vars
  BY <1>10, RowsKept DEF vars
<1>11. CASE Request
  BY <1>1, <1>2, <1>3, <1>11 DEF Request
<1>12. QED
  BY <1>4, <1>5, <1>6, <1>7, <1>8, <1>9, <1>10, <1>11
     DEF Next, ProcessQueue, WaitForRequests

-----------------------------------------------------------------------------
(* Verdicts and projects: what any step may do to a status.                *)

\* No step but StartBuild opens a row, and none touches a verdict.
StatusMove ==
    /\ appPath' = appPath
    /\ \A b \in Builds :
        /\ status'[b] \in Active => status[b] \in Active
        /\ status[b] \in Terminal => status'[b] = status[b]

LEMMA OneStatusMoves ==
  ASSUME Types, NEW b \in Builds, NEW s, status[b] \in Active, s # "none",
         status' = [status EXCEPT ![b] = s], appPath' = appPath
  PROVE  StatusMove
BY DEF StatusMove, Types, Active, Terminal

LEMMA NoStatusMoves ==
  ASSUME UNCHANGED <<status, appPath>>
  PROVE  StatusMove
BY DEF StatusMove

LEMMA StatusNext ==
  ASSUME Types, QueueInv, RowInv, [Next]_vars,
         ~\E b \in Builds, p \in Projects, k \in Keystores \cup {None} : StartBuild(b, p, k)
  PROVE  StatusMove
<1> USE DEF memory, tables
<1>1. ASSUME NEW b \in Builds, CancelBuild(b) PROVE StatusMove
  BY <1>1, OneStatusMoves, NoStatusMoves
     DEF CancelBuild, CancelQueued, CancelLaunched, Active
<1>2. ASSUME NEW k \in Keystores, UploadKeystore(k) \/ DeleteKeystore(k) PROVE StatusMove
  BY <1>2, NoStatusMoves DEF UploadKeystore, DeleteKeystore, SetKeystoreRow
<1>3. CASE ShiftCancelled \/ LoopEnds
  BY <1>3, NoStatusMoves DEF ShiftCancelled, LoopEnds
<1>4. CASE ShiftAndLaunch
  <2>1. Head(queue) \in Builds /\ status[Head(queue)] = "queued"
    BY <1>4 DEF ShiftAndLaunch, CanShift, QueueInv, Types
  <2>2. /\ \/ status' = [status EXCEPT ![Head(queue)] = "failed"]
           \/ status' = [status EXCEPT ![Head(queue)] = "starting"]
        /\ appPath' = appPath
    BY <1>4 DEF ShiftAndLaunch, LaunchBuild
  <2>3. QED
    BY <2>1, <2>2, OneStatusMoves DEF Active
<1>5. ASSUME NEW answer \in {"ready", "rejected"}, VolumesAnswer(answer) PROVE StatusMove
  BY <1>5, NoStatusMoves DEF VolumesAnswer
<1>6. ASSUME NEW b \in Builds, LaunchStep(b) PROVE StatusMove
  <2>1. CASE UNCHANGED <<status, appPath>>
    BY <2>1, NoStatusMoves
  <2>2. CASE ContainerCreated(b) \/ CreateFails(b)
    <3>1. status[b] = "starting"
      BY <2>2 DEF ContainerCreated, CreateFails, RowInv
    <3>2. QED
      BY <2>2, <3>1, OneStatusMoves DEF ContainerCreated, CreateFails, Active
  <2>3. ASSUME NEW verdict \in Terminal, Conclude(b, verdict),
               at[b] \in InTry \cup {"measuring"}
        PROVE  StatusMove
    <3>1. status[b] = "running"
      BY <2>3 DEF RowInv
    <3>2. status' = [status EXCEPT ![b] = verdict] /\ appPath' = appPath
      BY <2>3 DEF Conclude
    <3>3. status[b] \in Active /\ verdict # "none"
      BY <2>3, <3>1 DEF Active, Terminal
    <3>4. QED
      BY <3>2, <3>3, OneStatusMoves
  <2>4. CASE DockerCallFails(b) \/ WaitAnswersCancelled(b) \/ WaitAnswersFailure(b)
             \/ MetricsAnswer(b, "success") \/ MetricsAnswer(b, "failed")
    BY <2>3, <2>4 DEF DockerCallFails, WaitAnswersCancelled, WaitAnswersFailure,
                      MetricsAnswer, Terminal, InTry, Attached
  <2>5. QED
    BY <1>6, <2>1, <2>2, <2>4
       DEF LaunchStep, Settle, OutputAttached, ContainerStarted, StatsAttached,
           WaitAnswersSuccess, Proceed, ContainerRemoved, RemoveFails, Remove,
           ArtifactLineArrives
<1>7. ASSUME NEW b \in Builds, ContainerStep(b) PROVE StatusMove
  BY <1>7, NoStatusMoves
     DEF ContainerStep, PrintsArtifact, ExitsZero, Dies, StopLands, ContainerBecomes
<1>8. CASE Restart \/ UNCHANGED vars
  BY <1>8, NoStatusMoves DEF Restart, vars
<1>9. CASE Request
  BY <1>1, <1>2, <1>9 DEF Request
<1>10. QED
  BY <1>3, <1>4, <1>5, <1>6, <1>7, <1>8, <1>9 DEF Next, ProcessQueue, WaitForRequests

LEMMA OneActiveNext ==
  ASSUME Types, QueueInv, RowInv, OneActiveBuildPerProject, [Next]_vars
  PROVE  OneActiveBuildPerProject'
<1>1. ASSUME NEW b \in Builds, NEW p \in Projects, NEW k \in Keystores \cup {None},
             StartBuild(b, p, k)
      PROVE  OneActiveBuildPerProject'
  <2>1. /\ \A c \in Builds : appPath[c] = p => status[c] \notin Active
        /\ status' = [status EXCEPT ![b] = "queued"]
        /\ appPath' = [appPath EXCEPT ![b] = p]
    BY <1>1 DEF StartBuild, ActiveBuildForAppPath
  <2>2. QED
    BY <2>1 DEF OneActiveBuildPerProject, Types
<1>2. CASE StatusMove
  BY <1>2 DEF StatusMove, OneActiveBuildPerProject
<1>3. QED
  BY <1>1, <1>2, StatusNext

LEMMA VerdictNext ==
  ASSUME Types, QueueInv, RowInv, [Next]_vars
  PROVE  \A b \in Builds : status[b] \in Terminal => status'[b] = status[b]
<1>1. ASSUME NEW b \in Builds, NEW p \in Projects, NEW k \in Keystores \cup {None},
             StartBuild(b, p, k)
      PROVE  \A c \in Builds : status[c] \in Terminal => status'[c] = status[c]
  BY <1>1 DEF StartBuild, Types, Terminal
<1>2. QED
  BY <1>1, StatusNext DEF StatusMove

-----------------------------------------------------------------------------
(* No slot idles while a build waits, and no active row is forgotten.      *)

LEMMA IdleNext ==
  ASSUME Types, IdleInv, [Next]_vars
  PROVE  IdleInv'
<1> USE DEF memory, IdleInv
<1>1. CASE UNCHANGED <<queue, runningCount, draining>>
  BY <1>1
<1>2. ASSUME NEW b \in Builds, NEW p \in Projects, NEW k \in Keystores \cup {None},
             StartBuild(b, p, k)
      PROVE  IdleInv'
  BY <1>2 DEF StartBuild
<1>3. ASSUME NEW b \in Builds, CancelBuild(b) PROVE IdleInv'
  BY <1>1, <1>3 DEF CancelBuild
<1>4. ASSUME NEW k \in Keystores, UploadKeystore(k) \/ DeleteKeystore(k) PROVE IdleInv'
  BY <1>1, <1>4 DEF UploadKeystore, DeleteKeystore, SetKeystoreRow
<1>5. CASE ShiftCancelled \/ ShiftAndLaunch
  BY <1>5 DEF ShiftCancelled, ShiftAndLaunch, CanShift
<1>6. CASE LoopEnds
  <2>1. /\ runningCount' = runningCount /\ queue' = queue
        /\ runningCount >= MaxConcurrent \/ queue = <<>>
    BY <1>6 DEF LoopEnds
  <2>2. CASE queue = <<>>
    BY <2>1, <2>2
  <2>3. CASE runningCount >= MaxConcurrent
    <3>1. ~(runningCount' < MaxConcurrent)
      BY <2>1, <2>3, ConstantsAssumption DEF Types
    <3>2. QED
      BY <3>1
  <2>4. QED
    BY <2>1, <2>2, <2>3
<1>7. ASSUME NEW b \in Builds, LaunchStep(b) PROVE IdleInv'
  <2>1. CASE Settle(b)
    BY <2>1 DEF Settle
  <2>2. QED
    BY <1>1, <1>7, <2>1
       DEF LaunchStep, ContainerCreated, CreateFails, OutputAttached, ContainerStarted,
           StatsAttached, WaitAnswersSuccess, Proceed, DockerCallFails,
           WaitAnswersCancelled, WaitAnswersFailure, MetricsAnswer, Conclude,
           ContainerRemoved, RemoveFails, Remove, ArtifactLineArrives
<1>8. ASSUME NEW b \in Builds, ContainerStep(b) PROVE IdleInv'
  BY <1>1, <1>8
     DEF ContainerStep, PrintsArtifact, ExitsZero, Dies, StopLands, ContainerBecomes
<1>9. ASSUME NEW answer \in {"ready", "rejected"}, VolumesAnswer(answer) PROVE IdleInv'
  BY <1>1, <1>9 DEF VolumesAnswer
<1>10. CASE Restart
  BY <1>10 DEF Restart
<1>11. CASE UNCHANGED vars
  BY <1>1, <1>11 DEF vars
<1>12. CASE Request
  BY <1>2, <1>3, <1>4, <1>12 DEF Request
<1>13. QED
  BY <1>5, <1>6, <1>7, <1>8, <1>9, <1>10, <1>11, <1>12
     DEF Next, ProcessQueue, WaitForRequests

\* The build waits in the queue.
Waits(b) == \E i \in 1..Len(queue) : queue[i] = b

\* A step that opens no row keeps every active row live if what waited still
\* waits or is in flight, and what was in flight is, or has its verdict.
LEMMA LiveKept ==
  ASSUME ActiveRowIsLive, UNCHANGED queue,
         \A b \in Builds : status'[b] \in Active =>
            \/ status'[b] = status[b] /\ at'[b] = at[b]
            \/ at'[b] \in InFlight
  PROVE  ActiveRowIsLive'
<1> SUFFICES ASSUME NEW b \in Builds, status'[b] \in Active
             PROVE  \/ status'[b] = "queued" /\ Waits(b)'
                    \/ at'[b] \in InFlight
  BY DEF ActiveRowIsLive, Active, InFlight, InTry, Attached, Waits
<1>1. CASE at'[b] \in InFlight
  BY <1>1
<1>2. CASE status'[b] = status[b] /\ at'[b] = at[b]
  BY <1>2 DEF ActiveRowIsLive, Waits
<1>3. QED
  BY <1>1, <1>2

LEMMA LiveNext ==
  ASSUME Types, QueueInv, RowInv, ActiveRowIsLiveUntilRestart, [Next]_vars
  PROVE  ActiveRowIsLiveUntilRestart'
<1> USE DEF memory, tables
<1>1. CASE restarts' # 0
  BY <1>1 DEF ActiveRowIsLiveUntilRestart
<1>2. CASE Restart
  <2>1. restarts' = restarts + 1 /\ restarts \in Nat
    BY <1>2 DEF Restart, Types
  <2>2. QED
    BY <1>1, <2>1
<1> SUFFICES ASSUME restarts' = 0, ~Restart PROVE ActiveRowIsLive'
  BY <1>1, <1>2 DEF ActiveRowIsLiveUntilRestart
<1>3. ASSUME restarts = 0 PROVE ActiveRowIsLive
  BY <1>3 DEF ActiveRowIsLiveUntilRestart
<1>4. CASE UNCHANGED <<status, at, queue, restarts>>
  BY <1>3, <1>4, LiveKept
<1>5. ASSUME NEW b \in Builds, NEW p \in Projects, NEW k \in Keystores \cup {None},
             StartBuild(b, p, k)
      PROVE  ActiveRowIsLive'
  <2>1. /\ status' = [status EXCEPT ![b] = "queued"]
        /\ queue' = Append(queue, b)
        /\ UNCHANGED <<at, restarts>>
    BY <1>5 DEF StartBuild
  <2>2. /\ Len(queue') = Len(queue) + 1 /\ Len(queue) \in Nat
        /\ queue'[Len(queue) + 1] = b
        /\ \A i \in 1..Len(queue) : queue'[i] = queue[i]
    BY <2>1 DEF Types
  <2>3. Waits(b)'
    BY <2>2 DEF Waits
  <2>4. \A c \in Builds : Waits(c) => Waits(c)'
    BY <2>2 DEF Waits
  <2>5. ActiveRowIsLive
    BY <1>3, <2>1
  <2>6. QED
    BY <2>1, <2>3, <2>4, <2>5 DEF ActiveRowIsLive, Waits, Types
<1>6. ASSUME NEW b \in Builds, CancelBuild(b) PROVE ActiveRowIsLive'
  <2>1. /\ UNCHANGED <<queue, at, restarts>>
        /\ status' = status \/ status' = [status EXCEPT ![b] = "cancelled"]
    BY <1>6 DEF CancelBuild, CancelQueued, CancelLaunched
  <2>2. \A c \in Builds : status'[c] \in Active => status'[c] = status[c]
    BY <2>1 DEF Types, Active
  <2>3. QED
    BY <1>3, <2>1, <2>2, LiveKept
<1>7. ASSUME NEW k \in Keystores, UploadKeystore(k) \/ DeleteKeystore(k)
      PROVE  ActiveRowIsLive'
  BY <1>4, <1>7 DEF UploadKeystore, DeleteKeystore, SetKeystoreRow
<1>8. ASSUME queue # <<>>, queue' = Tail(queue), UNCHANGED restarts,
             status'[Head(queue)] \in Active => at'[Head(queue)] \in InFlight,
             \A c \in Builds \ {Head(queue)} : status'[c] = status[c] /\ at'[c] = at[c]
      PROVE  ActiveRowIsLive'
  <2>1. Len(queue) \in Nat /\ Head(queue) = queue[1]
    BY <1>8 DEF Types
  <2>2. /\ Len(queue') = Len(queue) - 1
        /\ \A i \in 1..Len(queue') : queue'[i] = queue[i + 1]
    BY <1>8, <2>1 DEF Types
  <2>3. \A c \in Builds \ {Head(queue)} : Waits(c) => Waits(c)'
    <3> SUFFICES ASSUME NEW i \in 1..Len(queue), queue[i] # Head(queue)
                 PROVE  \E j \in 1..Len(queue') : queue'[j] = queue[i]
      BY DEF Waits
    <3>1. i - 1 \in 1..Len(queue')
      BY <2>1, <2>2
    <3>2. queue'[i - 1] = queue[i]
      BY <2>1, <2>2, <3>1
    <3>3. QED
      BY <3>1, <3>2
  <2>4. QED
    BY <1>3, <1>8, <2>3 DEF ActiveRowIsLive, Waits
<1>9. CASE ShiftCancelled
  <2>1. status[Head(queue)] = "cancelled"
    BY <1>9 DEF ShiftCancelled, CanShift, QueueInv, Types
  <2>2. QED
    BY <1>8, <1>9, <2>1 DEF ShiftCancelled, CanShift, Active
<1>10. CASE ShiftAndLaunch
  <2>1. Head(queue) \in Builds
    BY <1>10 DEF ShiftAndLaunch, CanShift, Types
  <2>2. /\ queue # <<>> /\ queue' = Tail(queue) /\ UNCHANGED restarts
        /\ at' = [at EXCEPT ![Head(queue)] = "creating"]
           \/ at' = [at EXCEPT ![Head(queue)] = "settled"]
        /\ status' = [status EXCEPT ![Head(queue)] = status'[Head(queue)]]
    BY <1>10, <2>1 DEF ShiftAndLaunch, CanShift, LaunchBuild, Types
  <2>3. at'[Head(queue)] \in InFlight
    BY <2>1, <2>2 DEF InFlight, Types
  <2>4. QED
    BY <1>8, <2>1, <2>2, <2>3 DEF Types
<1>11. CASE LoopEnds
  BY <1>4, <1>11 DEF LoopEnds
<1>12. ASSUME NEW answer \in {"ready", "rejected"}, VolumesAnswer(answer)
       PROVE  ActiveRowIsLive'
  BY <1>4, <1>12 DEF VolumesAnswer
<1>13. ASSUME NEW b \in Builds, NEW to \in InFlight, at' = [at EXCEPT ![b] = to],
              UNCHANGED <<queue, restarts>>,
              \A c \in Builds \ {b} : status'[c] = status[c]
       PROVE  ActiveRowIsLive'
  BY <1>3, <1>13, LiveKept DEF Types
<1>14. ASSUME NEW b \in Builds, LaunchStep(b) PROVE ActiveRowIsLive'
  <2>1. CASE Settle(b)
    <3>1. at[b] = "settled" /\ at' = [at EXCEPT ![b] = "done"]
          /\ UNCHANGED <<queue, status, restarts>>
      BY <2>1 DEF Settle
    <3>2. status[b] \notin Active
      BY <3>1 DEF RowInv, Active, Terminal
    <3>3. \A c \in Builds : status'[c] \in Active =>
             status'[c] = status[c] /\ at'[c] = at[c]
      BY <3>1, <3>2 DEF Types
    <3>4. QED
      BY <1>3, <3>1, <3>3, LiveKept
  <2> USE DEF InFlight, InTry, Attached
  <2>2. CASE ContainerCreated(b)
    BY <1>13, <2>2 DEF ContainerCreated, Types
  <2>3. CASE CreateFails(b)
    BY <1>13, <2>3 DEF CreateFails, Types
  <2>4. CASE OutputAttached(b) \/ ContainerStarted(b) \/ StatsAttached(b)
             \/ WaitAnswersSuccess(b)
    BY <1>13, <2>4
       DEF OutputAttached, ContainerStarted, StatsAttached, WaitAnswersSuccess, Proceed
  <2>5. ASSUME NEW verdict, Conclude(b, verdict), UNCHANGED restarts
        PROVE  ActiveRowIsLive'
    BY <1>13, <2>5 DEF Conclude, Types
  <2>6. CASE DockerCallFails(b) \/ WaitAnswersCancelled(b) \/ WaitAnswersFailure(b)
             \/ MetricsAnswer(b, "success") \/ MetricsAnswer(b, "failed")
    BY <2>5, <2>6 DEF DockerCallFails, WaitAnswersCancelled, WaitAnswersFailure,
                      MetricsAnswer, Conclude
  <2>7. CASE ContainerRemoved(b) \/ RemoveFails(b)
    BY <1>13, <2>7 DEF ContainerRemoved, RemoveFails, Remove
  <2>8. CASE ArtifactLineArrives(b)
    BY <1>4, <2>8 DEF ArtifactLineArrives
  <2>9. QED
    BY <1>14, <2>1, <2>2, <2>3, <2>4, <2>6, <2>7, <2>8 DEF LaunchStep
<1>15. ASSUME NEW b \in Builds, ContainerStep(b) PROVE ActiveRowIsLive'
  BY <1>4, <1>15
     DEF ContainerStep, PrintsArtifact, ExitsZero, Dies, StopLands, ContainerBecomes
<1>16. CASE UNCHANGED vars
  BY <1>4, <1>16 DEF vars
<1>17. CASE Request
  BY <1>5, <1>6, <1>7, <1>17 DEF Request
<1>18. QED
  BY <1>9, <1>10, <1>11, <1>12, <1>14, <1>15, <1>16, <1>17
     DEF Next, ProcessQueue, WaitForRequests

-----------------------------------------------------------------------------
(* The inductive invariant, and what follows from it.                      *)

LEMMA InitIInv == Init => IInv
<1> SUFFICES ASSUME Init PROVE IInv
  OBVIOUS
<1>1. Types
  BY TypesInit
<1>2. SlotsMatchLaunches
  <2>1. Launches = {}
    BY DEF Init, Launches, InFlight, InTry, Attached
  <2>2. QED
    BY <2>1, FS_EmptySet, ConstantsAssumption DEF Init, SlotsMatchLaunches
<1>3. QueueInv
  <2>1. Len(queue) = 0 /\ cancelledBuilds = {}
    BY DEF Init
  <2>2. QED
    BY <2>1 DEF QueueInv
<1>4. RowInv /\ ContainerInv /\ HolderInv
  BY DEF Init, RowInv, ContainerInv, HolderInv, InTry, Attached
<1>5. IdleInv
  BY DEF Init, IdleInv
<1>6. OneActiveBuildPerProject /\ ActiveRowIsLiveUntilRestart
  BY DEF Init, OneActiveBuildPerProject, ActiveRowIsLiveUntilRestart, ActiveRowIsLive, Active
<1>7. QED
  BY <1>1, <1>2, <1>3, <1>4, <1>5, <1>6 DEF IInv

LEMMA NextIInv == IInv /\ [Next]_vars => IInv'
<1> SUFFICES ASSUME IInv, [Next]_vars PROVE IInv'
  OBVIOUS
<1>1. Types /\ QueueInv /\ RowsInv
  BY DEF IInv, RowsInv
<1>2. Types' /\ SlotsMatchLaunches' /\ QueueInv' /\ RowsInv'
  BY <1>1, TypesNext, SlotsNext, QueueNext, RowsNext DEF IInv, RowsInv
<1>3. IdleInv' /\ OneActiveBuildPerProject' /\ ActiveRowIsLiveUntilRestart'
  BY <1>1, IdleNext, OneActiveNext, LiveNext DEF IInv
<1>4. QED
  BY <1>2, <1>3 DEF IInv, RowsInv

\* Every state the manager can reach satisfies the inductive invariant.
THEOREM Invariance == Spec => []IInv
BY InitIInv, NextIInv, PTL DEF Spec

\* The columns, maps and closure variables keep their types; in particular
\* runningCount never falls below 0: each launch runs its finally callback once.
THEOREM TypeCorrect == Spec => []TypeOK
<1>1. IInv => TypeOK
  BY LaunchesFinite DEF IInv, Types, SlotsMatchLaunches, TypeOK
<1>2. QED
  BY <1>1, Invariance, PTL

\* runningCount is the number of launches that have not settled, and it stays
\* within MAX_CONCURRENT_BUILDS, through failures, cancels and restarts.
THEOREM SlotAccounting == Spec => []SlotsMatchLaunches
<1>1. IInv => SlotsMatchLaunches
  BY DEF IInv
<1>2. QED
  BY <1>1, Invariance, PTL

\* Between two handlers, no build waits in the queue while a slot is free.
THEOREM WorkConserving == Spec => []NoIdleSlot
<1>1. IInv => NoIdleSlot
  BY DEF IInv, IdleInv, NoIdleSlot, Idle
<1>2. QED
  BY <1>1, Invariance, PTL

\* startBuild's admission check keeps one active row per project.
THEOREM OneActive == Spec => []OneActiveBuildPerProject
<1>1. IInv => OneActiveBuildPerProject
  BY DEF IInv
<1>2. QED
  BY <1>1, Invariance, PTL

\* Before a restart, a row that blocks its project is queued or in flight.
THEOREM LiveRows == Spec => []ActiveRowIsLiveUntilRestart
<1>1. IInv => ActiveRowIsLiveUntilRestart
  BY DEF IInv
<1>2. QED
  BY <1>1, Invariance, PTL

\* A launch that freed its slot wrote a verdict, on every path out of it.
THEOREM VerdictBeforeSlot == Spec => []SettledLaunchHasVerdict
<1>1. IInv => SettledLaunchHasVerdict
  BY DEF IInv, RowInv, SettledLaunchHasVerdict
<1>2. QED
  BY <1>1, Invariance, PTL

\* Without restarts and failed removals, only a launch that holds a slot has a
\* container: MAX_CONCURRENT_BUILDS bounds the containers.
THEOREM ContainersBounded == Spec => []ContainersHoldSlots
<1>1. IInv => ContainersHoldSlots
  BY DEF IInv, HolderInv, ContainersHoldSlots, InFlight, InTry
<1>2. QED
  BY <1>1, Invariance, PTL

\* A successful build's container exited with status 0 by itself.
THEOREM SuccessIsReal == Spec => []SuccessRanToTheEnd
<1>1. IInv => SuccessRanToTheEnd
  BY DEF IInv, ContainerInv, SuccessRanToTheEnd
<1>2. QED
  BY <1>1, Invariance, PTL

\* Cancel, failure, success and restart never overwrite a verdict.
THEOREM FinalVerdicts == Spec => VerdictIsFinal
<1>1. IInv /\ [Next]_vars =>
        [\A b \in Builds : status[b] \in Terminal => status'[b] = status[b]]_vars
  BY VerdictNext DEF IInv
<1>2. QED
  BY <1>1, Invariance, PTL DEF Spec, VerdictIsFinal

-----------------------------------------------------------------------------
(* The manager implements the board.                                       *)

LEMMA LaunchMoves ==
  ASSUME Types, NEW b \in Builds, at[b] \in InFlight, NEW to \in InFlight,
         at' = [at EXCEPT ![b] = to]
  PROVE  b \in Launches /\ Launches' = Launches
BY DEF Launches, Types

LEMMA BoardStutters ==
  ASSUME UNCHANGED <<status, appPath, Launches>>
  PROVE  [Board!Next]_(Board!boardVars)
BY DEF Board!boardVars

\* The instance renames the operators of FiniteSets along with its own.
LEMMA BoardCardinality == \A S : Board!Cardinality(S) = Cardinality(S)
BY Zenon DEF Board!Cardinality, Cardinality

LEMMA BoardInit == Init => Board!Init
BY DEF Init, Board!Init, Launches, InFlight, InTry, Attached

LEMMA BoardNext ==
  ASSUME IInv, [Next]_vars
  PROVE  [Board!Next]_(Board!boardVars)
<1> USE DEF memory, tables, IInv
<1>1. CASE UNCHANGED <<status, appPath, at>>
  BY <1>1, BoardStutters DEF Launches
<1>2. ASSUME NEW b \in Builds, NEW p \in Projects, NEW k \in Keystores \cup {None},
             StartBuild(b, p, k)
      PROVE  Board!Next
  <2>1. Board!Submit(b, p)
    BY <1>2 DEF StartBuild, ActiveBuildForAppPath, Board!Submit, Board!Open, Active, Launches
  <2>2. QED
    BY <2>1 DEF Board!Next
<1>3. ASSUME NEW b \in Builds, CancelBuild(b) PROVE [Board!Next]_(Board!boardVars)
  <2>1. CASE CancelQueued(b)
    <3>1. Board!Withdraw(b)
      BY <1>3, <2>1 DEF CancelBuild, CancelQueued, Board!Withdraw, Board!Move, Launches
    <3>2. QED
      BY <3>1 DEF Board!Next
  <2>2. CASE CancelLaunched(b)
    BY <1>1, <1>3, <2>2 DEF CancelBuild, CancelLaunched
  <2>3. QED
    BY <1>3, <2>1, <2>2 DEF CancelBuild
<1>4. ASSUME NEW k \in Keystores, UploadKeystore(k) \/ DeleteKeystore(k)
      PROVE  [Board!Next]_(Board!boardVars)
  BY <1>1, <1>4 DEF UploadKeystore, DeleteKeystore, SetKeystoreRow
<1>5. CASE ShiftCancelled \/ LoopEnds
  BY <1>1, <1>5 DEF ShiftCancelled, LoopEnds
<1>6. CASE ShiftAndLaunch
  <2> DEFINE b == Head(queue)
  <2>1. b \in Builds /\ at[b] = "none" /\ status[b] = "queued"
    BY <1>6 DEF ShiftAndLaunch, CanShift, QueueInv, Types
  <2>2. /\ at' = [at EXCEPT ![b] = at'[b]] /\ at'[b] \in {"creating", "settled"}
        /\ status' = [status EXCEPT ![b] = status'[b]]
        /\ status'[b] \in {"starting", "failed"}
        /\ appPath' = appPath
    BY <1>6, <2>1 DEF ShiftAndLaunch, LaunchBuild, Types
  <2>3. Board!Cardinality(Launches) < MaxConcurrent
    BY <1>6, BoardCardinality DEF ShiftAndLaunch, CanShift, SlotsMatchLaunches
  <2>4. Launches' = Launches \cup {b} /\ b \notin Launches
    BY <2>1, <2>2 DEF Launches, InFlight, InTry, Attached, Types
  <2> HIDE DEF b
  <2>5. Board!TakeSlot(b, "starting") \/ Board!TakeSlot(b, "failed")
    BY <2>1, <2>2, <2>3, <2>4 DEF Board!TakeSlot, Board!Move
  <2>6. QED
    BY <2>1, <2>5 DEF Board!Next
<1>7. ASSUME NEW answer \in {"ready", "rejected"}, VolumesAnswer(answer)
      PROVE  [Board!Next]_(Board!boardVars)
  BY <1>1, <1>7 DEF VolumesAnswer
<1>8. ASSUME NEW b \in Builds, LaunchStep(b) PROVE [Board!Next]_(Board!boardVars)
  <2>1. CASE Settle(b)
    <3>1. /\ at[b] = "settled" /\ at' = [at EXCEPT ![b] = "done"]
          /\ UNCHANGED <<status, appPath>>
      BY <2>1 DEF Settle
    <3>2. Launches' = Launches \ {b} /\ b \in Launches
      BY <3>1 DEF Launches, InFlight, InTry, Attached, Types
    <3>3. Board!Release(b)
      BY <3>1, <3>2 DEF RowInv, Terminal, Board!Release, Board!Closed
    <3>4. QED
      BY <3>3 DEF Board!Next
  <2>2. CASE ContainerCreated(b)
    <3>1. /\ at[b] = "creating" /\ at' = [at EXCEPT ![b] = "attaching"]
          /\ status' = [status EXCEPT ![b] = "running"] /\ appPath' = appPath
      BY <2>2 DEF ContainerCreated
    <3>2. b \in Launches /\ Launches' = Launches
      BY <3>1, LaunchMoves DEF InFlight, InTry, Attached
    <3>3. Board!Run(b)
      BY <3>1, <3>2 DEF RowInv, Board!Run, Board!Move
    <3>4. QED
      BY <3>3 DEF Board!Next
  <2>3. CASE CreateFails(b)
    <3>1. /\ at[b] = "creating" /\ at' = [at EXCEPT ![b] = "settled"]
          /\ status' = [status EXCEPT ![b] = "failed"] /\ appPath' = appPath
      BY <2>3 DEF CreateFails
    <3>2. b \in Launches /\ Launches' = Launches
      BY <3>1, LaunchMoves DEF InFlight, InTry, Attached
    <3>3. Board!Fail(b)
      BY <3>1, <3>2 DEF RowInv, Board!Fail, Board!Move
    <3>4. QED
      BY <3>3 DEF Board!Next
  <2>4. ASSUME NEW to \in InFlight, at[b] \in InFlight, at' = [at EXCEPT ![b] = to],
               UNCHANGED <<status, appPath>>
        PROVE  [Board!Next]_(Board!boardVars)
    BY <2>4, LaunchMoves, BoardStutters
  <2>5. CASE OutputAttached(b) \/ ContainerStarted(b) \/ StatsAttached(b)
             \/ WaitAnswersSuccess(b)
    BY <2>4, <2>5 DEF OutputAttached, ContainerStarted, StatsAttached,
                      WaitAnswersSuccess, Proceed, InFlight, InTry, Attached
  <2>6. ASSUME NEW verdict \in {"success", "failed", "cancelled"}, Conclude(b, verdict),
               at[b] \in InTry \cup {"measuring"}
        PROVE  Board!Next
    <3>1. /\ at' = [at EXCEPT ![b] = "removing"]
          /\ status' = [status EXCEPT ![b] = verdict] /\ appPath' = appPath
      BY <2>6 DEF Conclude
    <3>2. b \in Launches /\ Launches' = Launches
      BY <2>6, <3>1, LaunchMoves DEF InFlight
    <3>3. status[b] = "running"
      BY <2>6 DEF RowInv
    <3>4. Board!Fail(b) \/ Board!Finish(b, "success") \/ Board!Finish(b, "cancelled")
      BY <2>6, <3>1, <3>2, <3>3 DEF Board!Fail, Board!Finish, Board!Move
    <3>5. QED
      BY <3>4 DEF Board!Next
  <2>7. CASE DockerCallFails(b) \/ WaitAnswersCancelled(b) \/ WaitAnswersFailure(b)
             \/ MetricsAnswer(b, "success") \/ MetricsAnswer(b, "failed")
    BY <2>6, <2>7 DEF DockerCallFails, WaitAnswersCancelled, WaitAnswersFailure,
                      MetricsAnswer, InTry, Attached
  <2>8. CASE ContainerRemoved(b) \/ RemoveFails(b)
    BY <2>4, <2>8 DEF ContainerRemoved, RemoveFails, Remove, InFlight
  <2>9. CASE ArtifactLineArrives(b)
    BY <1>1, <2>9 DEF ArtifactLineArrives
  <2>10. QED
    BY <1>8, <2>1, <2>2, <2>3, <2>5, <2>7, <2>8, <2>9 DEF LaunchStep
<1>9. ASSUME NEW b \in Builds, ContainerStep(b) PROVE [Board!Next]_(Board!boardVars)
  BY <1>1, <1>9
     DEF ContainerStep, PrintsArtifact, ExitsZero, Dies, StopLands, ContainerBecomes
<1>10. CASE Restart
  <2>1. Board!Crash
    BY <1>10 DEF Restart, Board!Crash, Launches, InFlight, InTry, Attached
  <2>2. QED
    BY <2>1 DEF Board!Next
<1>11. CASE UNCHANGED vars
  BY <1>1, <1>11 DEF vars
<1>12. CASE Request
  BY <1>2, <1>3, <1>4, <1>12 DEF Request
<1>13. QED
  BY <1>5, <1>6, <1>7, <1>8, <1>9, <1>10, <1>11, <1>12
     DEF Next, ProcessQueue, WaitForRequests

\* Whatever the manager, Docker and restarts do, a user of the API sees a board
\* of builds that take one of MaxConcurrent slots and give it back with a verdict.
THEOREM ManagerImplementsBoard == Spec => ImplementsBoard
<1>1. IInv /\ [Next]_vars => [Board!Next]_(Board!boardVars)
  BY BoardNext
<1>2. QED
  BY <1>1, BoardInit, Invariance, PTL DEF Spec, ImplementsBoard, Board!Spec

=============================================================================
