--------------------------- MODULE CliBuildProofs ---------------------------
(* Theorems about CliBuild, for any number of invocations, containers and     *)
(* projects, whichever requests fail and however often ebl clean runs.        *)
EXTENDS CliBuild, TLAPS

(* A container's state and the place its script is at go together.            *)
ScriptInv ==
    \A r \in Runs :
        /\ container[r] \in {"none", "created"} => at[r] = "none"
        /\ container[r] = "running" => at[r] \in Steps /\ project[r] \in Projects
        /\ container[r] = "succeeded" => at[r] = "done"
        /\ container[r] \in {"failed", "killed"} => at[r] = "gone"
        /\ at[r] \in {"exit0", "done"} => r \in announced

Before == {"idle", "checking", "pulling", "creating"}

(* What main knows of its container and of the other two threads.             *)
ThreadsInv ==
    \A r \in Clis :
        /\ main[r] \in Before => container[r] = "none"
        /\ main[r] \in Before \cup {"created"} =>
               canceller[r] = "none" /\ attach[r] = "none" /\ waited[r] = "nothing"
        /\ main[r] # "idle" => project[r] \in Projects
        /\ main[r] = "created" => container[r] \in {"created", "removed"}
        /\ main[r] \in {"joining", "closing", "removing"} => waited[r] # "nothing"
        /\ main[r] = "removing" => canceller[r] = "over"
        /\ exitCode[r] # "none" <=> main[r] = "exited"
        /\ waited[r] # "nothing" => Stopped(r)
        /\ waited[r] = "zero" => at[r] = "done"
        /\ canceller[r] = "removed" => container[r] = "removed"
        /\ canceller[r] = "refused" => r \in faults
        /\ r \in artifactPath => r \in announced

(* A container goes away under an invocation, and an output ends without the  *)
(* artifact, only for one of these reasons.                                   *)
RemovedFor(r) == r \in faults \/ WasCancelled(r) \/ cleaner # "idle"

ReasonInv ==
    /\ doomed # {} => cleaner # "idle"
    /\ \A r \in Clis :
        /\ r \in doomed => container[r] # "none"
        /\ container[r] = "removed" /\ main[r] \notin {"exited", "interrupted", "died"} => RemovedFor(r)
        /\ waited[r] = "nonzero" /\ at[r] = "done" => RemovedFor(r)
        /\ main[r] \in {"closing", "removing"} => attach[r] \in {"over", "missed"}
        /\ attach[r] = "over" =>
               r \in faults \/ (Stopped(r) /\ (at[r] = "done" => r \in artifactPath))

(* What the exit status of an invocation says.                                *)
VerdictInv ==
    \A r \in Clis :
        /\ main[r] = "exited" => r \in faults \/ container[r] \in {"none", "removed"}
        /\ main[r] = "interrupted" => container[r] # "running"
        /\ exitCode[r] = "0" => waited[r] = "zero" /\ r \in artifactPath /\ canceller[r] = "over"
        /\ exitCode[r] = "1" /\ at[r] = "done" =>
               r \in faults \/ attach[r] = "missed" \/ cleaner # "idle"
        /\ exitCode[r] = "130" => canceller[r] \in {"removed", "refused"}
        /\ exitCode[r] = "134" => RemovedFor(r)

RunsOn(r, p) == container[r] = "running" /\ project[r] = p

(* At any moment the EXIT trap of the one script that runs would leave no     *)
(* secret behind.  That the script has a backup before it patches, and what   *)
(* the backup was taken of, is what it takes to keep this.                    *)
TrapUndoes(r, p) ==
    LET f == AfterCleanup(r, files[p])
    IN  "secret" \notin {f.credentials, f.androidKeys} /\ f.easJson # "local"

SecretsInv ==
    /\ \A r \in Runs :
        /\ container[r] \in {"none", "created"} => easJsonBackup[r] = "unset"
        /\ container[r] = "running" =>
            /\ at[r] \in {"prepare", "engine", "backup"} => easJsonBackup[r] = "unset"
            /\ at[r] \in {"credentials", "patchEasJson"} =>
                   easJsonBackup[r] # "unset" /\ r \in credentialsWritten
    /\ \A p \in Projects \ disturbed :
        /\ (\A r \in Runs : ~RunsOn(r, p)) => NoSecrets(p)
        /\ \A r \in Runs : RunsOn(r, p) =>
            /\ TrapUndoes(r, p)
            /\ \A s \in Runs : RunsOn(s, p) => s = r

IInv ==
    /\ CliTypeOK /\ ScriptInv /\ ThreadsInv /\ ReasonInv /\ VerdictInv /\ SecretsInv

-----------------------------------------------------------------------------
(* The script.                                                                *)

(* What a command of the script does to its container, whichever it is.       *)
LEMMA ScriptEffect ==
    ASSUME RunnerTypeOK, ScriptInv, NEW r \in Runs, ScriptStep(r)
    PROVE  /\ container[r] = "running"
           /\ \E c, a : /\ container' = [container EXCEPT ![r] = c]
                        /\ at' = [at EXCEPT ![r] = a]
                        /\ \/ c = "running" /\ a \in Steps
                           \/ c = "succeeded" /\ a = "done"
                           \/ c = "failed" /\ a = "gone"
                        /\ a \in {"exit0", "done"} => r \in announced'
           /\ announced \subseteq announced'
           /\ UNCHANGED <<project, option, disturbed>>
<1> DEFINE Effect(c, a) ==
      /\ container[r] = "running"
      /\ container' = [container EXCEPT ![r] = c]
      /\ at' = [at EXCEPT ![r] = a]
      /\ \/ c = "running" /\ a \in Steps
         \/ c = "succeeded" /\ a = "done"
         \/ c = "failed" /\ a = "gone"
      /\ a \in {"exit0", "done"} => r \in announced'
      /\ announced \subseteq announced'
      /\ UNCHANGED <<project, option, disturbed>>
<1> SUFFICES \E c, a : Effect(c, a)
  OBVIOUS
<1>1. CASE Exit(r)
  <2>1. CASE at[r] = "exit0"
    <3>1. Effect("succeeded", "done")
      BY <1>1, <2>1 DEF Exit, ScriptInv, script
    <3>2. QED
      BY <3>1
  <2>2. CASE at[r] = "exit1"
    <3>1. Effect("failed", "gone")
      BY <1>1, <2>2 DEF Exit, script
    <3>2. QED
      BY <3>1
  <2>3. QED
    BY <1>1, <2>1, <2>2 DEF Exit
<1>2. ASSUME NEW from, NEW to \in Steps, Command(r, from, to),
             announced \subseteq announced', to = "exit0" => r \in announced'
      PROVE  \E c, a : Effect(c, a)
  <2>1. container' = [container EXCEPT ![r] = "running"]
    BY <1>2 DEF Command, RunnerTypeOK
  <2>2. Effect("running", to)
    BY <1>2, <2>1 DEF Command, Steps
  <2>3. QED
    BY <2>2
<1>3. CASE Fails(r)
  BY <1>2, <1>3 DEF Fails, Steps, script
<1>4. CASE Prepare(r) \/ BuildWithEas(r) \/ PatchGradle(r) \/ BuildWithGradle(r)
  BY <1>2, <1>4 DEF Prepare, BuildWithEas, PatchGradle, BuildWithGradle, Steps, script
<1>5. CASE ResolveEngine(r)
  BY <1>2, <1>5 DEF ResolveEngine, Steps, script
<1>6. CASE BackUpEasJson(r) \/ BackUpFails(r) \/ WriteCredentials(r) \/ PatchEasJson(r)
  BY <1>2, <1>6 DEF BackUpEasJson, BackUpFails, WriteCredentials, PatchEasJson, Steps, script
<1>7. CASE Prebuild(r) \/ WriteAndroidKeys(r)
  BY <1>2, <1>7 DEF Prebuild, WriteAndroidKeys, Steps, script
<1>8. CASE ReadCounter(r) \/ WriteCounter(r) \/ CopyArtifact(r)
  BY <1>2, <1>8 DEF ReadCounter, WriteCounter, CopyArtifact, Steps
<1>9. QED
  BY <1>1, <1>3, <1>4, <1>5, <1>6, <1>7, <1>8 DEF ScriptStep

(* ... and to the files of its project.                                       *)
LEMMA ScriptTypes ==
    ASSUME RunnerTypeOK, ScriptInv, NEW r \in Runs, ScriptStep(r)
    PROVE  RunnerTypeOK'
<1>1. /\ container' \in [Runs -> {"none", "created", "running", "succeeded",
                                  "failed", "killed", "removed"}]
      /\ project' \in [Runs -> Projects \cup {NoProject}]
      /\ at' \in [Runs -> {"none", "done", "gone"} \cup Steps]
      /\ disturbed' \in SUBSET Projects
  BY ScriptEffect DEF RunnerTypeOK
<1>2. project[r] \in Projects
  BY ScriptEffect DEF ScriptInv
<1>3. /\ easJsonBackup' \in [Runs -> {"unset", "absent", "own", "local", "empty"}]
      /\ credentialsWritten' \in SUBSET Runs
      /\ buildNumber' \in [Runs -> Nat]
      /\ announced' \in SUBSET Runs
      /\ files' \in [Projects -> ProjectFiles]
      /\ counter' \in [Projects -> Nat]
  <2> USE <1>2 DEF RunnerTypeOK, ProjectFiles, script, shared
  <2>1. CASE Fails(r) \/ Prepare(r) \/ ResolveEngine(r) \/ BuildWithEas(r)
                 \/ PatchGradle(r) \/ BuildWithGradle(r)
    BY <2>1 DEF Fails, Prepare, ResolveEngine, BuildWithEas, PatchGradle, BuildWithGradle
  <2>2. CASE BackUpEasJson(r) \/ BackUpFails(r)
    BY <2>2 DEF BackUpEasJson, BackUpFails
  <2>3. CASE WriteCredentials(r)
    BY <2>3 DEF WriteCredentials
  <2>4. CASE PatchEasJson(r)
    BY <2>4 DEF PatchEasJson
  <2>5. CASE Prebuild(r)
    BY <2>5 DEF Prebuild
  <2>6. CASE WriteAndroidKeys(r)
    BY <2>6 DEF WriteAndroidKeys
  <2>7. CASE ReadCounter(r)
    BY <2>7 DEF ReadCounter
  <2>8. CASE WriteCounter(r)
    BY <2>8 DEF WriteCounter
  <2>9. CASE CopyArtifact(r)
    BY <2>9 DEF CopyArtifact
  <2>10. CASE Exit(r)
    <3>1. AfterCleanup(r, files[project[r]]) \in ProjectFiles
      BY DEF AfterCleanup
    <3>2. QED
      BY <2>10, <3>1 DEF Exit
  <2>11. QED
    BY <2>1, <2>2, <2>3, <2>4, <2>5, <2>6, <2>7, <2>10, <2>8, <2>9 DEF ScriptStep
<1>4. QED
  BY <1>1, <1>3 DEF RunnerTypeOK

(* The script touches its own project and its own backup, and from one        *)
(* command to the next its trap still undoes what it has written there.       *)
LEMMA ScriptSecrets ==
    ASSUME RunnerTypeOK, ScriptInv, SecretsInv, NEW r \in Runs, ScriptStep(r),
           NEW p \in Projects, p = project[r]
    PROVE  /\ \A s \in Runs \ {r} : /\ easJsonBackup'[s] = easJsonBackup[s]
                                    /\ s \in credentialsWritten' <=> s \in credentialsWritten
           /\ \A q \in Projects \ {p} : files'[q] = files[q]
           /\ container'[r] = "running" =>
                /\ TrapUndoes(r, p) => TrapUndoes(r, p)'
                /\ at'[r] \in {"prepare", "engine", "backup"} => easJsonBackup'[r] = "unset"
                /\ at'[r] \in {"credentials", "patchEasJson"} =>
                       easJsonBackup'[r] # "unset" /\ r \in credentialsWritten'
           /\ container'[r] # "running" /\ TrapUndoes(r, p) => NoSecrets(p)'
<1> USE DEF RunnerTypeOK, ProjectFiles, SecretsInv, TrapUndoes, AfterCleanup, Command, Steps,
            script, shared
<1>1. CASE Fails(r) \/ Prepare(r) \/ BuildWithEas(r) \/ PatchGradle(r) \/ BuildWithGradle(r)
  BY <1>1 DEF Fails, Prepare, BuildWithEas, PatchGradle, BuildWithGradle
<1>2. CASE ResolveEngine(r)
  BY <1>2 DEF ResolveEngine
<1>3. CASE BackUpEasJson(r)
  <2>1. TrapUndoes(r, p) => files[p].easJson # "local"
    BY <1>3 DEF BackUpEasJson
  <2>2. QED
    BY <1>3, <2>1 DEF BackUpEasJson
<1>4. CASE BackUpFails(r)
  BY <1>4 DEF BackUpFails
<1>5. CASE WriteCredentials(r)
  BY <1>5 DEF WriteCredentials
<1>6. CASE PatchEasJson(r)
  BY <1>6 DEF PatchEasJson
<1>7. CASE Prebuild(r)
  BY <1>7 DEF Prebuild
<1>8. CASE WriteAndroidKeys(r)
  BY <1>8 DEF WriteAndroidKeys
<1>9. CASE ReadCounter(r) \/ WriteCounter(r)
  BY <1>9 DEF ReadCounter, WriteCounter
<1>10. CASE CopyArtifact(r)
  BY <1>10 DEF CopyArtifact
<1>11. CASE Exit(r)
  BY <1>11 DEF Exit, NoSecrets
<1>12. QED
  BY <1>1, <1>2, <1>3, <1>4, <1>5, <1>6, <1>7, <1>8, <1>9, <1>10, <1>11 DEF ScriptStep

(* What waitContainer answers is what became of the script, unless the        *)
(* container has been removed.                                                *)
LEMMA Answers ==
    ASSUME CliTypeOK, ScriptInv, NEW r \in Clis, Stopped(r), NEW a \in WaitAnswers(r)
    PROVE  /\ a \in {"zero", "nonzero"}
           /\ a = "zero" => at[r] = "done"
           /\ a = "nonzero" => at[r] = "gone" \/ container[r] = "removed"
<1>1. container[r] \in {"succeeded", "failed", "killed", "removed"}
  BY CliAssumption DEF CliTypeOK, RunnerTypeOK, Stopped
<1>2. CASE container[r] = "succeeded"
  BY <1>2, CliAssumption DEF WaitAnswers, ScriptInv
<1>3. CASE container[r] \in {"failed", "killed"}
  BY <1>3, CliAssumption DEF WaitAnswers, ScriptInv
<1>4. CASE container[r] = "removed"
  BY <1>4 DEF WaitAnswers
<1>5. QED
  BY <1>1, <1>2, <1>3, <1>4

-----------------------------------------------------------------------------
(* The parts of the invariant, a step for each action.                        *)

(* No step leaves the types.                                                  *)
LEMMA TypesNext == IInv /\ [Next]_vars => CliTypeOK'
<1> SUFFICES ASSUME IInv, [Next]_vars PROVE CliTypeOK'
  OBVIOUS
<1> USE CliAssumption
      DEF IInv, CliTypeOK, RunnerTypeOK, ThreadsInv, ScriptInv, Steps, Goes,
          Exits, Aborts, Fault, runnerVars, script, shared, threads, cleanVars
<1>1. ASSUME NEW r \in Clis, NEW p \in Projects, Invoke(r, p)
      PROVE  CliTypeOK'
  BY <1>1, SMTT(30) DEF Invoke
<1>2. ASSUME NEW r \in Clis, CheckProject(r) \/ CheckFails(r)
      PROVE  CliTypeOK'
  BY <1>2, SMTT(30) DEF CheckProject, CheckFails
<1>3. ASSUME NEW r \in Clis, EnsureRunnerImage(r) \/ EnsureVolumeFails(r)
      PROVE  CliTypeOK'
  <2>1. runnerImage' \in BOOLEAN
    BY <1>3, Zenon DEF EnsureRunnerImage, EnsureVolumeFails
  <2>2. QED
    BY <1>3, <2>1 DEF EnsureRunnerImage, EnsureVolumeFails
<1>4. ASSUME NEW r \in Clis, CreateContainer(r) \/ CreateFails(r)
      PROVE  CliTypeOK'
  BY <1>4 DEF CreateContainer, CreateFails
<1>5. ASSUME NEW r \in Clis, WatchSignals(r)
      PROVE  CliTypeOK'
  BY <1>5 DEF WatchSignals
<1>6. ASSUME NEW r \in Clis, StartContainer(r) \/ StartFails(r)
      PROVE  CliTypeOK'
  BY <1>6, SMTT(30) DEF StartContainer, StartFails, Starts
<1>7. ASSUME NEW r \in Clis, WaitContainer(r) \/ WaitFails(r)
      PROVE  CliTypeOK'
  <2>1. waited' \in [Clis -> {"nothing", "zero", "nonzero"}]
    <3>1. CASE UNCHANGED waited
      BY <3>1
    <3>2. ASSUME NEW answer \in WaitAnswers(r), Stopped(r),
                 waited' = [waited EXCEPT ![r] = answer]
          PROVE  waited' \in [Clis -> {"nothing", "zero", "nonzero"}]
      BY <3>2, Answers
    <3>3. QED
      BY <1>7, <3>1, <3>2 DEF WaitContainer, WaitFails
  <2>2. QED
    BY <1>7, <2>1 DEF WaitContainer, WaitFails
<1>8. ASSUME NEW r \in Clis, JoinOutput(r) \/ JoinCanceller(r)
      PROVE  CliTypeOK'
  BY <1>8 DEF JoinOutput, JoinCanceller
<1>9. ASSUME NEW r \in Clis, RemoveAndReport(r) \/ RemoveFails(r)
      PROVE  CliTypeOK'
  <2>1. RunnerTypeOK'
    BY <1>9, SMTT(30) DEF RemoveAndReport, RemoveFails, Ends
  <2>2. QED
    BY <1>9, <2>1, SMTT(30) DEF RemoveAndReport, RemoveFails
<1>10. ASSUME NEW r \in Clis, Interrupt(r)
      PROVE  CliTypeOK'
  BY <1>10 DEF Interrupt
<1>11. ASSUME NEW r \in Clis, InterruptKills(r) \/ OtherSignalKills(r)
      PROVE  CliTypeOK'
  <2>1. Falls(r, "interrupted") \/ Falls(r, "died")
    BY <1>11 DEF InterruptKills, OtherSignalKills
  <2>2. RunnerTypeOK'
    <3> USE DEF Falls, Starts, Ends
    <3>1. container' \in [Runs -> {"none", "created", "running", "succeeded",
                                  "failed", "killed", "removed"}]
      BY <2>1
    <3>2. at' \in [Runs -> {"none", "done", "gone"} \cup Steps]
      BY <2>1
    <3>3. disturbed' \in SUBSET Projects
      BY <2>1
    <3>4. QED
      BY <2>1, <3>1, <3>2, <3>3
  <2>3. /\ main' \in [Clis -> {"idle", "checking", "pulling", "creating", "created",
                               "starting", "waiting", "joining", "closing", "removing",
                               "exited", "interrupted", "died"}]
        /\ canceller' \in [Clis -> {"none", "armed", "removing", "removed", "refused", "over"}]
        /\ attach' \in [Clis -> {"none", "connecting", "streaming", "late", "over", "missed"}]
    <3>1. /\ \E to \in {"interrupted", "died"} : main' = [main EXCEPT ![r] = to]
          /\ canceller' = [canceller EXCEPT ![r] = "none"]
          /\ attach' = [attach EXCEPT ![r] = "none"]
      BY <2>1 DEF Falls
    <3>2. QED
      BY <3>1
  <2>4. /\ signalled' \in SUBSET Clis /\ artifactPath' \in SUBSET Clis
        /\ waited' \in [Clis -> {"nothing", "zero", "nonzero"}]
    <3>1. /\ signalled' = signalled \ {r} /\ artifactPath' = artifactPath \ {r}
          /\ waited' = [waited EXCEPT ![r] = "nothing"]
      BY <2>1 DEF Falls
    <3>2. QED
      BY <3>1
  <2>5. UNCHANGED <<exitCode, faults, cleanVars>>
    BY <2>1 DEF Falls
  <2>6. QED
    BY <2>2, <2>3, <2>4, <2>5
<1>12. ASSUME NEW r \in Clis, TakeSignal(r) \/ CancellerStandsDown(r)
      PROVE  CliTypeOK'
  BY <1>12 DEF TakeSignal, CancellerStandsDown, Canceller
<1>13. ASSUME NEW r \in Clis, CancellerRemoves(r) \/ CancellerFails(r)
      PROVE  CliTypeOK'
  BY <1>13, SMTT(30) DEF CancellerRemoves, CancellerFails, Canceller, Ends
<1>14. ASSUME NEW r \in Clis, AttachOpens(r) \/ StreamEnds(r) \/ StreamBreaks(r)
      PROVE  CliTypeOK'
  BY <1>14 DEF AttachOpens, StreamEnds, StreamBreaks, Attach
<1>15. ASSUME NEW r \in Runs \ Clis, NEW p \in Projects, OrchestratorRuns(r, p)
      PROVE  CliTypeOK'
  BY <1>15 DEF OrchestratorRuns
<1>16. ASSUME NEW r \in Runs, ContainerStep(r)
      PROVE  CliTypeOK'
  <2>1. RunnerTypeOK'
    BY <1>16, ScriptTypes DEF ContainerStep
  <2>2. QED
    BY <1>16, <2>1 DEF ContainerStep
<1>17. ASSUME NEW r \in Runs, Killed(r), UNCHANGED <<threads, faults, cleanVars>>
      PROVE  CliTypeOK'
  BY <1>17 DEF Killed, Ends
<1>18. ASSUME ListBuildContainers \/ CleanImages
      PROVE  CliTypeOK'
  <2>1. runnerImage' \in BOOLEAN
    <3>1. CASE ListBuildContainers
      BY <3>1 DEF ListBuildContainers
    <3>2. CASE CleanImages
      BY <3>2, Zenon DEF CleanImages
    <3>3. QED
      BY <1>18, <3>1, <3>2
  <2>2. QED
    BY <1>18, <2>1 DEF ListBuildContainers, CleanImages, Clean
<1>19. ASSUME NEW r \in Clis, CleanRemoves(r)
      PROVE  CliTypeOK'
  BY <1>19 DEF CleanRemoves, Clean, Ends
<1>20. CASE UNCHANGED vars
  BY <1>20 DEF vars
<1>21. QED
  BY <1>1, <1>2, <1>3, <1>4, <1>5, <1>6, <1>7, <1>8, <1>9, <1>10, <1>11,
     <1>12, <1>13, <1>14, <1>15, <1>16, <1>17, <1>18, <1>19, <1>20
  DEF Next, MainAnswered, CancellerAnswered, AttachAnswered, RequestFails,
      CleanStep, Done

(* ScriptInv: main creates a container before anything can start it.          *)
LEMMA ScriptNext == IInv /\ [Next]_vars => ScriptInv'
<1> SUFFICES ASSUME IInv, [Next]_vars PROVE ScriptInv'
  OBVIOUS
<1> USE CliAssumption
      DEF IInv, CliTypeOK, RunnerTypeOK, ThreadsInv, ScriptInv, Before, Steps,
          Goes, runnerVars, script, shared, threads, cleanVars
<1>1. ASSUME NEW r \in Clis, NEW p \in Projects, Invoke(r, p)
      PROVE  ScriptInv'
  BY <1>1 DEF Invoke
<1>2. ASSUME NEW r \in Clis, CheckProject(r) \/ CheckFails(r)
      PROVE  ScriptInv'
  BY <1>2 DEF CheckProject, CheckFails
<1>3. ASSUME NEW r \in Clis, EnsureRunnerImage(r) \/ EnsureVolumeFails(r)
      PROVE  ScriptInv'
  BY <1>3 DEF EnsureRunnerImage, EnsureVolumeFails
<1>4. ASSUME NEW r \in Clis, CreateContainer(r) \/ CreateFails(r)
      PROVE  ScriptInv'
  <2>1. container[r] = "none" /\ at[r] = "none"
    BY <1>4 DEF CreateContainer, CreateFails, Exits
  <2>2. /\ container' = container \/ container' = [container EXCEPT ![r] = "created"]
        /\ UNCHANGED <<at, project, announced>>
    BY <1>4 DEF CreateContainer, CreateFails
  <2>3. QED
    BY <2>1, <2>2
<1>5. ASSUME NEW r \in Clis, WatchSignals(r)
      PROVE  ScriptInv'
  BY <1>5 DEF WatchSignals
<1>6. ASSUME NEW r \in Clis, StartContainer(r) \/ StartFails(r)
      PROVE  ScriptInv'
  BY <1>6 DEF StartContainer, StartFails, Starts
<1>7. ASSUME NEW r \in Clis, WaitContainer(r) \/ WaitFails(r)
      PROVE  ScriptInv'
  BY <1>7, Answers DEF WaitContainer, WaitFails
<1>8. ASSUME NEW r \in Clis, JoinOutput(r) \/ JoinCanceller(r)
      PROVE  ScriptInv'
  BY <1>8 DEF JoinOutput, JoinCanceller
<1>9. ASSUME NEW r \in Clis, RemoveAndReport(r) \/ RemoveFails(r)
      PROVE  ScriptInv'
  BY <1>9 DEF RemoveAndReport, RemoveFails, Ends
<1>10. ASSUME NEW r \in Clis, Interrupt(r)
      PROVE  ScriptInv'
  BY <1>10 DEF Interrupt
<1>11. ASSUME NEW r \in Clis, InterruptKills(r) \/ OtherSignalKills(r)
      PROVE  ScriptInv'
  BY <1>11 DEF InterruptKills, OtherSignalKills, Falls, Alive, HandlesSignals, Starts, Ends
<1>12. ASSUME NEW r \in Clis, TakeSignal(r) \/ CancellerStandsDown(r)
      PROVE  ScriptInv'
  BY <1>12 DEF TakeSignal, CancellerStandsDown, Canceller
<1>13. ASSUME NEW r \in Clis, CancellerRemoves(r) \/ CancellerFails(r)
      PROVE  ScriptInv'
  BY <1>13 DEF CancellerRemoves, CancellerFails, Canceller, Ends
<1>14. ASSUME NEW r \in Clis, AttachOpens(r) \/ StreamEnds(r) \/ StreamBreaks(r)
      PROVE  ScriptInv'
  BY <1>14 DEF AttachOpens, StreamEnds, StreamBreaks, Attach
<1>15. ASSUME NEW r \in Runs \ Clis, NEW p \in Projects, OrchestratorRuns(r, p)
      PROVE  ScriptInv'
  BY <1>15 DEF OrchestratorRuns
<1>16. ASSUME NEW r \in Runs, ContainerStep(r)
      PROVE  ScriptInv'
  BY <1>16, ScriptEffect DEF ContainerStep
<1>17. ASSUME NEW r \in Runs, Killed(r), UNCHANGED <<threads, faults, cleanVars>>
      PROVE  ScriptInv'
  BY <1>17 DEF Killed, Ends
<1>18. ASSUME ListBuildContainers \/ CleanImages
      PROVE  ScriptInv'
  BY <1>18 DEF ListBuildContainers, CleanImages, Clean
<1>19. ASSUME NEW r \in Clis, CleanRemoves(r)
      PROVE  ScriptInv'
  BY <1>19 DEF CleanRemoves, Clean, Ends
<1>20. CASE UNCHANGED vars
  BY <1>20 DEF vars
<1>21. QED
  BY <1>1, <1>2, <1>3, <1>4, <1>5, <1>6, <1>7, <1>8, <1>9, <1>10, <1>11,
     <1>12, <1>13, <1>14, <1>15, <1>16, <1>17, <1>18, <1>19, <1>20
  DEF Next, MainAnswered, CancellerAnswered, AttachAnswered, RequestFails,
      CleanStep, Done

(* ThreadsInv: what stops or removes a container does not undo an answer.    *)
LEMMA ThreadsNext == IInv /\ [Next]_vars => ThreadsInv'
<1> SUFFICES ASSUME IInv, [Next]_vars PROVE ThreadsInv'
  OBVIOUS
<1> USE CliAssumption
      DEF IInv, CliTypeOK, RunnerTypeOK, ThreadsInv, ScriptInv, ReasonInv,
          Before, Steps, Stopped, WasCancelled, Goes, Exits, Aborts, Fault,
          runnerVars, script, shared, threads, cleanVars
<1>1. ASSUME NEW r \in Clis, NEW p \in Projects, Invoke(r, p)
      PROVE  ThreadsInv'
  BY <1>1 DEF Invoke
<1>2. ASSUME NEW r \in Clis, CheckProject(r) \/ CheckFails(r)
      PROVE  ThreadsInv'
  BY <1>2 DEF CheckProject, CheckFails
<1>3. ASSUME NEW r \in Clis, EnsureRunnerImage(r) \/ EnsureVolumeFails(r)
      PROVE  ThreadsInv'
  BY <1>3 DEF EnsureRunnerImage, EnsureVolumeFails
<1>4. ASSUME NEW r \in Clis, CreateContainer(r) \/ CreateFails(r)
      PROVE  ThreadsInv'
  BY <1>4 DEF CreateContainer, CreateFails
<1>5. ASSUME NEW r \in Clis, WatchSignals(r)
      PROVE  ThreadsInv'
  BY <1>5 DEF WatchSignals
<1>6. ASSUME NEW r \in Clis, StartContainer(r) \/ StartFails(r)
      PROVE  ThreadsInv'
  BY <1>6 DEF StartContainer, StartFails, Starts
<1>7. ASSUME NEW r \in Clis, WaitContainer(r) \/ WaitFails(r)
      PROVE  ThreadsInv'
  BY <1>7, Answers DEF WaitContainer, WaitFails
<1>8. ASSUME NEW r \in Clis, JoinOutput(r) \/ JoinCanceller(r)
      PROVE  ThreadsInv'
  BY <1>8 DEF JoinOutput, JoinCanceller
<1>9. ASSUME NEW r \in Clis, RemoveAndReport(r) \/ RemoveFails(r)
      PROVE  ThreadsInv'
  BY <1>9 DEF RemoveAndReport, RemoveFails, Ends
<1>10. ASSUME NEW r \in Clis, Interrupt(r)
      PROVE  ThreadsInv'
  BY <1>10 DEF Interrupt
<1>11. ASSUME NEW r \in Clis, InterruptKills(r) \/ OtherSignalKills(r)
      PROVE  ThreadsInv'
  BY <1>11 DEF InterruptKills, OtherSignalKills, Falls, Alive, HandlesSignals, Starts, Ends
<1>12. ASSUME NEW r \in Clis, TakeSignal(r) \/ CancellerStandsDown(r)
      PROVE  ThreadsInv'
  BY <1>12 DEF TakeSignal, CancellerStandsDown, Canceller
<1>13. ASSUME NEW r \in Clis, CancellerRemoves(r) \/ CancellerFails(r)
      PROVE  ThreadsInv'
  BY <1>13 DEF CancellerRemoves, CancellerFails, Canceller, Ends
<1>14. ASSUME NEW r \in Clis, AttachOpens(r) \/ StreamEnds(r) \/ StreamBreaks(r)
      PROVE  ThreadsInv'
  BY <1>14 DEF AttachOpens, StreamEnds, StreamBreaks, Attach
<1>15. ASSUME NEW r \in Runs \ Clis, NEW p \in Projects, OrchestratorRuns(r, p)
      PROVE  ThreadsInv'
  BY <1>15 DEF OrchestratorRuns
<1>16. ASSUME NEW r \in Runs, ContainerStep(r)
      PROVE  ThreadsInv'
  BY <1>16, ScriptEffect DEF ContainerStep
<1>17. ASSUME NEW r \in Runs, Killed(r), UNCHANGED <<threads, faults, cleanVars>>
      PROVE  ThreadsInv'
  BY <1>17 DEF Killed, Ends
<1>18. ASSUME ListBuildContainers \/ CleanImages
      PROVE  ThreadsInv'
  BY <1>18 DEF ListBuildContainers, CleanImages, Clean
<1>19. ASSUME NEW r \in Clis, CleanRemoves(r)
      PROVE  ThreadsInv'
  BY <1>19 DEF CleanRemoves, Clean, Ends
<1>20. CASE UNCHANGED vars
  BY <1>20 DEF vars
<1>21. QED
  BY <1>1, <1>2, <1>3, <1>4, <1>5, <1>6, <1>7, <1>8, <1>9, <1>10, <1>11,
     <1>12, <1>13, <1>14, <1>15, <1>16, <1>17, <1>18, <1>19, <1>20
  DEF Next, MainAnswered, CancellerAnswered, AttachAnswered, RequestFails,
      CleanStep, Done

(* ReasonInv: only cancelWatcher, ebl clean and main itself remove.           *)
LEMMA ReasonNext == IInv /\ [Next]_vars => ReasonInv'
<1> SUFFICES ASSUME IInv, [Next]_vars PROVE ReasonInv'
  OBVIOUS
<1> USE CliAssumption
      DEF IInv, CliTypeOK, RunnerTypeOK, ThreadsInv, ScriptInv, ReasonInv,
          RemovedFor, Before, Steps, Stopped, WasCancelled, Goes, Exits,
          Aborts, Fault, runnerVars, script, shared, threads, cleanVars
<1>1. ASSUME NEW r \in Clis, NEW p \in Projects, Invoke(r, p)
      PROVE  ReasonInv'
  BY <1>1 DEF Invoke
<1>2. ASSUME NEW r \in Clis, CheckProject(r) \/ CheckFails(r)
      PROVE  ReasonInv'
  BY <1>2 DEF CheckProject, CheckFails
<1>3. ASSUME NEW r \in Clis, EnsureRunnerImage(r) \/ EnsureVolumeFails(r)
      PROVE  ReasonInv'
  BY <1>3 DEF EnsureRunnerImage, EnsureVolumeFails
<1>4. ASSUME NEW r \in Clis, CreateContainer(r) \/ CreateFails(r)
      PROVE  ReasonInv'
  BY <1>4 DEF CreateContainer, CreateFails
<1>5. ASSUME NEW r \in Clis, WatchSignals(r)
      PROVE  ReasonInv'
  BY <1>5 DEF WatchSignals
<1>6. ASSUME NEW r \in Clis, StartContainer(r) \/ StartFails(r)
      PROVE  ReasonInv'
  BY <1>6 DEF StartContainer, StartFails, Starts
<1>7. ASSUME NEW r \in Clis, WaitContainer(r) \/ WaitFails(r)
      PROVE  ReasonInv'
  BY <1>7, Answers DEF WaitContainer, WaitFails
<1>8. ASSUME NEW r \in Clis, JoinOutput(r) \/ JoinCanceller(r)
      PROVE  ReasonInv'
  BY <1>8 DEF JoinOutput, JoinCanceller
<1>9. ASSUME NEW r \in Clis, RemoveAndReport(r) \/ RemoveFails(r)
      PROVE  ReasonInv'
  BY <1>9 DEF RemoveAndReport, RemoveFails, Ends
<1>10. ASSUME NEW r \in Clis, Interrupt(r)
      PROVE  ReasonInv'
  BY <1>10 DEF Interrupt
<1>11. ASSUME NEW r \in Clis, InterruptKills(r) \/ OtherSignalKills(r)
      PROVE  ReasonInv'
  BY <1>11 DEF InterruptKills, OtherSignalKills, Falls, Alive, HandlesSignals, Starts, Ends
<1>12. ASSUME NEW r \in Clis, TakeSignal(r) \/ CancellerStandsDown(r)
      PROVE  ReasonInv'
  BY <1>12 DEF TakeSignal, CancellerStandsDown, Canceller
<1>13. ASSUME NEW r \in Clis, CancellerRemoves(r) \/ CancellerFails(r)
      PROVE  ReasonInv'
  BY <1>13 DEF CancellerRemoves, CancellerFails, Canceller, Ends
<1>14. ASSUME NEW r \in Clis, AttachOpens(r) \/ StreamEnds(r) \/ StreamBreaks(r)
      PROVE  ReasonInv'
  BY <1>14, SMTT(30) DEF AttachOpens, StreamEnds, StreamBreaks, Attach
<1>15. ASSUME NEW r \in Runs \ Clis, NEW p \in Projects, OrchestratorRuns(r, p)
      PROVE  ReasonInv'
  BY <1>15 DEF OrchestratorRuns
<1>16. ASSUME NEW r \in Runs, ContainerStep(r)
      PROVE  ReasonInv'
  BY <1>16, ScriptEffect DEF ContainerStep
<1>17. ASSUME NEW r \in Runs, Killed(r), UNCHANGED <<threads, faults, cleanVars>>
      PROVE  ReasonInv'
  BY <1>17 DEF Killed, Ends
<1>18. ASSUME ListBuildContainers \/ CleanImages
      PROVE  ReasonInv'
  BY <1>18 DEF ListBuildContainers, CleanImages, Clean
<1>19. ASSUME NEW r \in Clis, CleanRemoves(r)
      PROVE  ReasonInv'
  BY <1>19 DEF CleanRemoves, Clean, Ends
<1>20. CASE UNCHANGED vars
  BY <1>20 DEF vars
<1>21. QED
  BY <1>1, <1>2, <1>3, <1>4, <1>5, <1>6, <1>7, <1>8, <1>9, <1>10, <1>11,
     <1>12, <1>13, <1>14, <1>15, <1>16, <1>17, <1>18, <1>19, <1>20
  DEF Next, MainAnswered, CancellerAnswered, AttachAnswered, RequestFails,
      CleanStep, Done

(* VerdictInv: each way out of runBuild, and nothing changes a verdict later. *)
LEMMA VerdictNext == IInv /\ [Next]_vars => VerdictInv'
<1> SUFFICES ASSUME IInv, [Next]_vars PROVE VerdictInv'
  OBVIOUS
<1> USE CliAssumption
      DEF IInv, CliTypeOK, RunnerTypeOK, ThreadsInv, ScriptInv, ReasonInv,
          VerdictInv, RemovedFor, Before, Steps, Stopped, WasCancelled,
          Succeeded, Goes, Exits, Aborts, Fault, runnerVars, script, shared,
          threads, cleanVars
<1>1. ASSUME NEW r \in Clis, NEW p \in Projects, Invoke(r, p)
      PROVE  VerdictInv'
  BY <1>1 DEF Invoke
<1>2. ASSUME NEW r \in Clis, CheckProject(r) \/ CheckFails(r)
      PROVE  VerdictInv'
  BY <1>2 DEF CheckProject, CheckFails
<1>3. ASSUME NEW r \in Clis, EnsureRunnerImage(r) \/ EnsureVolumeFails(r)
      PROVE  VerdictInv'
  BY <1>3 DEF EnsureRunnerImage, EnsureVolumeFails
<1>4. ASSUME NEW r \in Clis, CreateContainer(r) \/ CreateFails(r)
      PROVE  VerdictInv'
  BY <1>4 DEF CreateContainer, CreateFails
<1>5. ASSUME NEW r \in Clis, WatchSignals(r)
      PROVE  VerdictInv'
  BY <1>5 DEF WatchSignals
<1>6. ASSUME NEW r \in Clis, StartContainer(r) \/ StartFails(r)
      PROVE  VerdictInv'
  BY <1>6 DEF StartContainer, StartFails, Starts
<1>7. ASSUME NEW r \in Clis, WaitContainer(r) \/ WaitFails(r)
      PROVE  VerdictInv'
  BY <1>7, Answers DEF WaitContainer, WaitFails
<1>8. ASSUME NEW r \in Clis, JoinOutput(r) \/ JoinCanceller(r)
      PROVE  VerdictInv'
  BY <1>8 DEF JoinOutput, JoinCanceller
<1>9. ASSUME NEW r \in Clis, RemoveAndReport(r) \/ RemoveFails(r)
      PROVE  VerdictInv'
  BY <1>9 DEF RemoveAndReport, RemoveFails, Ends
<1>10. ASSUME NEW r \in Clis, Interrupt(r)
      PROVE  VerdictInv'
  BY <1>10 DEF Interrupt
<1>11. ASSUME NEW r \in Clis, InterruptKills(r) \/ OtherSignalKills(r)
      PROVE  VerdictInv'
  BY <1>11 DEF InterruptKills, OtherSignalKills, Falls, Alive, HandlesSignals, Starts, Ends
<1>12. ASSUME NEW r \in Clis, TakeSignal(r) \/ CancellerStandsDown(r)
      PROVE  VerdictInv'
  BY <1>12 DEF TakeSignal, CancellerStandsDown, Canceller
<1>13. ASSUME NEW r \in Clis, CancellerRemoves(r) \/ CancellerFails(r)
      PROVE  VerdictInv'
  BY <1>13 DEF CancellerRemoves, CancellerFails, Canceller, Ends
<1>14. ASSUME NEW r \in Clis, AttachOpens(r) \/ StreamEnds(r) \/ StreamBreaks(r)
      PROVE  VerdictInv'
  BY <1>14 DEF AttachOpens, StreamEnds, StreamBreaks, Attach
<1>15. ASSUME NEW r \in Runs \ Clis, NEW p \in Projects, OrchestratorRuns(r, p)
      PROVE  VerdictInv'
  BY <1>15 DEF OrchestratorRuns
<1>16. ASSUME NEW r \in Runs, ContainerStep(r)
      PROVE  VerdictInv'
  BY <1>16, ScriptEffect DEF ContainerStep
<1>17. ASSUME NEW r \in Runs, Killed(r), UNCHANGED <<threads, faults, cleanVars>>
      PROVE  VerdictInv'
  BY <1>17 DEF Killed, Ends
<1>18. ASSUME ListBuildContainers \/ CleanImages
      PROVE  VerdictInv'
  BY <1>18 DEF ListBuildContainers, CleanImages, Clean
<1>19. ASSUME NEW r \in Clis, CleanRemoves(r)
      PROVE  VerdictInv'
  BY <1>19 DEF CleanRemoves, Clean, Ends
<1>20. CASE UNCHANGED vars
  BY <1>20 DEF vars
<1>21. QED
  BY <1>1, <1>2, <1>3, <1>4, <1>5, <1>6, <1>7, <1>8, <1>9, <1>10, <1>11,
     <1>12, <1>13, <1>14, <1>15, <1>16, <1>17, <1>18, <1>19, <1>20
  DEF Next, MainAnswered, CancellerAnswered, AttachAnswered, RequestFails,
      CleanStep, Done

(* SecretsInv: a script that starts where another runs, and any that is ended  *)
(* from outside, disturbs its project.                                        *)
LEMMA SecretsNext == IInv /\ [Next]_vars => SecretsInv'
<1> SUFFICES ASSUME IInv, [Next]_vars PROVE SecretsInv'
  OBVIOUS
<1> USE CliAssumption
      DEF IInv, CliTypeOK, RunnerTypeOK, ThreadsInv, ScriptInv, SecretsInv,
          RunsOn, TrapUndoes, NoSecrets, AfterCleanup, Before, Steps, Stopped,
          Goes, RunningOn, runnerVars, script, shared, threads, cleanVars
<1>1. ASSUME NEW r \in Clis, NEW p \in Projects, Invoke(r, p)
      PROVE  SecretsInv'
  <2>1. container[r] = "none"
    BY <1>1 DEF Invoke, Exits
  <2>2. \A s \in Runs, q \in Projects : RunsOn(s, q)' <=> RunsOn(s, q)
    BY <1>1, <2>1 DEF Invoke
  <2>3. UNCHANGED <<container, at, easJsonBackup, credentialsWritten, files, disturbed>>
    BY <1>1 DEF Invoke
  <2>4. QED
    BY <2>2, <2>3
<1>2. ASSUME NEW r \in Clis, CheckProject(r) \/ CheckFails(r)
      PROVE  SecretsInv'
  BY <1>2 DEF CheckProject, CheckFails
<1>3. ASSUME NEW r \in Clis, EnsureRunnerImage(r) \/ EnsureVolumeFails(r)
      PROVE  SecretsInv'
  BY <1>3 DEF EnsureRunnerImage, EnsureVolumeFails
<1>4. ASSUME NEW r \in Clis, CreateContainer(r) \/ CreateFails(r)
      PROVE  SecretsInv'
  <2>1. container[r] = "none"
    BY <1>4 DEF CreateContainer, CreateFails, Exits
  <2>2. container' = container \/ container' = [container EXCEPT ![r] = "created"]
    BY <1>4 DEF CreateContainer, CreateFails
  <2>3. UNCHANGED <<at, project, easJsonBackup, credentialsWritten, files, disturbed>>
    BY <1>4 DEF CreateContainer, CreateFails
  <2>4. \A s \in Runs, q \in Projects : RunsOn(s, q)' <=> RunsOn(s, q)
    BY <2>1, <2>2, <2>3
  <2>5. QED
    BY <2>1, <2>2, <2>3, <2>4
<1>5. ASSUME NEW r \in Clis, WatchSignals(r)
      PROVE  SecretsInv'
  BY <1>5 DEF WatchSignals
<1>6. ASSUME NEW r \in Clis, StartContainer(r) \/ StartFails(r)
      PROVE  SecretsInv'
  BY <1>6 DEF StartContainer, StartFails, Starts
<1>7. ASSUME NEW r \in Clis, WaitContainer(r) \/ WaitFails(r)
      PROVE  SecretsInv'
  BY <1>7, Answers DEF WaitContainer, WaitFails
<1>8. ASSUME NEW r \in Clis, JoinOutput(r) \/ JoinCanceller(r)
      PROVE  SecretsInv'
  BY <1>8 DEF JoinOutput, JoinCanceller
<1>9. ASSUME NEW r \in Clis, RemoveAndReport(r) \/ RemoveFails(r)
      PROVE  SecretsInv'
  BY <1>9 DEF RemoveAndReport, RemoveFails, Ends
<1>10. ASSUME NEW r \in Clis, Interrupt(r)
      PROVE  SecretsInv'
  BY <1>10 DEF Interrupt
<1>11. ASSUME NEW r \in Clis, InterruptKills(r) \/ OtherSignalKills(r)
      PROVE  SecretsInv'
  BY <1>11 DEF InterruptKills, OtherSignalKills, Falls, Alive, HandlesSignals, Starts, Ends
<1>12. ASSUME NEW r \in Clis, TakeSignal(r) \/ CancellerStandsDown(r)
      PROVE  SecretsInv'
  BY <1>12 DEF TakeSignal, CancellerStandsDown, Canceller
<1>13. ASSUME NEW r \in Clis, CancellerRemoves(r) \/ CancellerFails(r)
      PROVE  SecretsInv'
  BY <1>13 DEF CancellerRemoves, CancellerFails, Canceller, Ends
<1>14. ASSUME NEW r \in Clis, AttachOpens(r) \/ StreamEnds(r) \/ StreamBreaks(r)
      PROVE  SecretsInv'
  BY <1>14 DEF AttachOpens, StreamEnds, StreamBreaks, Attach
<1>15. ASSUME NEW r \in Runs \ Clis, NEW p \in Projects, OrchestratorRuns(r, p)
      PROVE  SecretsInv'
  BY <1>15 DEF OrchestratorRuns
<1>16. ASSUME NEW r \in Runs, ContainerStep(r)
      PROVE  SecretsInv'
  <2>1. ScriptStep(r)
    BY <1>16 DEF ContainerStep
  <2>2. /\ container[r] = "running" /\ project[r] \in Projects
        /\ UNCHANGED <<project, disturbed>>
        /\ \A s \in Runs \ {r} : container'[s] = container[s] /\ at'[s] = at[s]
        /\ container'[r] \in {"running", "succeeded", "failed"}
    BY <2>1, ScriptEffect
  <2>3. PICK p \in Projects : p = project[r]
    BY <2>2
  <2>4. /\ \A s \in Runs \ {r} : /\ easJsonBackup'[s] = easJsonBackup[s]
                                 /\ s \in credentialsWritten' <=> s \in credentialsWritten
        /\ \A q \in Projects \ {p} : files'[q] = files[q]
        /\ container'[r] = "running" =>
             /\ TrapUndoes(r, p) => TrapUndoes(r, p)'
             /\ at'[r] \in {"prepare", "engine", "backup"} => easJsonBackup'[r] = "unset"
             /\ at'[r] \in {"credentials", "patchEasJson"} =>
                    easJsonBackup'[r] # "unset" /\ r \in credentialsWritten'
        /\ container'[r] # "running" /\ TrapUndoes(r, p) => NoSecrets(p)'
    BY <2>1, <2>3, ScriptSecrets
  <2>5. ASSUME NEW q \in Projects \ disturbed', q # p
        PROVE  /\ (\A s \in Runs : ~RunsOn(s, q)') => NoSecrets(q)'
               /\ \A s \in Runs : RunsOn(s, q)' =>
                   TrapUndoes(s, q)' /\ \A s2 \in Runs : RunsOn(s2, q)' => s2 = s
    BY <2>2, <2>3, <2>4, <2>5
  <2>6. ASSUME p \notin disturbed'
        PROVE  /\ (\A s \in Runs : ~RunsOn(s, p)') => NoSecrets(p)'
               /\ \A s \in Runs : RunsOn(s, p)' =>
                   TrapUndoes(s, p)' /\ \A s2 \in Runs : RunsOn(s2, p)' => s2 = s
    <3>1. RunsOn(r, p) /\ TrapUndoes(r, p) /\ \A s \in Runs : RunsOn(s, p) => s = r
      BY <2>2, <2>3, <2>6
    <3>2. \A s \in Runs : RunsOn(s, p)' => s = r /\ container'[r] = "running"
      BY <3>1, <2>2
    <3>3. RunsOn(r, p)' \/ container'[r] # "running"
      BY <2>2, <2>3
    <3>4. QED
      BY <3>1, <3>2, <3>3, <2>4
  <2>7. /\ \A s \in Runs : container'[s] \in {"none", "created"} => easJsonBackup'[s] = "unset"
        /\ \A s \in Runs : container'[s] = "running" =>
             /\ at'[s] \in {"prepare", "engine", "backup"} => easJsonBackup'[s] = "unset"
             /\ at'[s] \in {"credentials", "patchEasJson"} =>
                    easJsonBackup'[s] # "unset" /\ s \in credentialsWritten'
    BY <2>2, <2>4
  <2>8. QED
    BY <2>5, <2>6, <2>7
<1>17. ASSUME NEW r \in Runs, Killed(r), UNCHANGED <<threads, faults, cleanVars>>
      PROVE  SecretsInv'
  BY <1>17 DEF Killed, Ends
<1>18. ASSUME ListBuildContainers \/ CleanImages
      PROVE  SecretsInv'
  BY <1>18 DEF ListBuildContainers, CleanImages, Clean
<1>19. ASSUME NEW r \in Clis, CleanRemoves(r)
      PROVE  SecretsInv'
  BY <1>19 DEF CleanRemoves, Clean, Ends
<1>20. CASE UNCHANGED vars
  BY <1>20 DEF vars
<1>21. QED
  BY <1>1, <1>2, <1>3, <1>4, <1>5, <1>6, <1>7, <1>8, <1>9, <1>10, <1>11,
     <1>12, <1>13, <1>14, <1>15, <1>16, <1>17, <1>18, <1>19, <1>20
  DEF Next, MainAnswered, CancellerAnswered, AttachAnswered, RequestFails,
      CleanStep, Done

-----------------------------------------------------------------------------
(* Before the first command no container exists and no file is a secret.      *)
LEMMA InitIInv == Init => IInv
<1> SUFFICES ASSUME Init PROVE IInv
  OBVIOUS
<1> USE CliAssumption DEF Init, RunnerInit
<1>1. CliTypeOK
  BY RunnerAssumption DEF CliTypeOK, RunnerTypeOK
<1>2. ScriptInv /\ ThreadsInv /\ ReasonInv /\ VerdictInv
  BY DEF ScriptInv, ThreadsInv, ReasonInv, VerdictInv, Before, Stopped, WasCancelled
<1>3. SecretsInv
  BY RunnerAssumption DEF SecretsInv, RunsOn, NoSecrets, ProjectFiles
<1>4. QED
  BY <1>1, <1>2, <1>3 DEF IInv

(* Each part was shown to hold after a step from all of them.                 *)
LEMMA NextIInv == IInv /\ [Next]_vars => IInv'
  BY TypesNext, ScriptNext, ThreadsNext, ReasonNext, VerdictNext, SecretsNext DEF IInv

(* Whatever ebl, Docker and the script do, in whatever order.                 *)
LEMMA Invariance == Spec => []IInv
  BY InitIInv, NextIInv, PTL DEF Spec

(* Every variable keeps its type: in particular what the trap moves back over *)
(* eas.json (build-entrypoint.sh, cleanup) is always a file that was backed   *)
(* up, never a missing one.                                                   *)
THEOREM CliTypeCorrect == Spec => []CliTypeOK
<1>1. IInv => CliTypeOK
  BY DEF IInv
<1>2. QED
  BY <1>1, Invariance, PTL

(* Of an ebl build that ends by itself no container is left, and of one that   *)
(* SIGINT or SIGTERM ends, at whatever moment, none is left running, if Docker *)
(* answered every request of it (build.cpp, runBuild and cancelWatcher).       *)
(* Signals that build.cpp does not handle are another matter: of these the     *)
(* container survives, and NeverLeftRunning is false.                          *)
THEOREM NoOrphanIsLeft == Spec => []NoOrphan
<1>1. IInv => NoOrphan
  BY CliAssumption DEF IInv, VerdictInv, NoOrphan
<1>2. QED
  BY <1>1, Invariance, PTL

(* Exit status 0 of ebl build: the script ran to its end, named the artifact, *)
(* and nobody cancelled (build.cpp, runBuild).                                *)
THEOREM SuccessMeansComplete == Spec => []SuccessIsComplete
<1>1. IInv => SuccessIsComplete
  BY CliAssumption DEF IInv, ThreadsInv, VerdictInv, SuccessIsComplete, WasCancelled
<1>2. QED
  BY <1>1, Invariance, PTL

(* A script that ran to its end is reported as a failure only if a request    *)
(* failed, the attach came too late, or ebl clean interfered.                 *)
THEOREM CompletedMeansReported == Spec => []CompletedBuildIsReported
<1>1. IInv => CompletedBuildIsReported
  BY DEF IInv, VerdictInv, CompletedBuildIsReported
<1>2. QED
  BY <1>1, Invariance, PTL

(* Exit status 130 of ebl build: the container is gone, or the user was told  *)
(* to remove it (build.cpp, cancelWatcher).                                   *)
THEOREM CancelledMeansGone == Spec => []CancelledMeansStopped
<1>1. IInv => CancelledMeansStopped
  BY DEF IInv, ThreadsInv, VerdictInv, CancelledMeansStopped
<1>2. QED
  BY <1>1, Invariance, PTL

(* std::terminate ends ebl build only after a failed request, a cancel, or a  *)
(* removal by ebl clean (build.cpp, the threads that runBuild joins).         *)
THEOREM AbortsOnlyWithReason == Spec => []AbortsWithReason
<1>1. IInv => AbortsWithReason
  BY DEF IInv, VerdictInv, AbortsWithReason, RemovedFor
<1>2. QED
  BY <1>1, Invariance, PTL

(* As long as no container of a project is killed or overlaps with another,   *)
(* the EXIT trap takes every signing secret back, wherever the script fails   *)
(* (build-entrypoint.sh, cleanup).                                            *)
THEOREM SecretsAreRemoved == Spec => []SecretsRemoved
<1>1. IInv => SecretsRemoved
  BY DEF IInv, SecretsInv, SecretsRemoved, RunningOn, RunsOn
<1>2. QED
  BY <1>1, Invariance, PTL

=============================================================================
