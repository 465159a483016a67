------------------------------ MODULE CliBuild ------------------------------
(***************************************************************************)
(* `ebl build` (commands/build.cpp) on the containers of Runner.  One      *)
(* invocation has a main thread, cancelWatcher, that looks at the signal   *)
(* flag every 200 ms until buildFinished, and attachThread, that streams   *)
(* the output.  Beside them: `ebl clean --all` (commands/clean.cpp), and   *)
(* the orchestrator, whose containers carry no app-path label.             *)
(*                                                                         *)
(* DockerClient throws when a request fails or is answered by an           *)
(* unexpected status.  The try block around all of it reports what was     *)
(* thrown, but between the creation of the threads and their joins an      *)
(* exception destroys a joinable std::thread first: std::terminate.        *)
(* A request that failed is remembered in `faults`: the answer may have    *)
(* been lost after the daemon did what it was asked.                       *)
(***************************************************************************)
EXTENDS Runner

CONSTANTS Clis,       \* the runs that are invocations of ebl build
          MaxFaulty,  \* bound on the invocations that see a request fail
          Cleans      \* whether somebody runs ebl clean --all, once

ASSUME CliAssumption == Clis \subseteq Runs /\ MaxFaulty \in Nat /\ Cleans \in BOOLEAN

VARIABLES
    main,       \* where the main thread is
    canceller,  \* where cancelWatcher is
    attach,     \* where attachThread is
    signalled,  \* invocations with g_interruptRequested set
    waited,     \* what waitContainer answered
    artifactPath,  \* invocations whose onChunk saw @@ARTIFACT
    exitCode,   \* of the process
    faults,     \* history: invocations one of whose Docker requests failed
    runnerImage,   \* whether the runner image is present
    cleaner,    \* where ebl clean is
    doomed      \* the listed containers it has yet to remove

threads   == <<main, canceller, attach, signalled, waited, artifactPath, exitCode>>
cleanVars == <<runnerImage, cleaner, doomed>>
vars      == <<runnerVars, threads, faults, cleanVars>>

CliTypeOK ==
    /\ RunnerTypeOK
    /\ main \in [Clis -> {"idle", "checking", "pulling", "creating", "created",
                          "starting", "waiting", "joining", "closing", "removing",
                          "exited", "interrupted", "died"}]
    /\ canceller \in [Clis -> {"none", "armed", "removing", "removed", "refused", "over"}]
    /\ attach \in [Clis -> {"none", "connecting", "streaming", "late", "over", "missed"}]
    /\ signalled \in SUBSET Clis
    /\ waited \in [Clis -> {"nothing", "zero", "nonzero"}]
    /\ artifactPath \in SUBSET Clis
    /\ exitCode \in [Clis -> {"none", "0", "1", "2", "130", "134"}]
    /\ faults \in SUBSET Clis
    /\ runnerImage \in BOOLEAN
    /\ cleaner \in {"idle", "removing", "refusing", "over"}
    /\ doomed \in SUBSET Clis

Init ==
    /\ RunnerInit
    /\ main = [r \in Clis |-> "idle"]
    /\ canceller = [r \in Clis |-> "none"]
    /\ attach = [r \in Clis |-> "none"]
    /\ signalled = {}
    /\ waited = [r \in Clis |-> "nothing"]
    /\ artifactPath = {}
    /\ exitCode = [r \in Clis |-> "none"]
    /\ faults = {}
    /\ runnerImage = FALSE
    /\ cleaner = "idle"
    /\ doomed = {}

-----------------------------------------------------------------------------
(* The main thread, from one Docker request to the next.                   *)

Goes(r, from, to) ==
    /\ main[r] = from
    /\ main' = [main EXCEPT ![r] = to]

Exits(r, from, code) ==
    /\ Goes(r, from, "exited")
    /\ exitCode' = [exitCode EXCEPT ![r] = code]

Fault(r) ==
    /\ faults' = faults \cup {r}
    /\ Cardinality(faults') <= MaxFaulty

\* std::terminate: SIGABRT, and every thread is gone.
Aborts(r, from) == Exits(r, from, "134")

NeedsToken(r, p) ==
    \/ option[r].engine = "eas"
    \/ option[r].engine = "auto" /\ files[p].easJson # "absent"

\* runBuild has found an Expo project at p.  Without a token it asks for one;
\* none is given, or --json forbids asking: exit 2.
Invoke(r, p) ==
    /\ \/ /\ Goes(r, "idle", "checking")
          /\ option' = IF NeedsToken(r, p) THEN [option EXCEPT ![r].token = TRUE] ELSE option
          /\ UNCHANGED exitCode
       \/ /\ NeedsToken(r, p) /\ ~option[r].token
          /\ Exits(r, "idle", "2")
          /\ UNCHANGED option
    /\ project' = [project EXCEPT ![r] = p]
    /\ UNCHANGED <<container, at, script, shared, disturbed, canceller, attach,
                   signalled, waited, artifactPath, faults, cleanVars>>

\* findRunningBuildContainerByAppPath: running containers with the label.
CheckProject(r) ==
    /\ IF RunningOn(project[r]) \cap Clis = {}
         THEN Goes(r, "checking", "pulling") /\ UNCHANGED exitCode
         ELSE Exits(r, "checking", "1")
    /\ UNCHANGED <<runnerVars, canceller, attach, signalled, waited, artifactPath,
                   faults, cleanVars>>

CheckFails(r) ==
    /\ Exits(r, "checking", "1")
    /\ Fault(r)
    /\ UNCHANGED <<runnerVars, canceller, attach, signalled, waited, artifactPath, cleanVars>>

\* ensureRunnerImage: pulled, or built from the bundled context.  If the pull
\* fails a cached image will do, unless the look for it fails as well.
EnsureRunnerImage(r) ==
    /\ \/ Goes(r, "pulling", "creating") /\ runnerImage' = TRUE /\ UNCHANGED <<exitCode, faults>>
       \/ Goes(r, "pulling", "creating") /\ runnerImage /\ Fault(r) /\ UNCHANGED <<exitCode, runnerImage>>
       \/ Exits(r, "pulling", "1") /\ Fault(r) /\ UNCHANGED runnerImage
    /\ UNCHANGED <<runnerVars, canceller, attach, signalled, waited, artifactPath,
                   cleaner, doomed>>

\* The two ensureVolume, with the container that mounts them.
EnsureVolumeFails(r) ==
    /\ Exits(r, "creating", "1")
    /\ Fault(r)
    /\ UNCHANGED <<runnerVars, canceller, attach, signalled, waited, artifactPath, cleanVars>>

\* Mutant: the container is created and started before std::signal.
CreateAndStart(r) ==
    /\ runnerImage
    /\ Goes(r, "creating", "created")
    /\ container' = [container EXCEPT ![r] = "running"]
    /\ at' = [at EXCEPT ![r] = "prepare"]
    /\ UNCHANGED <<project, option, script, shared, disturbed, canceller, attach,
                   signalled, waited, artifactPath, exitCode, faults, cleanVars>>

\* 201; without the image it is a 404, the message of which is thrown.
CreateContainer(r) ==
    /\ IF runnerImage
         THEN /\ Goes(r, "creating", "created")
              /\ container' = [container EXCEPT ![r] = "created"]
              /\ UNCHANGED exitCode
         ELSE Exits(r, "creating", "1") /\ UNCHANGED container
    /\ UNCHANGED <<project, option, at, script, shared, disturbed, canceller, attach,
                   signalled, waited, artifactPath, faults, cleanVars>>

CreateFails(r) ==
    /\ Exits(r, "creating", "1")
    /\ Fault(r)
    /\ container' = [container EXCEPT ![r] = "created"]
    /\ UNCHANGED <<project, option, at, script, shared, disturbed, canceller, attach,
                   signalled, waited, artifactPath, cleanVars>>

\* std::signal, cancelWatcher, attachThread.
WatchSignals(r) ==
    /\ Goes(r, "created", "starting")
    /\ canceller' = [canceller EXCEPT ![r] = "armed"]
    /\ attach' = [attach EXCEPT ![r] = "connecting"]
    /\ UNCHANGED <<runnerVars, signalled, waited, artifactPath, exitCode, faults, cleanVars>>

\* Mutant: startContainer takes its own 204 for an error.
StartTakesOnly204(r) ==
    /\ \/ Goes(r, "starting", "waiting") /\ Starts(r) /\ UNCHANGED exitCode
       \/ Aborts(r, "starting") /\ UNCHANGED runnerVars
    /\ UNCHANGED <<canceller, attach, signalled, waited, artifactPath, faults, cleanVars>>

\* 204; the container that the watcher, or ebl clean, has removed is a 404.
StartContainer(r) ==
    /\ \/ Goes(r, "starting", "waiting") /\ Starts(r) /\ UNCHANGED exitCode
       \/ container[r] = "removed" /\ Aborts(r, "starting") /\ UNCHANGED runnerVars
    /\ UNCHANGED <<canceller, attach, signalled, waited, artifactPath, faults, cleanVars>>

StartFails(r) ==
    /\ Aborts(r, "starting")
    /\ Fault(r)
    /\ Starts(r) \/ UNCHANGED runnerVars
    /\ UNCHANGED <<canceller, attach, signalled, waited, artifactPath, cleanVars>>

Stopped(r) == container[r] \notin {"none", "created", "running"}

\* The answer was on its way when the container was removed, or it is a 404.
WaitAnswers(r) ==
    CASE container[r] = "succeeded"            -> {"zero"}
      [] container[r] \in {"failed", "killed"} -> {"nonzero"}
      [] container[r] = "removed" -> {"nonzero"} \cup {a \in {"zero"} : at[r] = "done"}

WaitContainer(r) ==
    /\ Stopped(r)
    /\ \/ /\ Goes(r, "waiting", "joining")
          /\ \E answer \in WaitAnswers(r) : waited' = [waited EXCEPT ![r] = answer]
          /\ UNCHANGED exitCode
       \/ container[r] = "removed" /\ Aborts(r, "waiting") /\ UNCHANGED waited
    /\ UNCHANGED <<runnerVars, canceller, attach, signalled, artifactPath, faults, cleanVars>>

WaitFails(r) ==
    /\ Aborts(r, "waiting")
    /\ Fault(r)
    /\ UNCHANGED <<runnerVars, canceller, attach, signalled, waited, artifactPath, cleanVars>>

\* Mutant: the summary does not wait for the output.
DoNotJoinOutput(r) ==
    /\ Goes(r, "joining", "closing")
    /\ UNCHANGED <<runnerVars, canceller, attach, signalled, waited, artifactPath,
                   exitCode, faults, cleanVars>>

\* attachThread.join(), then buildFinished.
JoinOutput(r) ==
    /\ attach[r] \in {"over", "missed"}
    /\ Goes(r, "joining", "closing")
    /\ UNCHANGED <<runnerVars, canceller, attach, signalled, waited, artifactPath,
                   exitCode, faults, cleanVars>>

WasCancelled(r) == canceller[r] \in {"removing", "removed", "refused"}

\* Mutant: the watcher is not awaited.
DoNotJoinCanceller(r) ==
    /\ IF WasCancelled(r)
         THEN Exits(r, "closing", "130")
         ELSE Goes(r, "closing", "removing") /\ UNCHANGED exitCode
    /\ UNCHANGED <<runnerVars, canceller, attach, signalled, waited, artifactPath,
                   faults, cleanVars>>

\* cancelWatcher.join(), SIG_DFL, then the cancelled summary.
JoinCanceller(r) ==
    /\ canceller[r] \in {"removed", "refused", "over"}
    /\ IF WasCancelled(r)
         THEN Exits(r, "closing", "130")
         ELSE Goes(r, "closing", "removing") /\ UNCHANGED exitCode
    /\ UNCHANGED <<runnerVars, canceller, attach, signalled, waited, artifactPath,
                   faults, cleanVars>>

\* Mutant: an artifact line is enough for success.
ArtifactIsEnough(r) == r \in artifactPath

Succeeded(r) == waited[r] = "zero" /\ r \in artifactPath

\* removeContainer, and the verdict; extractArtifactMetrics may still throw.
RemoveAndReport(r) ==
    /\ \/ Succeeded(r) /\ Exits(r, "removing", "0") /\ UNCHANGED faults
       \/ ~Succeeded(r) /\ Exits(r, "removing", "1") /\ UNCHANGED faults
       \/ Succeeded(r) /\ Exits(r, "removing", "1") /\ Fault(r)
    /\ Ends(r, "removed")
    /\ UNCHANGED <<canceller, attach, signalled, waited, artifactPath, cleanVars>>

RemoveFails(r) ==
    /\ Exits(r, "removing", "1")
    /\ Fault(r)
    /\ Ends(r, "removed") \/ UNCHANGED runnerVars
    /\ UNCHANGED <<canceller, attach, signalled, waited, artifactPath, cleanVars>>

-----------------------------------------------------------------------------
(* Signals.                                                                *)

HandlesSignals(r) == main[r] \in {"starting", "waiting", "joining", "closing"}

\* Ctrl-C, or kill, with handleInterruptSignal installed.
Interrupt(r) ==
    /\ HandlesSignals(r)
    /\ signalled' = signalled \cup {r}
    /\ UNCHANGED <<runnerVars, main, canceller, attach, waited, artifactPath, exitCode,
                   faults, cleanVars>>

Alive(r) == main[r] \notin {"idle", "exited", "interrupted", "died"}

\* The process is gone, with its threads and what they knew; the request under
\* way may be carried out all the same.
Falls(r, to) ==
    /\ main' = [main EXCEPT ![r] = to]
    /\ \/ UNCHANGED runnerVars
       \/ /\ main[r] = "creating" /\ runnerImage
          /\ container' = [container EXCEPT ![r] = "created"]
          /\ UNCHANGED <<project, option, at, script, shared, disturbed>>
       \/ main[r] = "starting" /\ Starts(r)
       \/ (main[r] = "removing" \/ canceller[r] = "removing") /\ Ends(r, "removed")
    /\ canceller' = [canceller EXCEPT ![r] = "none"]
    /\ attach' = [attach EXCEPT ![r] = "none"]
    /\ signalled' = signalled \ {r}
    /\ waited' = [waited EXCEPT ![r] = "nothing"]
    /\ artifactPath' = artifactPath \ {r}
    /\ UNCHANGED <<exitCode, faults, cleanVars>>

\* Ctrl-C without it ends the process.
InterruptKills(r) == Alive(r) /\ ~HandlesSignals(r) /\ Falls(r, "interrupted")

\* Any other signal ends it at any moment: SIGHUP of a terminal that is closed,
\* SIGQUIT, SIGKILL.
OtherSignalKills(r) == Alive(r) /\ Falls(r, "died")

Canceller(r, from, to) ==
    /\ Alive(r)
    /\ canceller[r] = from
    /\ canceller' = [canceller EXCEPT ![r] = to]
    /\ UNCHANGED <<main, attach, signalled, waited, artifactPath, exitCode, cleanVars>>

\* wasCancelled = true
TakeSignal(r) ==
    /\ r \in signalled
    /\ Canceller(r, "armed", "removing")
    /\ UNCHANGED <<runnerVars, faults>>

CancellerRemoves(r) ==
    /\ Canceller(r, "removing", "removed")
    /\ Ends(r, "removed")
    /\ UNCHANGED faults

\* The user is told to run docker rm -f.
CancellerFails(r) ==
    /\ Canceller(r, "removing", "refused")
    /\ Fault(r)
    /\ Ends(r, "removed") \/ UNCHANGED runnerVars

\* Mutant: the watcher waits for a signal only.
CancellerIgnoresTheEnd(r) ==
    /\ main[r] = "closing"
    /\ r \in signalled
    /\ Canceller(r, "armed", "over")
    /\ UNCHANGED <<runnerVars, faults>>

\* The flag is looked at every 200 ms: buildFinished may come before the look.
CancellerStandsDown(r) ==
    /\ main[r] = "closing"
    /\ Canceller(r, "armed", "over")
    /\ UNCHANGED <<runnerVars, faults>>

-----------------------------------------------------------------------------
(* attachAndStream, onChunk.                                               *)

Attach(r, from, to) ==
    /\ Alive(r)
    /\ attach[r] = from
    /\ attach' = [attach EXCEPT ![r] = to]
    /\ UNCHANGED <<runnerVars, main, canceller, signalled, waited, exitCode, cleanVars>>

\* The request races startContainer; what was printed before is not replayed.
AttachOpens(r) ==
    /\ container[r] # "removed"
    /\ Attach(r, "connecting", IF r \in announced THEN "late" ELSE "streaming")
    /\ UNCHANGED <<artifactPath, faults>>

\* The container stopped: what it printed since the attach is delivered.
StreamEnds(r) ==
    /\ Stopped(r)
    /\ \/ Attach(r, "streaming", "over")
       \/ Attach(r, "connecting", "missed")
       \/ Attach(r, "late", "missed")
    /\ artifactPath' = IF attach[r] = "streaming" /\ r \in announced
                         THEN artifactPath \cup {r} ELSE artifactPath
    /\ UNCHANGED faults

StreamBreaks(r) ==
    /\ attach[r] \in {"connecting", "streaming", "late"}
    /\ Attach(r, attach[r], "over")
    /\ Fault(r)
    /\ artifactPath' \in {artifactPath} \cup
           (IF attach[r] = "streaming" /\ r \in announced THEN {artifactPath \cup {r}} ELSE {})

-----------------------------------------------------------------------------
(* ebl clean --all.                                                        *)

Clean(from, to) ==
    /\ cleaner = from
    /\ cleaner' = to
    /\ UNCHANGED <<threads, faults>>

\* listBuildContainers: the labelled ones; those that do not run are removed.
ListBuildContainers ==
    /\ Cleans
    /\ doomed' = {r \in Clis : container[r] \notin {"none", "running", "removed"}}
    /\ Clean("idle", IF \E r \in Clis : container[r] = "running" THEN "refusing" ELSE "removing")
    /\ UNCHANGED <<runnerVars, runnerImage>>

\* force=1; a 404 is fine.
CleanRemoves(r) ==
    /\ r \in doomed
    /\ Clean(cleaner, cleaner)
    /\ doomed' = doomed \ {r}
    /\ IF container[r] = "removed" THEN UNCHANGED runnerVars ELSE Ends(r, "removed")
    /\ UNCHANGED runnerImage

\* anyRunning: images stay.  Docker keeps one that a container was made of.
CleanImages ==
    /\ doomed = {}
    /\ Clean(cleaner, "over") /\ cleaner \in {"removing", "refusing"}
    /\ runnerImage' = (runnerImage /\ (\/ cleaner = "refusing"
                                      \/ \E r \in Runs : container[r] \notin {"none", "removed"}))
    /\ UNCHANGED <<runnerVars, doomed>>

-----------------------------------------------------------------------------
\* The orchestrator runs a build: it knows of its own builds only.
OrchestratorRuns(r, p) ==
    /\ container[r] = "none"
    /\ RunningOn(p) \subseteq Clis
    /\ container' = [container EXCEPT ![r] = "running"]
    /\ project' = [project EXCEPT ![r] = p]
    /\ at' = [at EXCEPT ![r] = "prepare"]
    /\ disturbed' = IF RunningOn(p) # {} THEN disturbed \cup {p} ELSE disturbed
    /\ UNCHANGED <<option, script, shared, threads, faults, cleanVars>>

\* All invocations and containers have ended.
Done ==
    /\ \A r \in Clis : main[r] \in {"exited", "interrupted", "died"}
    /\ Cleans => cleaner = "over"
    /\ \A r \in Runs : container[r] # "running"
    /\ UNCHANGED vars

\* Steps of the process and of Docker that answer what they were asked.
MainAnswered(r) ==
    \/ CheckProject(r) \/ EnsureRunnerImage(r) \/ CreateContainer(r) \/ WatchSignals(r)
    \/ StartContainer(r)
    \/ WaitContainer(r) \/ JoinOutput(r) \/ JoinCanceller(r) \/ RemoveAndReport(r)

CancellerAnswered(r) == TakeSignal(r) \/ CancellerRemoves(r) \/ CancellerStandsDown(r)

AttachAnswered(r) == AttachOpens(r) \/ StreamEnds(r)

RequestFails(r) ==
    \/ CheckFails(r) \/ EnsureVolumeFails(r) \/ CreateFails(r) \/ StartFails(r) \/ WaitFails(r) \/ RemoveFails(r)
    \/ CancellerFails(r) \/ StreamBreaks(r)

CleanStep == ListBuildContainers \/ CleanImages \/ \E r \in Clis : CleanRemoves(r)

ContainerStep(r) == ScriptStep(r) /\ UNCHANGED <<threads, faults, cleanVars>>

Next ==
    \/ \E r \in Clis, p \in Projects : Invoke(r, p)
    \/ \E r \in Clis : \/ MainAnswered(r) \/ CancellerAnswered(r) \/ AttachAnswered(r)
                       \/ RequestFails(r)
                       \/ Interrupt(r) \/ InterruptKills(r) \/ OtherSignalKills(r)
    \/ \E r \in Runs \ Clis, p \in Projects : OrchestratorRuns(r, p)
    \/ \E r \in Runs : \/ ContainerStep(r)
                       \/ Killed(r) /\ UNCHANGED <<threads, faults, cleanVars>>
    \/ CleanStep
    \/ Done

Spec == Init /\ [][Next]_vars

-----------------------------------------------------------------------------
(* Safety.                                                                 *)

\* Of an invocation that ends by itself no container is left, and of one that
\* Ctrl-C or kill (SIGINT, SIGTERM) ends none is left running, at whatever moment
\* it comes, if Docker answered every request.  What no handler is installed for
\* ends the process otherwise: see NeverLeftRunning.
NoOrphan ==
    \A r \in Clis \ faults :
        /\ main[r] = "exited" => container[r] \in {"none", "removed"}
        /\ main[r] = "interrupted" => container[r] # "running"

\* Exit status 0: the script ran to its end, its EXIT trap included, it named
\* the artifact, and the user did not cancel.
SuccessIsComplete ==
    \A r \in Clis : exitCode[r] = "0" =>
        at[r] = "done" /\ r \in announced /\ ~WasCancelled(r)

\* A script that ran to its end is not reported as a failure unless a request
\* failed, the output was attached only after the artifact had been named, or
\* ebl clean removed the container.
CompletedBuildIsReported ==
    \A r \in Clis \ faults :
        exitCode[r] = "1" /\ at[r] = "done" => attach[r] = "missed" \/ cleaner # "idle"

\* Exit status 130: the container is gone, or the user was told how to remove it.
CancelledMeansStopped ==
    \A r \in Clis : exitCode[r] = "130" =>
        container[r] = "removed" \/ canceller[r] = "refused"

\* The process ends by std::terminate only if a request failed, the user
\* cancelled, or ebl clean removed the container; then it may even outlive it.
AbortsWithReason ==
    \A r \in Clis \ faults : exitCode[r] = "134" => WasCancelled(r) \/ cleaner # "idle"

NoSecrets(p) ==
    /\ "secret" \notin {files[p].credentials, files[p].androidKeys}
    /\ files[p].easJson # "local"

\* As long as containers of a project never overlap and none is killed, no
\* signing secret and no patched eas.json outlives the script, wherever it fails.
SecretsRemoved ==
    \A p \in Projects \ disturbed : RunningOn(p) = {} => NoSecrets(p)

-----------------------------------------------------------------------------
(* What the code does not do: TLC refutes all three.                       *)

\* build-entrypoint.sh:202-203 signing secrets "must never survive the build":
\* a project without a running container holds none, unless somebody other than
\* ebl has killed a container of it.
SecretsNeverSurvive ==
    \A p \in Projects :
        RunningOn(p) = {} /\ (\A r \in Runs : project[r] = p => container[r] # "killed")
            => NoSecrets(p)

\* docs/CHANGELOG.md:1670 "Reports "Build cancelled" and exits with 130": a build
\* whose container the watcher removes, every request answered, ends with 130.
CancelExits130 ==
    \A r \in Clis \ faults : WasCancelled(r) /\ main[r] = "exited" => exitCode[r] = "130"

\* build.cpp:682-683 "interrupting `ebl build` would kill this process but leave
\* the container running indefinitely", taken as a promise about every way to
\* interrupt it: nothing ends the process and leaves its container running.
NeverLeftRunning ==
    \A r \in Clis \ faults : main[r] # "idle" /\ container[r] = "running" => Alive(r)

-----------------------------------------------------------------------------
(* Liveness.                                                               *)

\* Threads run, Docker answers, and every command of the script ends: it is run
\* with a timeout or is a file operation.
Fairness ==
    /\ \A r \in Clis : /\ WF_vars(MainAnswered(r))
                       /\ WF_vars(CancellerAnswered(r))
                       /\ WF_vars(AttachAnswered(r))
    /\ \A r \in Runs : WF_vars(ContainerStep(r))

FairSpec == Spec /\ Fairness

\* No wait for the container, the output or the canceller blocks for ever: an
\* invocation ends, whoever interrupts it and whichever request fails.
InvocationEnds == \A r \in Clis : Alive(r) ~> ~Alive(r)

=============================================================================
