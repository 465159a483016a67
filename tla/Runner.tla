------------------------------- MODULE Runner -------------------------------
(***************************************************************************)
(* The runner image: build-entrypoint.sh as it runs in each container, and *)
(* what it does to the project directory bind-mounted into it.  at[r] is   *)
(* the command of the script that container r executes next.  `fail`, and  *)
(* any command that fails under `set -e`, lead to "exit1"; at an exit the  *)
(* EXIT trap runs, unless the container is killed first.                   *)
(*                                                                         *)
(* Who creates, starts and removes containers is left to the modules that  *)
(* extend this one.                                                        *)
(***************************************************************************)
EXTENDS Naturals, FiniteSets

CONSTANTS Runs,       \* build containers
          Projects,   \* app paths
          Options,    \* what a build may ask for: [engine, release, token]
          Checkouts,  \* how a project may look: [easJson, credentials, androidKeys]
          NoProject   \* of a container that was not created yet

Engines == {"auto", "eas", "gradle"}

\* androidKeys stands for android/keystore.properties and
\* android/app/release.keystore; "own" is a file of the developer's.
ProjectFiles ==
    [easJson     : {"absent", "own", "local", "empty"},
     credentials : {"absent", "own", "secret"},
     androidKeys : {"absent", "own", "secret"}]

ASSUME RunnerAssumption ==
    /\ Options \subseteq [engine : Engines, release : BOOLEAN, token : BOOLEAN]
    /\ Checkouts \subseteq {f \in ProjectFiles :
            /\ f.easJson \in {"absent", "own"}
            /\ "secret" \notin {f.credentials, f.androidKeys}}
    /\ NoProject \notin Projects

VARIABLES
    container,           \* of each run, as Docker sees it
    project, option,     \* what it was created with
    at,                  \* the script's next command
    easJsonBackup,       \* EAS_JSON_BACKUP: what the temporary file holds
    credentialsWritten,  \* runs with CREDENTIALS_JSON_WRITTEN=1
    buildNumber,         \* PREV_BUILD_NUMBER, then BUILD_NUMBER
    announced,           \* runs that printed @@ARTIFACT
    files,               \* of each project
    counter,             \* ebl_builds/.build-counter
    \* history: projects where a script was killed or two containers overlapped
    disturbed

script     == <<easJsonBackup, credentialsWritten, buildNumber, announced>>
shared     == <<files, counter>>
runnerVars == <<container, project, option, at, script, shared, disturbed>>

Steps == {"prepare", "engine", "backup", "credentials", "patchEasJson", "eas",
          "prebuild", "androidKeys", "patchGradle", "gradle", "collect",
          "number", "copy", "exit0", "exit1"}

RunnerTypeOK ==
    /\ container \in [Runs -> {"none", "created", "running", "succeeded",
                               "failed", "killed", "removed"}]
    /\ project \in [Runs -> Projects \cup {NoProject}]
    /\ at \in [Runs -> {"none", "done", "gone"} \cup Steps]
    /\ easJsonBackup \in [Runs -> {"unset", "absent", "own", "local", "empty"}]
    /\ credentialsWritten \in SUBSET Runs
    /\ buildNumber \in [Runs -> Nat]
    /\ announced \in SUBSET Runs
    /\ files \in [Projects -> ProjectFiles]
    /\ counter \in [Projects -> Nat]
    /\ disturbed \in SUBSET Projects

RunnerInit ==
    /\ container = [r \in Runs |-> "none"]
    /\ project = [r \in Runs |-> NoProject]
    /\ option \in [Runs -> Options]
    /\ at = [r \in Runs |-> "none"]
    /\ easJsonBackup = [r \in Runs |-> "unset"]
    /\ credentialsWritten = {}
    /\ buildNumber = [r \in Runs |-> 0]
    /\ announced = {}
    /\ files \in [Projects -> Checkouts]
    /\ counter = [p \in Projects |-> 0]
    /\ disturbed = {}

-----------------------------------------------------------------------------
(* Containers.                                                             *)

RunningOn(p) == {r \in Runs : project[r] = p /\ container[r] = "running"}

\* A created container starts: another one may be running on its project.
Starts(r) ==
    /\ container[r] = "created"
    /\ container' = [container EXCEPT ![r] = "running"]
    /\ at' = [at EXCEPT ![r] = "prepare"]
    /\ disturbed' = IF RunningOn(project[r]) # {}
                      THEN disturbed \cup {project[r]} ELSE disturbed
    /\ UNCHANGED <<project, option, script, shared>>

\* The container is ended from outside: no trap runs, /tmp is gone with it.
Ends(r, state) ==
    /\ container' = [container EXCEPT ![r] = state]
    /\ IF container[r] = "running"
         THEN /\ at' = [at EXCEPT ![r] = "gone"]
              /\ disturbed' = disturbed \cup {project[r]}
         ELSE UNCHANGED <<at, disturbed>>
    /\ UNCHANGED <<project, option, script, shared>>

Killed(r) == container[r] = "running" /\ Ends(r, "killed")

-----------------------------------------------------------------------------
(* The script.                                                             *)

Command(r, command, next) ==
    /\ container[r] = "running"
    /\ at[r] = command
    /\ at' = [at EXCEPT ![r] = next]
    /\ UNCHANGED <<container, project, option, disturbed>>

\* A command that leaves nothing in the project fails or times out.
Fails(r) ==
    /\ \E command \in Steps \ {"exit0", "exit1"} : Command(r, command, "exit1")
    /\ UNCHANGED <<script, shared>>

\* The checks, .npmrc, .gitignore, npm ci, else npm install.
Prepare(r) == Command(r, "prepare", "engine") /\ UNCHANGED <<script, shared>>

\* RESOLVED_ENGINE: auto is eas if there are both a token and an eas.json.
UsesEas(r) ==
    \/ option[r].engine = "eas"
    \/ /\ option[r].engine = "auto"
       /\ option[r].token
       /\ files[project[r]].easJson # "absent"

\* Engine eas without a token is a failure.
ResolveEngine(r) ==
    /\ Command(r, "engine", IF ~UsesEas(r)         THEN "prebuild"
                          ELSE IF option[r].release THEN "backup" ELSE "eas")
    /\ UsesEas(r) => option[r].token
    /\ UNCHANGED <<script, shared>>

\* mktemp, cp, CREDENTIALS_JSON_WRITTEN=1.
BackUpEasJson(r) ==
    /\ Command(r, "backup", "credentials")
    /\ files[project[r]].easJson # "absent"
    /\ easJsonBackup' = [easJsonBackup EXCEPT ![r] = files[project[r]].easJson]
    /\ credentialsWritten' = credentialsWritten \cup {r}
    /\ UNCHANGED <<buildNumber, announced, shared>>

\* No eas.json: cp fails, and the file mktemp made stays the backup.
BackUpFails(r) ==
    /\ Command(r, "backup", "exit1")
    /\ easJsonBackup' = [easJsonBackup EXCEPT ![r] = "empty"]
    /\ UNCHANGED <<credentialsWritten, buildNumber, announced, shared>>

\* write-eas-credentials.js: credentials.json, then the profile in eas.json.
WriteCredentials(r) ==
    /\ Command(r, "credentials", "patchEasJson")
    /\ files' = [files EXCEPT ![project[r]].credentials = "secret"]
    /\ UNCHANGED <<script, counter>>

PatchEasJson(r) ==
    /\ Command(r, "patchEasJson", "eas")
    /\ files[project[r]].easJson \in {"own", "local"}
    /\ files' = [files EXCEPT ![project[r]].easJson = "local"]
    /\ UNCHANGED <<script, counter>>

BuildWithEas(r) == Command(r, "eas", "collect") /\ UNCHANGED <<script, shared>>

\* expo prebuild --clean: android/ is deleted first, whatever comes of it.
Prebuild(r) ==
    /\ \/ Command(r, "prebuild", IF option[r].release THEN "androidKeys" ELSE "gradle")
       \/ Command(r, "prebuild", "exit1")
    /\ files' = [files EXCEPT ![project[r]].androidKeys = "absent"]
    /\ UNCHANGED <<script, counter>>

\* patch-android-signing.js: the keys, then app/build.gradle.
WriteAndroidKeys(r) ==
    /\ Command(r, "androidKeys", "patchGradle")
    /\ files' = [files EXCEPT ![project[r]].androidKeys = "secret"]
    /\ UNCHANGED <<script, counter>>

PatchGradle(r) == Command(r, "patchGradle", "gradle") /\ UNCHANGED <<script, shared>>
BuildWithGradle(r) == Command(r, "gradle", "collect") /\ UNCHANGED <<script, shared>>

ReadCounter(r) ==
    /\ Command(r, "collect", "number")
    /\ buildNumber' = [buildNumber EXCEPT ![r] = counter[project[r]]]
    /\ UNCHANGED <<easJsonBackup, credentialsWritten, announced, shared>>

WriteCounter(r) ==
    /\ Command(r, "number", "copy")
    /\ buildNumber' = [buildNumber EXCEPT ![r] = @ + 1]
    /\ counter' = [counter EXCEPT ![project[r]] = buildNumber[r] + 1]
    /\ UNCHANGED <<easJsonBackup, credentialsWritten, announced, files>>

\* The artifact is in place and the markers that name it are printed.
CopyArtifact(r) ==
    /\ Command(r, "copy", "exit0")
    /\ announced' = announced \cup {r}
    /\ UNCHANGED <<easJsonBackup, credentialsWritten, buildNumber, shared>>

\* Mutant: the keys written for Gradle are not removed.
KeysStay(r, f) ==
    [easJson     |-> IF easJsonBackup[r] = "unset" THEN f.easJson ELSE easJsonBackup[r],
     credentials |-> IF r \in credentialsWritten THEN "absent" ELSE f.credentials,
     androidKeys |-> f.androidKeys]

AfterCleanup(r, f) ==
    [easJson     |-> IF easJsonBackup[r] = "unset" THEN f.easJson ELSE easJsonBackup[r],
     credentials |-> IF r \in credentialsWritten THEN "absent" ELSE f.credentials,
     androidKeys |-> "absent"]

\* cleanup(), the EXIT trap; then the container stops.
Exit(r) ==
    /\ container[r] = "running"
    /\ at[r] \in {"exit0", "exit1"}
    /\ files' = [files EXCEPT ![project[r]] = AfterCleanup(r, @)]
    /\ container' = [container EXCEPT ![r] = IF at[r] = "exit0" THEN "succeeded" ELSE "failed"]
    /\ at' = [at EXCEPT ![r] = IF at[r] = "exit0" THEN "done" ELSE "gone"]
    /\ UNCHANGED <<project, option, script, counter, disturbed>>

ScriptStep(r) ==
    \/ Fails(r)
    \/ Prepare(r) \/ ResolveEngine(r)
    \/ BackUpEasJson(r) \/ BackUpFails(r) \/ WriteCredentials(r) \/ PatchEasJson(r)
    \/ BuildWithEas(r)
    \/ Prebuild(r) \/ WriteAndroidKeys(r) \/ PatchGradle(r) \/ BuildWithGradle(r)
    \/ ReadCounter(r) \/ WriteCounter(r) \/ CopyArtifact(r)
    \/ Exit(r)

=============================================================================
