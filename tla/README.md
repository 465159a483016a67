# expo-builder-local: a verification project

expo-builder-local builds Expo/React Native apps into APKs and AABs on the
developer's own machine. Every build runs in a Docker container made from one
runner image. There are two ways to ask for a build: `ebl build`, a command that
drives one container by itself, and a web interface, served by an orchestrator
that queues builds; `ebl setup`, `config`, `start`, `stop`, `update` and `clean`
look after the images, the services and the containers. This directory holds
TLA+ models of the parts where concurrency, failures, crashes and orders matter,
what TLC finds out about them, and proofs of what matters most about them.

The models of `ebl` follow its C++ source, `cli-cpp-legacy/src`. The Go port in
`cli/` has the same commands; where the two differ (goroutines, no
`std::terminate`, another terminal library) the models are about C++.

## The system

| part | keeps | operations | talks to |
|---|---|---|---|
| `ebl build`, before Docker (`commands/build.cpp`, `detect.cpp`, `tui_*.cpp`, `prompt.cpp`) | options, selection of a menu, token; `.ebl-token` and `.gitignore` in the project | `parseArgs`, `detectExpoProject`, `runBuildWizard`, `readKey`, prompts, `saveProjectTokenFile` | terminal, project, configuration |
| `ebl build`, the container (`commands/build.cpp`, `docker_client.cpp`) | main thread, `cancelWatcher`, `attachThread`; `g_interruptRequested`, `buildFinished` | check, pull, create, attach, start, wait, join, remove | Docker daemon, runner script |
| its dashboard (`build_progress_tracker.cpp`, `build_status_view.cpp`) | tracker, shown state, log buffers, `linesRendered_` | `onChunk`, `statusThread`, the last `render` | the two parts above, terminal |
| configuration (`config_store.cpp`, `crypto.cpp`) | `config.json`, `config.json.tmp`, `machine.key` | `loadConfig`, `saveConfig`, `atomicReplace` | every command |
| services (`commands/setup.cpp`, `start.cpp`, `update.cpp`) | images, network, two containers known by name, a data volume | one sequence of Docker requests each | Docker daemon, configuration |
| `ebl clean` (`commands/clean.cpp`) | a list of containers | list, remove by force, remove images | Docker daemon, beside `ebl build` |
| Docker transport (`http_client_win.cpp`, `docker_client.cpp`, `json.cpp`) | bytes read and not used, a residual line | `performRequest`, `deliverBody`, `pullImage`, `buildImage`, `Json::parse` | Docker daemon |
| runner script (`docker/runner/build-entrypoint.sh`) | files in the bind-mounted project: signing secrets, patched `eas.json`, build counter | phases from setup to collect, EXIT trap | prints `@@` markers |
| build manager (`orchestrator/src/build/manager.ts`) | queue, running count, cancelled set, active containers, a `launchBuild` closure per slot | `startBuild`, `processQueue`, `cancelBuild`, `launchBuild` | store, Docker, hub |
| store, routes, server, hub (`orchestrator/src`) | SQLite rows; log files and their write streams; subscribers per build | row updates, REST requests, WebSocket snapshot, publish | manager, browser |
| web interface (`expo-builder-gui`) | state folded from socket messages; how much of the log the terminal has had | reconnect with backoff, cancel, forms | REST, WebSocket |

What is hard here:

* `ebl build` has four threads. Whenever Ctrl-C comes and whichever request
  fails it must end, leave no container behind, and report what is true,
  although exit status, output and cancellation arrive on three threads. An
  exception between the creation of the threads and their joins ends the
  process by `std::terminate`.
* Two threads draw the dashboard with one counter of drawn lines and no lock,
  from a state that is copied field by field.
* The wizard reads one terminal in two ways, byte by byte in its menus and
  through stdio's buffer in its prompts, and keys may be pressed at any time.
* Every command may be killed between two file operations, the disk may be
  full, and two commands may run at the same time on one configuration.
* The bytes of an answer come in any pieces and may end anywhere.
* The script writes secrets into the developer's project and removes them in
  an EXIT trap, which a killed container does not run.
* The manager is one Node process, but `launchBuild` awaits Docker six times.
  A restart forgets the queue and the maps and keeps rows and containers.
* A page is told of a build twice, by a snapshot of row and file and by the
  messages after it, while the file lags behind what was published, connections
  break, and the terminal that shows the log is still being imported.

## Modules

| module | models | composed with |
|---|---|---|
| `Terminal` | the terminal of each invocation: line discipline, `readKey`, `std::getline` | |
| `Invocation` | `ebl build` up to Docker, several invocations on one checkout | extends `Terminal` |
| `Runner` | the script in each container, and the project files it touches | |
| `CliBuild` | `ebl build` from the token on, `ebl clean`, the orchestrator's containers | extends `Runner` |
| `BuildProgress` | the progress tracker, a function of one line | |
| `Dashboard` | `onChunk`, the view, and the threads that use them | extends `BuildProgress` |
| `ConfigStore` | the files of `~/.config/ebl` | |
| `Services` | `setup`, `config`, `start`, `stop`, `update` | extends `ConfigStore` |
| `Json` | values and the parser, over tokens | |
| `JsonWriter` | the writer | extends `Json` |
| `DockerStream` | what `pullImage`, `buildImage`, `imageExists` make of a body | extends `Json` |
| `PipeHttp` | one request over the named pipe of Docker Desktop | extends `DockerStream` |
| `BuildManager` | manager, keystore routes, restart, Docker as the manager sees it | implements `BuildBoard` |
| `BuildBoard` | what the build API promises | abstract |
| `LiveView` | the row, the phases and the log of one build, the hub, the connection of each viewer | its row moves as `BuildBoard` says |
| `LogPane` | the page and the terminal of its log | extends `LiveView` |
| `BuildManagerProofs` | theorems about `BuildManager` | extends `BuildManager` |
| `CliBuildProofs` | theorems about `CliBuild` and `Runner` | extends `CliBuild` |
| `ServicesProofs` | theorems about `Services` and `ConfigStore` | extends `Services` |
| `DashboardProofs` | theorems about `Dashboard` and `BuildProgress` | extends `Dashboard`, `Extremes` |
| `InvocationProofs` | theorems about `Invocation` and `Terminal` | extends `Invocation`, `Extremes` |
| `PipeHttpProofs` | theorems about the parser, `PipeHttp` and `DockerStream` | extends `PipeHttp`, `Extremes` |
| `LiveViewProofs` | theorems about `LiveView` and `LogPane` | extends `LogPane` |
| `Extremes` | lemmas: sets of numbers have a least and a greatest element | |
| `MC...` | instances for TLC | one for each of the above that is run; `LogPane` needs none |

### Terminal and Invocation

A key is pressed (`Press`) and its bytes arrive one by one (`ByteArrives`) in
`queue`, whether or not anybody reads. In a menu, `readKey` puts the terminal
into raw mode (`EnterRaw`), takes a byte at a time (`ReadMore`, `BytesMakeKey`)
or gives up waiting for the rest of a sequence (`TimesOut`: the 50 ms of
`moreInputWithin` may pass at any moment at which no byte is there). A prompt
calls `std::getline`, which fills stdio's buffer (`FillStdin`) and takes a line
out of it (`GetLine`). When raw mode ends, the bytes that are waiting go to the
next read of a line together, however many lines they are (`together`); this is
what Linux does. `RawModeGuard` leaves ISIG on, so a Ctrl-C is always a signal
and drops what waits.

`Invocation` has a step for every question and every file operation; what lies
between two of them in `runBuild` is part of the step. `main` is the place,
named for the question that is shown or the operation that comes next.
`opts` are a record of the code's `Options` except the passwords, the image, the
volumes and the socket, which are only passed on; the key alias is among them,
though nobody looks at it either, because the usage says that a release needs one.
They are left as they are when the build starts: `ArtifactOf` and `Profile` are
what `BuildParams` makes of them. `Worlds` are checkouts (which files
are there, unreadable or malformed), environments (`EXPO_TOKEN`, the saved
configuration, whether stdin and whether stdout is a terminal) and command lines.
A prompt that reads a pipe may get any line (`Lines`): a word, or the empty one,
which is also what the end of the pipe gives.
`.gitignore` is a sequence of lines and whether the last one is ended, because
`ensureGitignored` appends to what it has read earlier.

### Runner and CliBuild

`at[r]` is the script's next command in container `r`. Commands that write
nothing TLC needs to tell apart are folded into the phase they belong to; the
writes of secrets, backup and counter are steps of their own, because a kill or
a failure may fall between any two. Every command may fail (`Fails`), and then
the EXIT trap runs (`Exit`). A container may also be killed: no trap, and what
was written stays. A file is "own" (the developer's), "secret" (written by the
script), "absent", and for `eas.json` also "local" (patched) or "empty".

`main`, `canceller` and `attach` are the positions of the three threads, and
each Docker request is one step that is answered, or fails. A request that
fails may have been carried out all the same (the answer was lost), and the
invocation is then in `faults`, a history variable that properties about
answered requests mention. An exception while `cancelWatcher` or `attachThread`
is joinable is `Aborts`: exit status 134. A signal may come at every moment:
`Interrupt` is SIGINT or SIGTERM with the handler installed, `InterruptKills` the
same two before it is, and `OtherSignalKills` every other signal (SIGHUP when the
terminal is closed, SIGQUIT, SIGKILL), for which `build.cpp:684-685` installs no
handler and which ends `ebl` whatever it does; the container goes on (`main` is
then "died", against "interrupted"), and a request that was under way is carried
out or not. `disturbed` is another history:
projects on which containers have overlapped or been killed. A run that is not
in `Clis` is a container of the orchestrator; it carries no app-path label, so
the check for a running build does not see it. `ebl clean --all` lists the
containers that are not running, and removes each of them later, by force.

### BuildProgress and Dashboard

`HandleLine` is the tracker: markers, the percentages of Gradle, the milestones
of EAS, `clampAdvance`. `attachThread` takes a line in three critical sections
(`TakeLine`, `TrackLine`, `LogLine`), `statusThread` samples, copies, erases
and prints, and counts what it printed (`Sample`, `CopyState`, `Draw`,
`CountLines`), and main does the same once more. The terminal is the frame
that was printed last (`screen`) and the number of lines since the top of the
first (`height`); `leftover` says that an erase began below it. Lines of the
output are records by kind, not text.

### ConfigStore and Services

The names `config.json` and `config.json.tmp` denote inodes, so that a writer
whose temporary file has been renamed by somebody else still writes to the
renamed file. A text is empty, partial or whole, and names the key it is sealed
with; `machineKey` is 0 when the file does not decode to 32 bytes. Opening,
writing and renaming are steps; a write may fail on a full disk, of which the
code takes no notice for the key and of which `saveConfig` sees nothing either;
every command may be killed between any two. `setup` loads the configuration, pulls
for minutes and saves what it had loaded, and another command may save in between.
Three history variables keep apart what may happen then: `overlapped` (a command
that saves began while another was running), `crossed` (two commands had
`config.json.tmp` open at once), `outdated` (the commands that had loaded before
some `ebl config` saved; one of them that saves is a `StaleSave`). A container of a
service is known by its name and identified by the command that created it; `volumeKey` is the
master key that the orchestrator's volume was first started with.

### Json, JsonWriter, DockerStream and PipeHttp

Text is a sequence of tokens (a quote, a brace, an escape, a word). The parser is
two functions of the places of a text: `Strings(s)[i]` is what `parseString`
finds from place i on, `Parsed(s)[<<what, i>>]` the value, the items or the
members there, with the place after it or the exception. Numbers are whole: the
fraction and the exponent of `parseNumber`, numbers out of range, and the `%.17g`
branch of `dumpNumber` (`json.cpp:116-120`: fractions, and magnitudes of 1e15 and
more) are left out, and `RoundTrip` says nothing of them.

The bytes of a head, of a size line and of a line end are a token each. `wire`
is what the daemon still sends before it closes: any prefix of the answer.
`ReadSome` takes any number of tokens, which is every division into reads.
`StreamOf` is the `onChunk` of a call, byte after byte, with the residual line;
what the parser throws other than `JsonError` goes through everything.

`PipeAssumption` is what an answer is: `bytes` frame `body` as HTTP/1.1 says
(`Framed`; `chunks` names the places of the chunks), and an answer 200 of known
length is a list of images: pull and build are streamed.

### BuildManager

`status`, `appPath`, `keystoreId`, `keystoreRow` are tables; `queue`,
`runningCount`, `cancelledBuilds`, `activeContainers`, `pendingSecrets`,
`volumesReady` are the module-level variables of the code under their own
names; `container`, `printed`, `stopping` are Docker's. `at[b]` says which
await the launch of `b` has reached:

    creating -> attaching -> starting -> openingStats -> waiting
             -> (measuring ->) removing -> settled -> done

A step covers the code from one await to the next, which nothing can interrupt.
`processQueue` runs inside the handler that calls it: such a handler sets
`draining`, each turn of the loop is a step of its own, and no other handler
runs before the loop ends (`Idle`). A launch whose promise has settled waits
for its `.finally` callback, a microtask, which also precedes every other
handler. A failing Docker call is an alternative of every await. A restart
empties the memory, loses stop requests under way or not, and keeps tables and
containers.

### LiveView and LogPane

One build, since the hub, the snapshot and the page know builds by their id
only. Of its row, `status` is modelled; `phases` are its phases. A chunk of output is
its number, and `begins` says whether it names a phase: `chunks` have been printed, `logFile` of them are in the
file, and `Flush` is the write stream's business. `at` is `launchBuild` in fewer
places than in `BuildManager`, which is where the awaits are modelled; that the
row moves as the manager's abstraction says is proved (`MovesOnTheBoard`). `published` is everything `buildHub.publish` was ever given;
a viewer that subscribes stands at its end (`seen`), and takes one message after
the other. A connection that breaks loses what is after `seen`, and `Accept`
reads row, phases and file in the one turn that also subscribes. `Reduce` is
`onmessage`; `view` is the hook's state, with the status ref, which the same
messages set. Output that comes after `logStream.end()` makes a stream error that
nobody listens to: the build is `doomed`, and the process `Dies`, unless the stream
has been closed by then, when Node drops the write.

`LogPane` adds what the page does with the log: `Mount` is the first render with a
build, whose text the effect of `[]` keeps (`first`), `Loads` the end of xterm's
import, `Render` a render with another text. Lengths are counted in chunks.

## What TLC checks

| run | instance | properties |
|---|---|---|
| `invocation` | 22 worlds, more than twenty command lines; a terminal on both ends, on one or on none; one or two invocations; up to ten keys, three bytes waiting, one odd key | `StartsWellFormed`, `TokenFileIsIgnored`, `CancelledByEscape`, `JsonIsAnswered` |
| `cli_safety` | two invocations on one project with a release keystore, at least one with Gradle, the other with either engine; Ctrl-C and kills | `SuccessIsComplete`, `CancelledMeansStopped`, `SecretsRemoved` |
| `cli_live` | one invocation whose requests may fail, one container of the orchestrator, one `ebl clean --all` | `NoOrphan`, `CompletedBuildIsReported`, `AbortsWithReason`, `InvocationEnds` |
| `dashboard` | a Gradle build, an EAS build, a failing one; buffers of one and two lines | `FrameIsConsistent`, `BarNeverGoesBack`, `LastFrameIsFinal`, `NothingLeftOver`, `FailureShowsTheEnd`, `SummaryComes` |
| `install` | four casts of three commands, fresh or configured machine, full disk, kills, failing requests | `ConfigIsWhole`, `NobodyLockedOut`, `NoLostEdit`, `KeystoresReadable`, `LoneStartSucceeds`, `OnlineIsItsOwn` |
| `pipe` | ten answers in three framings, every division into reads, every end | `EventsInOrder`, `AnswerIsWhole`, `RoundTrip`, `RequestEnds` |
| `manager_restart` | two builds, two projects, two slots, a keystore, one restart | `TypeOK`, `ActiveRowIsLiveUntilRestart`, `ContainersHoldSlots`, `SuccessRanToTheEnd`, `ImplementsBoard` |
| `manager_live` | two builds, two projects, one slot, a keystore; Docker may refuse a removal | `SlotsMatchLaunches`, `NoIdleSlot`, `SettledLaunchHasVerdict`, `EveryBuildConcludes` |
| `live_view` | one viewer with its page and terminal, two chunks of output, one break, one restart or crash | `OnlyUnwrittenIsMissed`, `ScreenIsABeginning`, `StatusNeverGoesBack`, `VerdictIsLearnt` |

Three more runs (`cli_secrets_survive`, `config_bricked`, `pipe_spins`) show
properties the code does not have; see Findings. Some properties are proved and
have no run of their own: `OneActiveBuildPerProject` and `VerdictIsFinal` follow
from `ImplementsBoard`, whose steps neither open a second build of a project nor
leave a verdict; the type invariants of `CliBuild`, `Dashboard` and `LiveView`;
and of `LiveView` `LogInOrder`, `GivesUpOnVerdict`, `PhasesAgree` and
`MovesOnTheBoard`.

Why the bounds are enough. In `invocation` a menu and the prompt after it need
three bytes at a time (an arrow key, or an Enter and what comes after it), and
`MaxOdd` allows one arrow, Escape, F1 or Ctrl-C among words and Enters: every
question is reached, and one odd key at every point. Two invocations share two
files with one read and one write each. Of what a pipe gives, an empty line and a
line of one word are told apart by every question. In `CliBuild` a project is shared by at
most the check that misses a container and the container it misses, so two
suffice, and at least one of them uses Gradle, since what two overlapping EAS
builds do to each other's `eas.json` is a disturbance that `SecretsRemoved` sets
aside; all of a project's files are present in the large runs, because an
absent file has fewer ways to be lost, and `cli_secrets_survive` also starts
from an empty project. The dashboard's buffers are at their caps after one and
two lines, and the longest output has twelve. Three commands are what it takes
to damage a file, replace it and find it damaged. A pipe is cut at every token.
Interference in the manager is between two builds: `manager_restart` gives both
a slot, `manager_live` makes one wait; the theorems cover the rest. A viewer can
miss one chunk that is printed and not written and get the next, so `live_view`
has two; viewers do not touch each other's state, and one break and one restart
give a viewer up to three connections. Symmetry is used in runs of safety
properties and the refinement only.

Deadlock is checked except in `invocation`, where a prompt may wait for ever for
a user who types nothing, and in `live_view`, where a build that has ended and is
shown by everybody is the end.

### Fairness

`cli_live` assumes that threads run, that Docker answers every request (with
success or an error), and that a container ends: every long command of the
script runs under `run_with_timeout` or `run_with_idle_timeout`
(`build-entrypoint.sh:83-86`, `158-185`). That the timeouts work is read off the
script and not checked. `waitContainer` has no timeout of its own, which is why
they are needed. A signal, a kill of the container, `ebl clean` and a failing
request are never forced. `dashboard` assumes the same of its threads; the last output of a
container comes or the stream breaks. `pipe` assumes that the client runs and
that the daemon closes the connection in the end, as it must after
`Connection: close`. `manager_live` assumes that Node runs its callbacks, that
Docker answers, and that containers end. `live_view` assumes that a dead
orchestrator is started again (`restart: unless-stopped`), that a client whose
connection has broken gets a new one, since it retries at least every 15 s until
it has seen a verdict, and that an open connection delivers; the build is not
assumed to go on. Users are not assumed to do anything.

## What is proved

`BuildManagerProofs` proves, for any finite set of builds, any projects and
keystores, any `MaxConcurrent >= 1`, any number of restarts, and whether or not
removals fail, every safety property of `manager_restart` and `manager_live`,
and that `BuildManager` implements `BuildBoard`. The only assumption is
`ConstantsAssumption`, which TLC evaluates in both runs.

None of the properties is inductive alone. `SlotsMatchLaunches` says how many
launches there are, but `ShiftAndLaunch` raises the count by one only if the
build it takes from the queue is not in `Launches` already. So `IInv` adds
`QueueInv`: what waits in the queue was never launched, is there once, and is
"queued" or, if a cancel came first, "cancelled" and in `cancelledBuilds`, so
that `processQueue` skips it. `RowInv` ties the status of a row to the await its
launch is at: this is what makes `VerdictIsFinal` and the steps of the board
true, since the code writes 'running' or a verdict without reading the row.
`ContainerInv` ties containers to rows and launches; `HolderInv` says where a
container may still exist; `IdleInv` is `NoIdleSlot` in a form that holds while
a finally callback is pending. For each part there is a lemma with one step per
action; `NextIInv` puts them together, and each theorem follows by PTL. The
refinement has one lemma, `BoardNext`, that names the board's step for each of
the manager's.

`CliBuildProofs` proves, for any number of invocations, other containers,
projects, options and checkouts, any set of failing requests and `ebl clean` run
or not, every safety property of `cli_safety` and `cli_live`, from
`RunnerAssumption` and `CliAssumption`. Its `IInv` has a part for each of the
things an exit status depends on. `ScriptInv` ties the state of a container to
the place its script is at, `ThreadsInv` the place of the main thread to the
answers it has had: a container whose wait was answered has stopped, and the
removal that the watcher asked for has not been undone. `ReasonInv` says who can
have removed a container that main still uses, and that an output that ended
either broke or carried the artifact line; without it a late attach and a lost
line look the same when `RemoveAndReport` decides. `VerdictInv` then says of
each exit status what is left behind, and that no later step changes it.
`NoOrphanIsLeft` is about an `ebl` that ends by itself, which leaves no container,
and one that SIGINT or SIGTERM ends, which leaves none running. Of one that another
signal ends nothing is proved, since it is not so (`NeverLeftRunning`, below).
`SecretsRemoved` speaks of projects without a running container only, so
`SecretsInv` says what holds while a script runs: of the scripts on an
undisturbed project there is one, and its trap, run now, would leave no secret.
That needs the order of the script: the backup of `eas.json` is taken before
the patch (`backup`, then `credentials`, then `patchEasJson`), and by a script
that has none yet. The effect of the sixteen commands is stated once, in
`ScriptEffect` and `ScriptSecrets`.

`ServicesProofs` proves, for any number of commands of any kinds, with any
failing requests, full disks and kills, every safety property of `install` and
its action property, from `StoreAssumption`. Inodes are what the invariant is
about: `FreshInodes` says that no file was made twice, `TmpIsItsOwn` and
`OneWriter` that as long as no two commands have had it open at once the name
`config.json.tmp` is the file of the one command that writes it, and
`EmptyIsBlank` that what an open has truncated is not yet in place. From these,
what `rename` puts in place is whole. `TokensAgree`, `KeysAgree` and
`MastersAgree` tie what a command has loaded to what is on the disk: that is
where a lost edit, a lock-out or a new master key would come from. `TokensAgree`
speaks of every command that is not `outdated`: what it has loaded, and will save,
has the token that the last `ebl config` saved. So `NoEditIsLost` says which ways
there are to lose an edit: a save by a command that had loaded before it, and two
writers of one `config.json.tmp`; nothing else that runs at the same time, is
killed or meets a full disk does. That the first way is taken is `EditsSurvive`,
below. `OneSaver` is `OneWriter` for whole saves, which the keys need, and
`CrossedIsOverlapped` ties the two histories together.
`ServicesAgree`, `RunningIsThere`, `OneUser` and `PlacesHold` follow `start`
through its removal and creation of containers by name, for the run of a lone
`start`.

`DashboardProofs` proves, for any outputs of a container and any sizes of the
two buffers, the safety properties of `dashboard` and that the bar never goes
back. `DashboardAssumption` says that the buffers hold a line at least,
`OutputsAssumption` what a line may be, and `ScriptAssumption` that the phases
of an output come in the order of `build-entrypoint.sh:249-429` and that the
engine is named before any phase past install; TLC evaluates all three.
`FrameIsConsistent` needs `ToCome`: what is still to be read cannot take the
phase back, or a copy of the phase and an older copy of the percentage would not
fit together. `FailureShowsTheEnd` needs `EndKept`: at every step the buffer is
the end of the log of the lines read so far. That log is a recursive function of
the output (`LogUpTo`); the lemmas about it go by the least counterexample,
which `Extremes` provides.

`InvocationProofs` proves, for any number of invocations on one checkout, any
checkout and environment, any command lines and anything typed on any keyboard or
given by a pipe, the four properties of `invocation`, from `TerminalAssumption` (a
word is not empty and no key) and `WorldsAssumption` (the types of a checkout, and that no
profile has the name that stands for none). The invariant follows one invocation
through its questions: `Placed` says what the wizard has settled by each of them
(where no wizard was, `DefaultIsDeclared` says that the default profile of
`build.cpp:547-558` is one that the project declares, if it declares any),
`Accepted` that what was validated is still valid when the token has been asked
for and saved, `Silent` that `--json` reaches no question. `Ignored` is about all
of them: `.ebl-token` may stand in the project before `.gitignore` names it only
while some saver is between the two, and an `append` that was decided on an older
`.gitignore` is still right when it is made. `Heard` is about bytes:
`SequencesAreWhole` says that an ESC that waits or arrives has its bracket behind
it, wherever the reads, the prompts and raw mode have cut what was typed; the
only ways to lose it are those that `escaped` and `split` record.

`PipeHttpProofs` proves, for any answers that `PipeAssumption` allows, with
chunks of any sizes, any division into reads and a connection that closes at any
byte, that `EventsInOrder` and `AnswerIsWhole` hold. The invariant names three
places of the answer's bytes, up to which they have been used, read, and will
be sent (`Stretch`), says where in the framing the first of them is (`Placed`),
and that `taken` is a beginning of the body (`HasTaken`), all of it once the last
chunk was seen (`AllTaken`). That events come in order is
a lemma about `StreamOf`, by the least counterexample. An answer of known length
that is cut ends as if it were complete (`http_client_win.cpp:272`), so there
`AnswerIsWhole` rests on the parser: the same module shows that a list, an object or
a string of which only a beginning has come does not parse, or parses to what
the whole text parses to. Its lemmas show that both recursions are defined (a
value is read to a later place), and compare a text with its beginning from the
last place to the first.

`LiveViewProofs` proves, for any number of viewers, any length of the output, and
any number of breaks and restarts, every safety and action property of
`live_view` and the four of `LiveView` that have no run, from `LiveViewAssumption`
(the bounds are numbers). `PaneRunsOnTheConnection` carries what is proved of the
connection over to the page.
None of them is about `published`, yet all follow from it. `History` says that the
messages, each with the state of the build at the moment it was sent, are a history
of the build: each changes what its type says and nothing else, and the last agrees
with row, phases and chunks. So a position in it is a past state of the build, and
`JoinedInv` and `LiveInv` say that a snapshot and a view are what the build was at
the viewer's position; `LogIs` says which chunks a viewer has then (those in the
file of its snapshot, and those after the snapshot). `ShownInv` is what is left of
this when the connection is gone. With `LaunchInv`, which is to `launchBuild` what
`RowInv` is in `BuildManager`, the status only rises, whatever restarts. For the
terminal, `TextsInv` orders four texts: first render, last render, screen and log
are beginnings of one another until a second snapshot comes.

Only model-checked: `RoundTrip`, since the writer follows the structure of a
value, over which the prover has no induction; and all liveness (`InvocationEnds`,
`SummaryComes`, `RequestEnds`, `EveryBuildConcludes`, `VerdictIsLearnt`: temporal
proofs under fairness are out of the prover's reach).

## Findings

Each is a run that TLC finds violated; the trace is a real schedule.

1. **Secrets survive Ctrl-C** (`cli_secrets_survive`, `build-entrypoint.sh:225`).
   `ebl build` cancels by force-removing the container; the EXIT trap that
   removes the signing secrets does not run, and they stay in the project.
2. **A configuration that no command can open** (`config_bricked`,
   `config_store.cpp:59`). A failed write of `machine.key` goes unnoticed, the
   next command replaces the key, and `config.json` stays sealed with a key
   that no longer exists.
3. **A request that never ends** (`pipe_spins`, `http_client_win.cpp:208`). A
   read that ends inside the size line of a chunk leaves `readLine` in an
   endless loop.

Met on the way, and not given a run. The first eleven are stated as definitions
that TLC refutes when they are added to a configuration as invariants.

* `OneContainerPerProject` (`BuildManager`): a Docker call that fails after
  `container.start()` closes the row before the container is removed
  (`manager.ts:331`, `336`); the next build of the project starts beside it.
* `CancelStopsContainer` (`BuildManager`): a cancel answered `true` while the
  container is being created is not looked at again before `container.start()`
  (`manager.ts:281`).
* `ActiveRowIsLive` (`BuildManager`, with a restart): after a restart active
  rows stay active and refuse every build of their project (`server.ts:63`).
* `NeverLeftRunning` (`CliBuild`): closing the terminal (SIGHUP), SIGQUIT or
  SIGKILL ends `ebl build` while its container runs on, since only SIGINT and
  SIGTERM have a handler (`build.cpp:684-685`). The comment above it says "Without
  this, interrupting `ebl build` would kill this process but leave the container
  running indefinitely" (`:681-683`).
* `EditsSurvive` (`ConfigStore`): `ebl setup` loads the configuration before its
  pulls and saves it after them (`setup.cpp:145`, `:167`); what an `ebl config` has
  saved in between is undone, although `config_store.hpp:2-3` says that the file is
  "the result of `ebl config`". `NoLostEdit` says that no edit is lost otherwise.
* `ReleaseHasAlias` (`Invocation`): `--release --keystore <path>` without
  `--key-alias`, or an empty answer to the wizard's question, goes on to Docker with
  an empty `KEY_ALIAS`, although the usage says "Key alias (required with
  --release)" (`build.cpp:123`); only the keystore is looked for (`:540-545`).
* `NothingHeldBack` (`Invocation`): Enters pressed early are given to stdio's
  buffer by the first prompt, where the next menu's `readKey` does not look; they
  answer the prompt after it, in the end "Start the build? [Y/n]"
  (`prompt.cpp:25`). The comment at `tui_input.cpp:67-74` says why the two ways of
  reading must not be mixed. The same happens on a pty.
* `FullLog` (`LiveView`): the snapshot reads the log file while published chunks
  are still in the write stream's buffer; the viewer that joins then has them
  neither from the file nor from the hub (`server.ts:55`), although
  `useBuildSocket.ts:17-18` says "full log text". `OnlyUnwrittenIsMissed` says
  that these are all it lacks.
* `ArrivedIsWritten` (`LogPane`): what arrives while xterm is imported is written
  when more arrives, and not before, of a build that has finished never
  (`LiveLogs.tsx:51-55`, `:82`): its page may show an empty terminal.
* `StaysUp` (`LiveView`): output that the stream of the container delivers after
  `wait` has answered and `logStream.end()` was called is written all the same
  (`manager.ts:209`, `:333`); the 'error' event has no listener and ends the
  orchestrator.
* `CancelExits130` (`CliBuild`): if `cancelWatcher` removes the container before
  it is started or waited for, the 404 is thrown past two joinable threads, and
  the process ends by `std::terminate` with status 134 where
  `docs/CHANGELOG.md:1670` promises 130 (`build.cpp:844-845`).
* `RawModeGuard` clears ICANON and ECHO but not ISIG, so Ctrl-C in a menu is a
  SIGINT that kills `ebl` with the terminal left in raw mode; the comments at
  `tui_input.cpp:33-36` and `:99` say otherwise.
* Escape followed by anything but a bracket (F1, Alt with a letter) is read as
  Escape and cancels the wizard (`tui_input.cpp:96`); `CancelledByEscape` counts
  such keys as Escape.
* An empty `EXPO_TOKEN`, or `--expo-token ""`, hides the token file and the
  saved token (`build.cpp:574-577`).
* "(added to .gitignore)" is printed although an append to a read-only
  `.gitignore` has failed (`build.cpp:85-87`, `:623`); `TokenFileIsIgnored`
  excludes it. Two invocations that save at a time add the entry twice.
* `engineResolved` is written to the row and no message says so
  (`manager.ts:235-239`): a page that was open before shows no engine until the
  build ends, and never that of a cancelled one, although `page.tsx:17-19` says
  that the snapshot "keeps everything current". The engine is not modelled.
* A page that reconnects repeats pieces of the log on its terminal or leaves some
  out: the new log starts from another snapshot, and only its length is compared
  (`LiveLogs.tsx:83-90`); `ScreenIsABeginning` is about the first snapshot.
* The end of the last phase is not published (`manager.ts:315`), so an open page
  shows it as going on after the build has ended; late output, or a Docker call
  that fails, leaves a phase open in the table too.
* What `loadConfig` and `detectExpoProject` throw is caught by nobody
  (`build.cpp:515`, `:564`): exit status 134, and no object under `--json`.
* With engine `eas`, a keystore and no `eas.json`, the failed `cp` of
  `build-entrypoint.sh:323` leaves an empty backup that the trap puts into the
  project. A developer's own `credentials.json` is overwritten and deleted in an
  `eas` release build; own Gradle keys are deleted by every build. Builds of the
  CLI and of the orchestrator that overlap may take the same build number.

## Not modelled

* Of `ebl`: dispatch, completion, `create` and the update check; which passwords
  were given; fractions and large numbers in JSON; the artifact's
  metrics, the figures of `docker stats`, the layout of pull progress and of
  the tar archive, which are functions of their input without state; the
  Windows console's `readKey` and the end of file on a terminal; the
  installation of Docker and the choice of ports in `setup` and `config`.
  Over the Unix socket libcurl does the framing.
* Of the script: the edits of `build.gradle`, `.npmrc` and `.gitignore`, and the
  copied artifact's name.
* Of the orchestrator: the engine, progress and samples of a build; a `decrypt` or
  `writeFileSync` that throws; write errors of the log other than the late write;
  the secrets' tables.
* Of the page: the data it has by REST until the first snapshot, the page of a
  build that is not there, and effects that React runs twice in development.
* The Go port, the web forms, installers, packaging and the landing page.

## Plan

Done: the build manager, the runner script and `ebl build`, its front and its
dashboard, configuration and services, the Docker transport, and the live view,
each with its proofs. What is left:

1. The update check with its cache and clock, and the renderer of pull progress
   against the screen, as a further part of `PipeHttp`'s calls.
2. Engine, progress and samples of a build, which the client of `LiveView` folds too.
