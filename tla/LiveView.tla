------------------------------ MODULE LiveView ------------------------------
(***************************************************************************)
(* One build as its viewers see it: the row, the phases and the log file   *)
(* that launchBuild writes (orchestrator/src/build/manager.ts), the        *)
(* snapshot of a new connection (server.ts), the messages of the hub       *)
(* (ws/hub.ts), and the reconnecting client (lib/useBuildSocket.ts).       *)
(*                                                                         *)
(* A chunk of the build's output is its number.  The write stream of the   *)
(* log is buffered: the first logFile chunks are in the file.  Messages    *)
(* are never removed from `published`: a viewer has taken those up to      *)
(* seen[v] and the rest is on its way.  A message also carries the state   *)
(* of the build when it was sent; the client reads the field of its type.  *)
(* Of the row, only the status is modelled.                                *)
(***************************************************************************)
EXTENDS Naturals, Sequences

CONSTANTS Viewers,      \* pages that show the build
          MaxChunks,    \* bound on the chunks of output
          MaxDrops,     \* bound on the connections of a viewer that break
          MaxRestarts   \* bound on restarts of the orchestrator

ASSUME LiveViewAssumption ==
    MaxChunks \in Nat /\ MaxDrops \in Nat /\ MaxRestarts \in Nat

VARIABLES
    \* the row of the build and its phases, which survive a restart
    status, phases,
    \* the log: chunks printed so far, chunks in the file, the write stream
    chunks, logFile, logStream,
    \* launchBuild, cancelledBuilds, an 'error' event nobody listens to
    at, cancelled, doomed, restarts,
    \* what the hub was given
    published,
    \* every viewer: its connection, the snapshot it was sent, the number of
    \* the last message it took, what it shows
    link, snapshot, seen, view,
    \* history: connections that broke, snapshots that arrived
    drops, snapshots

row     == <<status, phases>>
log     == <<chunks, logFile, logStream>>
process == <<at, cancelled, doomed, restarts>>
server  == <<row, log, process, published>>
client  == <<link, snapshot, seen, view, drops, snapshots>>
vars    == <<server, client>>

Terminal == {"success", "failed", "cancelled"}
Statuses == {"queued", "starting", "running"} \cup Terminal
Phases   == Seq([phase : Nat, ended : BOOLEAN])

Messages == [type : {"log", "phase", "status"}, status : Statuses,
             chunk : Nat, phase : Nat]
Views    == [status : {"none"} \cup Statuses, phases : Phases, log : Seq(Nat)]

TypeOK ==
    /\ status \in Statuses
    /\ phases \in Phases
    /\ chunks \in 0..MaxChunks /\ logFile \in 0..chunks
    /\ logStream \in {"none", "open", "ended", "closed"}
    /\ at \in {"queued", "creating", "uncreated", "running", "measuring",
               "over", "forgotten"}
    /\ cancelled \in BOOLEAN
    /\ doomed \in BOOLEAN
    /\ restarts \in Nat
    /\ published \in Seq(Messages)
    /\ link \in [Viewers -> {"waiting", "joined", "live", "gaveUp"}]
    /\ snapshot \in [Viewers -> [status : Statuses, phases : Phases,
                                 file : Nat, chunks : Nat]]
    /\ seen \in [Viewers -> 0..Len(published)]
    /\ view \in [Viewers -> Views]
    /\ drops \in [Viewers -> Nat]
    /\ snapshots \in [Viewers -> Nat]

\* db.getBuild, db.listPhases and readLogFile, read in one turn.  `chunks`
\* is history: how many there were.
ReadBuild ==
    [status |-> status, phases |-> phases, file |-> logFile, chunks |-> chunks]

\* startBuild has inserted the row and written an empty log file.
Init ==
    /\ status = "queued"
    /\ phases = <<>>
    /\ chunks = 0
    /\ logFile = 0
    /\ logStream = "none"
    /\ at = "queued"
    /\ cancelled = FALSE
    /\ doomed = FALSE
    /\ restarts = 0
    /\ published = <<>>
    /\ link = [v \in Viewers |-> "waiting"]
    /\ snapshot = [v \in Viewers |-> ReadBuild]
    /\ seen = [v \in Viewers |-> 0]
    /\ view = [v \in Viewers |->
                 [status |-> "none", phases |-> <<>>, log |-> <<>>]]
    /\ drops = [v \in Viewers |-> 0]
    /\ snapshots = [v \in Viewers |-> 0]

-----------------------------------------------------------------------------
(* The build.                                                              *)

\* endOpenPhases, and the client's copy of it.
EndOpenPhases(ps) == [i \in DOMAIN ps |-> [ps[i] EXCEPT !.ended = TRUE]]

\* endOpenPhases and insertPhase.
NextPhase(ps, n) == Append(EndOpenPhases(ps), [phase |-> n, ended |-> FALSE])

\* What handleLines does; begins: does one of the lines begin a phase?
PhasesAfter(begins) ==
    IF begins THEN NextPhase(phases, Len(phases) + 1) ELSE phases

PhaseMessages(begins, c) ==
    IF begins
    THEN <<[type |-> "phase", status |-> status, chunk |-> c, phase |-> Len(phases) + 1]>>
    ELSE <<>>

LogMessage(n) ==
    [type |-> "log", status |-> status, chunk |-> n, phase |-> Len(phases)]

\* db.updateBuild(status), and its message after those of the last lines.
BecomesAfter(begins, s) ==
    /\ status' = s
    /\ published' = published \o PhaseMessages(begins, chunks) \o
         <<[type |-> "status", status |-> s, chunk |-> chunks,
            phase |-> Len(PhasesAfter(begins))]>>

Becomes(s) == BecomesAfter(FALSE, s)

\* Mutant: cancelBuild takes a build that is being launched for a queued one.
CancelStarting ==
    /\ ~doomed
    /\ status \in {"queued", "starting"}
    /\ cancelled' = TRUE
    /\ Becomes("cancelled")
    /\ UNCHANGED <<phases, log, at, doomed, restarts, client>>

CancelQueued ==
    /\ ~doomed
    /\ status = "queued"
    /\ cancelled' = TRUE
    /\ Becomes("cancelled")
    /\ UNCHANGED <<phases, log, at, doomed, restarts, client>>

\* The container is told to stop, if there is one.
CancelLaunched ==
    /\ ~doomed
    /\ status \in {"starting", "running"}
    /\ cancelled' = TRUE
    /\ UNCHANGED <<row, log, at, doomed, restarts, published, client>>

Launch ==
    /\ at = "queued"
    /\ status = "queued"
    /\ Becomes("starting")
    /\ at' = "creating"
    /\ logStream' = "open"
    /\ UNCHANGED <<phases, chunks, logFile, cancelled, doomed,
                   restarts, client>>

\* No container, or no keystore any more.  The stream is never ended.
CreateFails ==
    /\ at = "creating"
    /\ Becomes("failed")
    /\ at' = "uncreated"
    /\ UNCHANGED <<phases, log, cancelled, doomed, restarts, client>>

Created ==
    /\ at = "creating"
    /\ Becomes("running")
    /\ at' = "running"
    /\ UNCHANGED <<phases, log, cancelled, doomed, restarts, client>>

\* appendLogRedacted and handleLines.  Output may come after the answer to
\* wait.  A write after end() is an 'error' event of the stream, unless it
\* has been closed; the event ends the process.
Output(begins) ==
    /\ at \in {"running", "measuring", "over"}
    /\ ~doomed
    /\ chunks < MaxChunks
    /\ logStream = "ended" => restarts < MaxRestarts
    /\ chunks' = chunks + 1
    /\ published' = published \o <<LogMessage(chunks + 1)>> \o PhaseMessages(begins, chunks + 1)
    /\ phases' = PhasesAfter(begins)
    /\ doomed' = (logStream = "ended")
    /\ UNCHANGED <<status, logFile, logStream, at, cancelled, restarts, client>>

Flush ==
    /\ logStream \in {"open", "ended"}
    /\ ~doomed
    /\ logFile < chunks
    /\ logFile' = logFile + 1
    /\ UNCHANGED <<row, chunks, logStream, process, published, client>>

CloseStream ==
    /\ logStream = "ended"
    /\ ~doomed
    /\ logFile = chunks
    /\ logStream' = "closed"
    /\ UNCHANGED <<row, chunks, logFile, process, published, client>>

\* The residual line, the end of the last phase (not published), and then a
\* verdict, or the metrics of the artifact.
WaitAnswers(begins, verdict) ==
    /\ at = "running"
    /\ cancelled <=> verdict = "cancelled"
    /\ phases' = EndOpenPhases(PhasesAfter(begins))
    /\ IF verdict = "success"
       THEN /\ published' = published \o PhaseMessages(begins, chunks)
            /\ at' = "measuring"
            /\ UNCHANGED <<status, logStream, cancelled>>
       ELSE /\ BecomesAfter(begins, verdict)
            /\ at' = "over"
            /\ logStream' = "ended"
            /\ cancelled' = FALSE
    /\ UNCHANGED <<chunks, logFile, doomed, restarts, client>>

\* finalizeSuccess or finalizeFailed, and the finally block.
Conclude(verdict) ==
    /\ Becomes(verdict)
    /\ at' = "over"
    /\ logStream' = "ended"
    /\ cancelled' = FALSE
    /\ UNCHANGED <<phases, chunks, logFile, doomed, restarts, client>>

MetricsAnswer(verdict) == at = "measuring" /\ Conclude(verdict)

\* A call of Docker throws: the last phase stays open.
DockerCallFails == at = "running" /\ Conclude("failed")

-----------------------------------------------------------------------------
(* The client.                                                             *)

\* The reducer of onmessage.  Its statusRef is view.status: both are set by
\* the same messages, to the same value.

\* Mutant: a status starts from an empty state, not from s.
ReduceAfresh(s, m) ==
    CASE m.type = "log" -> [s EXCEPT !.log = Append(@, m.chunk)]
      [] m.type = "phase" -> [s EXCEPT !.phases = NextPhase(@, m.phase)]
      [] m.type = "status" ->
           [s EXCEPT !.status = m.status, !.log = <<>>]

Reduce(s, m) ==
    CASE m.type = "log" -> [s EXCEPT !.log = Append(@, m.chunk)]
      [] m.type = "phase" -> [s EXCEPT !.phases = NextPhase(@, m.phase)]
      [] m.type = "status" ->
           [s EXCEPT !.status = m.status]

UpTo(n) == [i \in 1..n |-> i]

\* The upgrade handler: one turn reads the build, sends the snapshot and
\* subscribes, so that the next message is the first one after it.
Accept(v) ==
    /\ link[v] = "waiting"
    /\ ~doomed
    /\ link' = [link EXCEPT ![v] = "joined"]
    /\ snapshot' = [snapshot EXCEPT ![v] = ReadBuild]
    /\ seen' = [seen EXCEPT ![v] = Len(published)]
    /\ UNCHANGED <<server, view, drops, snapshots>>

GetSnapshot(v) ==
    /\ link[v] = "joined"
    /\ link' = [link EXCEPT ![v] = "live"]
    /\ view' = [view EXCEPT ![v] =
         [status |-> snapshot[v].status, phases |-> snapshot[v].phases,
          log |-> UpTo(snapshot[v].file)]]
    /\ snapshots' = [snapshots EXCEPT ![v] = @ + 1]
    /\ UNCHANGED <<server, snapshot, seen, drops>>

GetMessage(v) ==
    /\ link[v] = "live"
    /\ seen[v] < Len(published)
    /\ seen' = [seen EXCEPT ![v] = @ + 1]
    /\ view' = [view EXCEPT ![v] = Reduce(@, published[seen[v] + 1])]
    /\ UNCHANGED <<server, link, snapshot, drops, snapshots>>

\* Mutant: onclose stops on any status.
AfterCloseOfAny(v) == IF view[v].status # "none" THEN "gaveUp" ELSE "waiting"

\* onclose: what has not arrived is lost; retry unless a verdict was seen.
AfterClose(v) == IF view[v].status \in Terminal THEN "gaveUp" ELSE "waiting"

Breaks(v) ==
    /\ link[v] \in {"joined", "live"}
    /\ drops[v] < MaxDrops
    /\ link' = [link EXCEPT ![v] = AfterClose(v)]
    /\ drops' = [drops EXCEPT ![v] = @ + 1]
    /\ UNCHANGED <<server, snapshot, seen, view, snapshots>>

\* The process ends and is started again: rows and the file stay, nobody
\* continues the build, every connection breaks.
Reboot ==
    /\ restarts' = restarts + 1
    /\ at' = "forgotten"
    /\ logStream' = "none"
    /\ cancelled' = FALSE
    /\ doomed' = FALSE
    /\ link' = [v \in Viewers |->
                  IF link[v] \in {"joined", "live"} THEN AfterClose(v) ELSE link[v]]
    /\ UNCHANGED <<row, chunks, logFile, published, snapshot, seen, view, drops,
                   snapshots>>

Restart == restarts < MaxRestarts /\ ~doomed /\ Reboot

\* What was sent before the event is on its way: a viewer may still get it.
Dies == doomed /\ Reboot

-----------------------------------------------------------------------------
Build ==
    \/ CancelQueued \/ CancelLaunched
    \/ Launch \/ CreateFails \/ Created
    \/ \E begins \in BOOLEAN :
        \/ Output(begins)
        \/ \E verdict \in Terminal : WaitAnswers(begins, verdict)
    \/ Flush \/ CloseStream
    \/ DockerCallFails
    \/ \E verdict \in {"success", "failed"} : MetricsAnswer(verdict)
    \/ Restart \/ Dies

Connection(v) ==
    Accept(v) \/ GetSnapshot(v) \/ GetMessage(v) \/ Breaks(v)

Next == Build \/ \E v \in Viewers : Connection(v)

Spec == Init /\ [][Next]_vars

\* The orchestrator is up again after it has died, a client retries at least
\* every 15 s, and a connection that holds delivers.
Fairness ==
    /\ WF_vars(Dies)
    /\ \A v \in Viewers : WF_vars(Accept(v)) /\ WF_vars(GetSnapshot(v))
                            /\ WF_vars(GetMessage(v))

-----------------------------------------------------------------------------
(* Properties.                                                             *)

\* A viewer that has taken everything the hub was given.
UpToDate(v) == link[v] = "live" /\ seen[v] = Len(published)

\* However a viewer's connections broke, its log never shows a chunk twice
\* and never a later one first (useBuildSocket.ts, "snapshot" and "log").
LogInOrder ==
    \A v \in Viewers : \A i, j \in DOMAIN view[v].log :
        i < j => view[v].log[i] < view[v].log[j]

\* A viewer that is up to date shows what was in the file when its snapshot was
\* taken and what was printed after that: it lacks what had been printed and not
\* yet written, and nothing else (server.ts:50-58).
OnlyUnwrittenIsMissed ==
    \A v \in Viewers : UpToDate(v) =>
        view[v].log = UpTo(snapshot[v].file)
                        \o [i \in 1..(chunks - snapshot[v].chunks) |-> snapshot[v].chunks + i]

\* A client shows a verdict, and gives up, only on the verdict of the row.
GivesUpOnVerdict ==
    \A v \in Viewers :
        /\ view[v].status \in Terminal => view[v].status = status
        /\ link[v] = "gaveUp" => view[v].status \in Terminal

Rank(s) == CASE s = "none" -> 0 [] s = "queued" -> 1 [] s = "starting" -> 2
             [] s = "running" -> 3 [] OTHER -> 4

\* The status a viewer shows never goes back, not even when it reconnects to an
\* orchestrator that has restarted.
StatusNeverGoesBack ==
    [][\A v \in Viewers : view'[v].status = view[v].status
                            \/ Rank(view[v].status) < Rank(view'[v].status)]_vars

\* A viewer's phases are a beginning of the table's, all of it when it is up
\* to date; each but the last is shown as over, and what is shown as over is.
PhasesAgree ==
    \A v \in Viewers :
        LET ps == view[v].phases IN
        /\ Len(ps) <= Len(phases)
        /\ \A i \in DOMAIN ps :
            /\ ps[i].phase = phases[i].phase
            /\ ps[i].ended => phases[i].ended
            /\ i < Len(ps) => ps[i].ended
        /\ UpToDate(v) => Len(ps) = Len(phases)

\* The row moves as BuildManager's abstraction says.  The slot of a launch is
\* not given back here.
Board == INSTANCE BuildBoard WITH
    Builds <- {0}, Projects <- {0}, None <- 1, MaxConcurrent <- 1,
    status <- [b \in {0} |-> status], appPath <- [b \in {0} |-> 0],
    slots <- IF at \in {"queued", "forgotten"} THEN {} ELSE {0}

MovesOnTheBoard == [][Board!Next]_(Board!boardVars)

\* Every viewer learns the verdict, whatever is lost on the way.
VerdictIsLearnt ==
    \A v \in Viewers : status \in Terminal ~> view[v].status = status

(* What the source's comments say, and the code does not do.               *)

\* "full log text" (useBuildSocket.ts:18-20).
FullLog ==
    \A v \in Viewers : UpToDate(v) => view[v].log = UpTo(chunks)

\* Output that comes late ends the process.
StaysUp == ~doomed
=============================================================================
