------------------------------ MODULE Dashboard ------------------------------
(***************************************************************************)
(* The live view of `ebl build` (commands/build.cpp, build_status_view.cpp)*)
(* and its three threads.  attachThread runs onChunk on every line of the  *)
(* output and is the only writer of the shown state but for the CPU and    *)
(* memory samples; statusThread samples, copies and renders it every       *)
(* second; main renders it once more when the output has ended.            *)
(* statusMutex protects the state, in a critical section per field;        *)
(* nothing protects the view and its linesRendered_.                       *)
(*                                                                         *)
(* The terminal is what has been printed since the top of the last frame:  *)
(* `height` lines, of which a renderer erases as many as it believes it    *)
(* printed.                                                                *)
(***************************************************************************)
EXTENDS BuildProgress, SequencesExt

CONSTANTS Outputs,      \* what a container may print: sequences of lines
          RecentLines,  \* kRecentLogLineCap
          FullLines     \* kFullLogLineCap

ASSUME DashboardAssumption == RecentLines \in Nat \ {0} /\ FullLines \in Nat \ {0}

\* Markers with what they name, Gradle's percentage, eas-cli's milestones, the
\* rest of the text, and escape sequences alone.
Printable ==
    [kind : {"phase", "engine"}, id : STRING] \cup [kind : {"progress"}, n : Int]
    \cup [kind : {"percent"}, n : 0..100] \cup [kind : {"milestone"}, n : DOMAIN EasMilestones]
    \cup [kind : {"text"}, text : STRING] \cup [kind : {"artifact", "noise"}]

ASSUME OutputsAssumption == Outputs \subseteq Seq(Printable)

IsPhase(l) == l.kind = "phase" /\ PhaseIndexOf(l.id) # {}

\* build-entrypoint.sh comes to its phases in their order, and has installed at
\* most when it names its engine.
InOrder(lines) ==
    \A i, j \in DOMAIN lines : i < j /\ IsPhase(lines[i]) =>
        /\ IsPhase(lines[j]) => Index(lines[i].id) <= Index(lines[j].id)
        /\ lines[j].kind = "engine" => Index(lines[i].id) <= Index("install")

ASSUME ScriptAssumption == \A lines \in Outputs : InOrder(lines)

VARIABLES
    output,    \* what is still to come
    stopped,   \* whether the container has ended
    attachError, \* whether the stream of its output broke
    attach, line,          \* attachThread, and the line it is at
    tracker, shown,        \* progressTracker, statusState
    fullLog, artifact,     \* fullLogBuffer, whether artifactPath is set
    renders, frame,        \* of main and statusThread: where in render(), with what
    main, finished,        \* main, buildFinished
    linesRendered, height, screen,  \* the view, and the terminal
    sampled,               \* whether statusThread had its sample this time
    \* history: lines read; two renders at the same time; Ctrl-C; rows left over
    read, raced, cancelled, leftover

outputVars == <<output, stopped, attachError, attach, line, tracker, shown, fullLog, artifact, read>>
viewVars   == <<renders, frame, linesRendered, height, screen, raced, leftover>>
vars == <<outputVars, viewVars, main, finished, sampled, cancelled>>

Renderers == {"main", "status"}
NoLine == [kind |-> "none"]
Marker(l) == l.kind \notin {"text", "percent", "milestone", "noise"}

Init ==
    /\ output \in Outputs
    /\ stopped = FALSE /\ attachError = FALSE
    /\ attach = "reading" /\ line = NoLine
    /\ tracker = Start
    /\ shown = [phase |-> "setup", percent |-> 0, recent |-> <<>>]
    /\ fullLog = <<>> /\ artifact = FALSE
    /\ renders = [r \in Renderers |-> "idle"]
    /\ frame = [r \in Renderers |-> shown]
    /\ main = "waiting" /\ finished = FALSE
    /\ linesRendered = 0 /\ height = 0 /\ screen = shown
    /\ sampled = FALSE
    /\ read = <<>> /\ raced = FALSE /\ cancelled = FALSE /\ leftover = FALSE

-----------------------------------------------------------------------------
(* onChunk.                                                                *)

\* Mutant: the percentage is shown before the phase.
PercentFirst ==
    /\ attach = "reading"
    /\ output # <<>>
    /\ line' = Head(output)
    /\ output' = Tail(output)
    /\ read' = Append(read, line')
    /\ tracker' = HandleLine(tracker, line')
    /\ artifact' = (artifact \/ line'.kind = "artifact")
    /\ shown' = [shown EXCEPT !.percent = tracker'.percent]
    /\ attach' = "tracking"
    /\ UNCHANGED <<stopped, attachError, fullLog, viewVars, main, finished, sampled, cancelled>>

\* The markers that name something, then the phase that is shown.
TakeLine ==
    /\ attach = "reading"
    /\ output # <<>>
    /\ line' = Head(output)
    /\ output' = Tail(output)
    /\ read' = Append(read, line')
    /\ tracker' = IF line'.kind = "engine" THEN SetEngine(tracker, line'.id) ELSE tracker
    /\ artifact' = (artifact \/ line'.kind = "artifact")
    /\ shown' = IF line'.kind = "phase" THEN [shown EXCEPT !.phase = line'.id] ELSE shown
    /\ attach' = "tracking"
    /\ UNCHANGED <<stopped, attachError, fullLog, viewVars, main, finished, sampled, cancelled>>

\* progressTracker.handleLine; a marker goes no further.
TrackLine ==
    /\ attach = "tracking"
    /\ tracker' = HandleLine(tracker, line)
    /\ shown' = [shown EXCEPT !.percent = tracker'.percent]
    /\ attach' = IF Marker(line) THEN "reading" ELSE "logging"
    /\ UNCHANGED <<output, stopped, attachError, line, fullLog, artifact, read, viewVars, main, finished,
                   sampled, cancelled>>

\* Mutant: the newest line is dropped when the buffer is full.
PushKeepingTheFirst(buffer, l, cap) == SubSeq(Append(buffer, l), 1, AtMost(cap, Len(buffer) + 1))

Push(buffer, l, cap) ==
    LET all == Append(buffer, l) IN SubSeq(all, AtLeast(1, Len(all) - cap + 1), Len(all))

\* What stripAnsiEscapes leaves nothing of is not shown.
LogLine ==
    /\ attach = "logging"
    /\ IF line.kind = "noise"
         THEN UNCHANGED <<shown, fullLog>>
         ELSE /\ shown' = [shown EXCEPT !.recent = Push(@, line, RecentLines)]
              /\ fullLog' = Push(fullLog, line, FullLines)
    /\ attach' = "reading"
    /\ UNCHANGED <<output, stopped, attachError, line, tracker, artifact, read, viewVars, main, finished,
                   sampled, cancelled>>

\* The container may end anywhere; what it printed is still delivered.
ContainerStops ==
    /\ ~stopped
    /\ stopped' = TRUE
    /\ \E n \in 0..Len(output) : output' = SubSeq(output, 1, n)
    /\ UNCHANGED <<attachError, attach, line, tracker, shown, fullLog, artifact, read, viewVars, main,
                   finished, sampled, cancelled>>

\* attachAndStream throws: the rest of the output is never read.
StreamBreaks ==
    /\ attach = "reading"
    /\ attach' = "over"
    /\ attachError' = TRUE
    /\ UNCHANGED <<output, stopped, line, tracker, shown, fullLog, artifact, read, viewVars,
                   main, finished, sampled, cancelled>>

StreamEnds ==
    /\ attach = "reading" /\ output = <<>> /\ stopped
    /\ attach' = "over"
    /\ UNCHANGED <<output, stopped, attachError, line, tracker, shown, fullLog, artifact, read, viewVars,
                   main, finished, sampled, cancelled>>

-----------------------------------------------------------------------------
(* BuildStatusView::render.                                                *)

\* Nine lines, and the log lines under an empty one.
Lines(f) == 9 + (IF f.recent = <<>> THEN 0 ELSE 1 + Len(f.recent))

\* statusState is copied under the lock; then the copy is rendered.
CopyState(r) ==
    /\ renders[r] = "idle"
    /\ renders' = [renders EXCEPT ![r] = "copied"]
    /\ frame' = [frame EXCEPT ![r] = shown]
    /\ raced' = (raced \/ \E s \in Renderers \ {r} : renders[s] # "idle")
    /\ UNCHANGED <<linesRendered, height, screen, leftover>>

\* Mutant: the previous frame is not erased.
DrawBelow(r) ==
    /\ renders[r] = "copied"
    /\ renders' = [renders EXCEPT ![r] = "drawn"]
    /\ height' = height + Lines(frame[r])
    /\ leftover' = (leftover \/ height # 0)
    /\ screen' = frame[r]
    /\ UNCHANGED <<frame, linesRendered, raced>>

\* The cursor goes up and everything below is cleared.
Draw(r) ==
    /\ renders[r] = "copied"
    /\ renders' = [renders EXCEPT ![r] = "drawn"]
    /\ height' = Lines(frame[r])
    /\ leftover' = (leftover \/ height # linesRendered)
    /\ screen' = frame[r]
    /\ UNCHANGED <<frame, linesRendered, raced>>

CountLines(r) ==
    /\ renders[r] = "drawn"
    /\ renders' = [renders EXCEPT ![r] = "idle"]
    /\ linesRendered' = Lines(frame[r])
    /\ UNCHANGED <<frame, height, screen, raced, leftover>>

\* getContainerStats; without an answer the last sample stays.
Sample ==
    /\ ~finished /\ ~sampled /\ renders["status"] = "idle"
    /\ sampled' = TRUE
    /\ UNCHANGED <<outputVars, viewVars, main, finished, cancelled>>

\* One step of a tick, until buildFinished.
Tick ==
    /\ \/ sampled /\ CopyState("status")
       \/ Draw("status")
       \/ CountLines("status")
    /\ sampled' = (sampled /\ renders'["status"] # "idle")
    /\ UNCHANGED <<outputVars, main, finished, cancelled>>

-----------------------------------------------------------------------------
(* main, and the message of cancelWatcher.                                 *)

MainGoes(from, to) ==
    /\ main = from
    /\ main' = to
    /\ UNCHANGED <<outputVars, sampled, cancelled>>

WaitContainer == stopped /\ MainGoes("waiting", "joining") /\ UNCHANGED <<viewVars, finished>>

\* Mutant: the last frame is rendered before the output is joined.
RenderAtOnce == CopyState("main") /\ MainGoes("joining", "rendering") /\ UNCHANGED finished

\* attachThread.join(), then one last render.
JoinOutput ==
    /\ attach = "over"
    /\ CopyState("main")
    /\ MainGoes("joining", "rendering")
    /\ UNCHANGED finished

LastRender ==
    \/ Draw("main") /\ MainGoes("rendering", "rendering") /\ UNCHANGED finished
    \/ CountLines("main") /\ MainGoes("rendering", "finishing") /\ UNCHANGED finished

\* Mutant: buildFinished is set when the threads have been joined.
FinishWhenJoined ==
    /\ MainGoes("finishing", "closing")
    /\ UNCHANGED <<viewVars, finished>>

\* buildFinished
Finish ==
    /\ MainGoes("finishing", "closing")
    /\ finished' = TRUE
    /\ UNCHANGED viewVars

\* statusThread.join(); then the summary is printed.
JoinStatus ==
    /\ finished /\ renders["status"] = "idle" /\ ~sampled
    /\ MainGoes("closing", "reported")
    /\ UNCHANGED <<viewVars, finished>>

\* "Cancelling" is printed below the frame, on two lines.
Cancel ==
    /\ ~cancelled /\ main # "reported"
    /\ cancelled' = TRUE
    /\ height' = height + 2
    /\ stopped' = TRUE
    /\ UNCHANGED <<output, attachError, attach, line, tracker, shown, fullLog, artifact, read, renders, frame,
                   linesRendered, screen, raced, leftover, main, finished, sampled>>

Done == main = "reported" /\ attach = "over" /\ UNCHANGED vars

AttachStep == TakeLine \/ TrackLine \/ LogLine \/ StreamEnds
StatusStep == Sample \/ Tick
MainStep   == WaitContainer \/ JoinOutput \/ LastRender \/ Finish \/ JoinStatus

Next ==
    AttachStep \/ StatusStep \/ MainStep \/ StreamBreaks \/ ContainerStops \/ Cancel \/ Done

Spec == Init /\ [][Next]_vars

\* Threads run, and the container ends.
FairSpec ==
    /\ Spec
    /\ WF_vars(AttachStep) /\ WF_vars(Tick) /\ WF_vars(Sample) /\ WF_vars(MainStep)
    /\ WF_vars(ContainerStops)

-----------------------------------------------------------------------------
(* Safety.                                                                 *)

DashboardTypeOK ==
    /\ attach \in {"reading", "tracking", "logging", "over"}
    /\ main \in {"waiting", "joining", "rendering", "finishing", "closing", "reported"}
    /\ renders \in [Renderers -> {"idle", "copied", "drawn"}]
    /\ tracker.phase \in DOMAIN PhaseOrder /\ tracker.percent \in 0..100
    /\ Len(shown.recent) <= RecentLines /\ Len(fullLog) <= FullLines
    /\ {height, linesRendered} \subseteq Nat

\* build_progress_tracker.hpp "monotonic across phase boundaries": no frame shows
\* more than the end of the phase it names, although phase and percentage are
\* copied from two critical sections, and of two engines.
FrameIsConsistent ==
    \A i \in DOMAIN PhaseOrder :
        screen.phase = PhaseOrder[i] => screen.percent <= Base(tracker.engine, i + 1)

\* A bar on the screen never goes back, unless main and statusThread render at
\* the same time.
BarNeverGoesBack ==
    [][screen'.percent >= screen.percent \/ raced']_vars

\* build.cpp:851-854 "the status thread's own last tick could otherwise have ...
\* left a slightly stale frame as the last thing visible": what stays above the
\* summary is the final state, unless the status thread was rendering just then; and no
\* frame is drawn over the summary.
LastFrameIsFinal ==
    main = "reported" => (screen = shown \/ raced) /\ renders["status"] = "idle"

\* No row of an earlier frame stays on the screen, unless the two renderers
\* overlapped or the message of Ctrl-C came between.
NothingLeftOver == leftover => raced \/ cancelled

Logged(l) == ~Marker(l) /\ l.kind # "noise"
LogUpTo(lines) ==
    LET log[n \in 0..Len(lines)] ==
            IF n = 0 THEN <<>> ELSE IF Logged(lines[n]) THEN Append(log[n - 1], lines[n]) ELSE log[n - 1]
    IN  log
LogOf(lines) == LogUpTo(lines)[Len(lines)]
LastOf(lines, n) == SubSeq(lines, AtLeast(1, Len(lines) - n + 1), Len(lines))

\* The log that a failure prints is the end of what the build tools printed, to
\* its last line, however the end of the container raced the output, as long as
\* the stream did not break.
FailureShowsTheEnd ==
    main = "reported" =>
        /\ fullLog = LastOf(LogOf(read), FullLines)
        /\ output = <<>> \/ attachError

\* The summary comes: every thread that is joined ends.
SummaryComes == <>(main = "reported")

=============================================================================
