------------------------------- MODULE LogPane -------------------------------
(***************************************************************************)
(* The page of a build and the terminal of its log                         *)
(* (app/build/[id]/page.tsx, components/LiveLogs.tsx), on top of the       *)
(* connection.  The terminal is imported while the log arrives, and is     *)
(* given the log piece by piece: `written` is how much of it it has had.   *)
(***************************************************************************)
EXTENDS LiveView

VARIABLE pane

Panes == [state : {"absent", "loading", "ready"}, first : Seq(Nat),
          text : Seq(Nat), written : Nat, screen : Seq(Nat)]

PaneTypeOK == pane \in [Viewers -> Panes]

PaneInit ==
    /\ Init
    /\ pane = [v \in Viewers |->
                 [state |-> "absent", first |-> <<>>, text |-> <<>>,
                  written |-> 0, screen |-> <<>>]]

\* What term.write(text.slice(written)) adds to the screen.
WriteRest(p, text) ==
    [p EXCEPT !.screen = @ \o SubSeq(text, p.written + 1, Len(text)),
              !.written = Len(text)]

\* The page has a build, from the socket or by REST, and mounts LiveLogs; the
\* effect of the first render keeps the text of that render.
Mount(v) ==
    /\ pane[v].state = "absent"
    /\ pane' = [pane EXCEPT ![v] =
                  [@ EXCEPT !.state = "loading", !.first = view[v].log,
                            !.text = view[v].log]]
    /\ UNCHANGED vars

\* A render with another text, and the effect of [text].
Render(v) ==
    /\ pane[v].state # "absent"
    /\ pane[v].text # view[v].log
    /\ pane' = [pane EXCEPT ![v] =
                  [(IF @.state = "ready" THEN WriteRest(@, view[v].log) ELSE @)
                     EXCEPT !.text = view[v].log]]
    /\ UNCHANGED vars

\* Mutant: `written` is not set after the first write.
LoadsUncounted(v) ==
    /\ pane[v].state = "loading"
    /\ pane' = [pane EXCEPT ![v] =
                  [@ EXCEPT !.state = "ready", !.screen = @ \o pane[v].first]]
    /\ UNCHANGED vars

\* The terminal has been imported: it gets the text of the first render.
Loads(v) ==
    /\ pane[v].state = "loading"
    /\ pane' = [pane EXCEPT ![v] =
                  [WriteRest(@, @.first) EXCEPT !.state = "ready"]]
    /\ UNCHANGED vars

-----------------------------------------------------------------------------
Page(v) == Mount(v) \/ Render(v) \/ Loads(v)

PaneNext ==
    \/ Next /\ UNCHANGED pane
    \/ \E v \in Viewers : Page(v)

PaneSpec == PaneInit /\ [][PaneNext]_<<vars, pane>>

FairPaneSpec == PaneSpec /\ Fairness

-----------------------------------------------------------------------------
\* On its first connection a viewer's terminal shows a beginning of the log,
\* whenever the terminal finished loading and whatever was rendered between.
ScreenIsABeginning ==
    \A v \in Viewers : snapshots[v] <= 1 =>
        /\ Len(pane[v].screen) <= Len(view[v].log)
        /\ \A i \in DOMAIN pane[v].screen : pane[v].screen[i] = view[v].log[i]

\* "Write anything that had already arrived before xterm finished loading."
ArrivedIsWritten ==
    \A v \in Viewers : pane[v].state = "ready" => pane[v].written = Len(pane[v].text)

=============================================================================
