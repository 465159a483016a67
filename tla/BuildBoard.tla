----------------------------- MODULE BuildBoard -----------------------------
(***************************************************************************)
(* What the build API promises its users, without the queue, the maps, the *)
(* event loop and Docker: a board of builds, each with a status, and the   *)
(* set of builds that occupy one of the MaxConcurrent slots.               *)
(* BuildManager implements it.                                             *)
(***************************************************************************)
EXTENDS Naturals, FiniteSets

CONSTANTS Builds, Projects, None, MaxConcurrent

VARIABLES status,   \* of every build, "none" before it is submitted
          appPath,  \* the project of every submitted build
          slots     \* builds whose launch has not released its slot

boardVars == <<status, appPath, slots>>

Open   == {"queued", "starting", "running"}
Closed == {"success", "failed", "cancelled"}

Init ==
    /\ status = [b \in Builds |-> "none"]
    /\ appPath = [b \in Builds |-> None]
    /\ slots = {}

Move(b, from, to) ==
    /\ status[b] \in from
    /\ status' = [status EXCEPT ![b] = to]
    /\ UNCHANGED appPath

\* A project has at most one open build.
Submit(b, p) ==
    /\ status[b] = "none"
    /\ \A c \in Builds : appPath[c] = p => status[c] \notin Open
    /\ status' = [status EXCEPT ![b] = "queued"]
    /\ appPath' = [appPath EXCEPT ![b] = p]
    /\ UNCHANGED slots

Withdraw(b) == Move(b, {"queued"}, "cancelled") /\ UNCHANGED slots

TakeSlot(b, to) ==
    /\ Cardinality(slots) < MaxConcurrent
    /\ b \notin slots
    /\ slots' = slots \cup {b}
    /\ Move(b, {"queued"}, to)

Run(b)  == b \in slots /\ Move(b, {"starting"}, "running") /\ UNCHANGED slots
Fail(b) == b \in slots /\ Move(b, {"starting", "running"}, "failed") /\ UNCHANGED slots

Finish(b, verdict) == b \in slots /\ Move(b, {"running"}, verdict) /\ UNCHANGED slots

\* Only a build with a verdict gives its slot back.
Release(b) ==
    /\ b \in slots
    /\ status[b] \in Closed
    /\ slots' = slots \ {b}
    /\ UNCHANGED <<status, appPath>>

\* The process restarts: it forgets its launches and keeps the board.
Crash == slots' = {} /\ UNCHANGED <<status, appPath>>

Next ==
    \/ \E b \in Builds, p \in Projects : Submit(b, p)
    \/ \E b \in Builds :
        \/ Withdraw(b)
        \/ TakeSlot(b, "starting") \/ TakeSlot(b, "failed")
        \/ Run(b) \/ Fail(b)
        \/ Finish(b, "success") \/ Finish(b, "cancelled")
        \/ Release(b)
    \/ Crash

Spec == Init /\ [][Next]_boardVars

=============================================================================
