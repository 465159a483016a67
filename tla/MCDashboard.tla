----------------------------- MODULE MCDashboard -----------------------------
(* What build-entrypoint.sh and the build tools print, for TLC. *)
EXTENDS Dashboard

P(id) == [kind |-> "phase", id |-> id]
E(id) == [kind |-> "engine", id |-> id]
N(kind, n) == [kind |-> kind, n |-> n]
T(text) == [kind |-> "text", text |-> text]
A == [kind |-> "artifact"]

\* Three lines of Gradle's own percentage, one of them smaller than the last.
Gradle == <<P("install"), N("progress", 100), E("gradle"), P("prebuild"), P("gradle"),
            N("percent", 40), N("percent", 7), T("a"), P("collect"), A, P("done"), N("progress", 100)>>

\* Milestones out of order; an unknown phase.
Eas == <<E("eas"), P("eas"), N("milestone", 3), N("milestone", 1), P("upload"),
         N("milestone", 6), P("collect"), A>>

\* A failure in the installation, and a progress that is no number of hundredths.
Failing == <<P("install"), T("a"), T("b"), [kind |-> "noise"], T("c"), N("progress", 250)>>

Printed == {Gradle, Eas, Failing}

=============================================================================
