---------------------------- MODULE BuildProgress ----------------------------
(***************************************************************************)
(* BuildProgressTracker (build_progress_tracker.cpp): what each line of a  *)
(* build's output does to the percentage.  A line is a record: its kind,   *)
(* and the phase, engine, number or milestone that it names.               *)
(***************************************************************************)
EXTENDS Integers, Sequences

PhaseOrder == <<"setup", "install", "prebuild", "signing", "gradle", "eas", "collect", "done">>

Weights(engine) == IF engine = "eas" THEN <<2, 15, 0, 3, 0, 75, 5, 0>>
                                     ELSE <<2, 15, 10, 3, 65, 0, 5, 0>>

\* In hundredths, in the order eas-cli prints them.
EasMilestones == <<10, 20, 35, 45, 55, 95>>

\* phase is the index in PhaseOrder, milestone the last one seen.
Start == [engine |-> "gradle", phase |-> 1, percent |-> 0, milestone |-> 0]

PhaseIndexOf(id) == {i \in DOMAIN PhaseOrder : PhaseOrder[i] = id}
Index(id) == CHOOSE i \in PhaseIndexOf(id) : TRUE

\* The sum of the weights before phase i.
Base(engine, i) ==
    LET w == Weights(engine)
        before(j) == IF j < i THEN w[j] ELSE 0
    IN  before(1) + before(2) + before(3) + before(4) + before(5) + before(6) + before(7) + before(8)

AtLeast(a, b) == IF a > b THEN a ELSE b
AtMost(a, b)  == IF a < b THEN a ELSE b

\* Mutant: the percentage follows the phase back.
Follow(t, n) == [t EXCEPT !.percent =
    AtMost(100, (100 * Base(t.engine, t.phase) + Weights(t.engine)[t.phase] * n + 50) \div 100)]

\* n hundredths into the current phase, rounded; never back.
ClampAdvance(t, n) == [t EXCEPT !.percent = AtLeast(@,
    AtMost(100, (100 * Base(t.engine, t.phase) + Weights(t.engine)[t.phase] * n + 50) \div 100))]

SetEngine(t, engine) == [t EXCEPT !.engine = IF engine = "eas" THEN "eas" ELSE "gradle"]

\* handleLine
HandleLine(t, line) ==
    LET in(phase) == t.engine = phase /\ PhaseOrder[t.phase] = phase IN
    CASE line.kind = "phase" /\ PhaseIndexOf(line.id) # {} ->
            ClampAdvance([t EXCEPT !.phase = Index(line.id), !.milestone = 0], 0)
      [] line.kind = "progress" -> ClampAdvance(t, AtLeast(0, AtMost(100, line.n)))
      [] line.kind = "percent" /\ in("gradle") -> ClampAdvance(t, line.n)
      [] line.kind = "milestone" /\ in("eas") /\ line.n > t.milestone ->
            ClampAdvance([t EXCEPT !.milestone = line.n], EasMilestones[line.n])
      [] OTHER -> t

=============================================================================
