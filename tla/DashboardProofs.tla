-------------------------- MODULE DashboardProofs ---------------------------
(***************************************************************************)
(* What the live view promises, for any output and any buffers: the        *)
(* inductive invariant is the conjunction of the parts below, and each     *)
(* lemma shows that every step preserves one of them.                      *)
(***************************************************************************)
EXTENDS Dashboard, Extremes, TLAPS

Trackers == [engine : {"eas", "gradle"}, phase : 1..8, percent : 0..100, milestone : 0..6]
Frames == [phase : STRING \cup {"setup"}, percent : 0..100, recent : Seq(Printable)]

\* Types.
Types ==
    /\ output \in Seq(Printable) /\ read \in Seq(Printable)
    /\ attach \in {"reading", "tracking", "logging", "over"}
    /\ attach \in {"tracking", "logging"} => line \in Printable
    /\ tracker \in Trackers
    /\ shown \in Frames /\ screen \in Frames /\ frame \in [Renderers -> Frames]
    /\ fullLog \in Seq(Printable)
    /\ Len(shown.recent) <= RecentLines /\ Len(fullLog) <= FullLines
    /\ renders \in [Renderers -> {"idle", "copied", "drawn"}]
    /\ main \in {"waiting", "joining", "rendering", "finishing", "closing", "reported"}
    /\ height \in Nat /\ linesRendered \in Nat

\* main renders once, after the output, and has stopped statusThread at the end.
MainIsAt ==
    /\ main = "rendering" <=> renders["main"] # "idle"
    /\ main \in {"rendering", "finishing", "closing", "reported"} => attach = "over"
    /\ attach = "over" => output = <<>> \/ attachError
    /\ finished <=> main \in {"closing", "reported"}
    /\ main = "reported" => renders["status"] = "idle" /\ ~sampled

\* While one renders, the other does not.
OneRenders == ~raced => \E r \in Renderers : renders[r] = "idle"

\* What the view believes of the terminal.
HeightKnown ==
    ~raced /\ ~cancelled =>
        /\ \A r \in Renderers : renders[r] = "drawn" => height = Lines(frame[r])
        /\ (\A r \in Renderers : renders[r] # "drawn") => height = linesRendered

\* The final state is copied, then drawn, and nothing older is drawn after it.
LastCopy ==
    /\ main = "rendering" => frame["main"] = shown
    /\ main \in {"finishing", "closing", "reported"} /\ ~raced =>
          screen = shown /\ (renders["status"] # "idle" => frame["status"] = shown)
    /\ ~raced /\ renders["main"] = "drawn" => screen = shown

\* The log ends with the line before the one that onChunk is at.
EndKept ==
    /\ attach \in {"reading", "over"} => fullLog = LastOf(LogOf(read), FullLines)
    /\ attach \in {"tracking", "logging"} =>
          read = Append(Front(read), line) /\ fullLog = LastOf(LogOf(Front(read)), FullLines)
    /\ attach = "logging" => ~Marker(line)

\* The percentage only grows on its way from the tracker to the screen.
PercentsGrow ==
    /\ shown.percent = tracker.percent
    /\ ~raced =>
          /\ screen.percent <= shown.percent
          /\ \A r \in Renderers : renders[r] = "copied" =>
                screen.percent <= frame[r].percent /\ frame[r].percent <= shown.percent

\* The phase that the output has reached: of the line that onChunk is at, when
\* the tracker has not had it yet.
Reached == IF attach = "tracking" /\ IsPhase(line) THEN Index(line.id) ELSE tracker.phase

\* What is still to come is no earlier phase, and no engine after the installation.
ToCome ==
    /\ InOrder(output)
    /\ \A i \in DOMAIN output :
          /\ IsPhase(output[i]) => Reached <= Index(output[i].id)
          /\ output[i].kind = "engine" => Reached <= Index("install")
    /\ tracker.phase <= Reached
    /\ attach = "tracking" /\ line.kind = "phase" => shown.phase = line.id

\* A frame shows a phase that was reached, and no more than its end.
Within(f) ==
    \A i \in DOMAIN PhaseOrder :
        f.phase = PhaseOrder[i] => i <= Reached /\ f.percent <= Base(tracker.engine, i + 1)

FramesWithin ==
    /\ tracker.percent <= Base(tracker.engine, tracker.phase + 1)
    /\ (attach = "tracking" /\ line.kind = "phase") \/
       (\A i \in DOMAIN PhaseOrder : shown.phase = PhaseOrder[i] => i = tracker.phase)
    /\ Within(shown) /\ Within(screen) /\ \A r \in Renderers : Within(frame[r])

IInv ==
    /\ Types /\ MainIsAt /\ OneRenders /\ HeightKnown /\ NothingLeftOver
    /\ LastCopy /\ EndKept /\ PercentsGrow /\ ToCome /\ FramesWithin

-----------------------------------------------------------------------------
(* The tracker.                                                            *)

\* kPhaseOrder names every phase once.
LEMMA Indices ==
    /\ DOMAIN PhaseOrder = 1..8
    /\ \A i \in 1..8 : PhaseIndexOf(PhaseOrder[i]) = {i} /\ Index(PhaseOrder[i]) = i
    /\ \A l : IsPhase(l) => Index(l.id) \in 1..8 /\ PhaseOrder[Index(l.id)] = l.id
    /\ Index("install") = 2
<1>1. DOMAIN PhaseOrder = 1..8
  BY DEF PhaseOrder
<1>2. \A i, j \in 1..8 : PhaseOrder[i] = PhaseOrder[j] => i = j
  BY DEF PhaseOrder
<1>3. ASSUME NEW i \in 1..8 PROVE PhaseIndexOf(PhaseOrder[i]) = {i} /\ Index(PhaseOrder[i]) = i
  <2>1. PhaseIndexOf(PhaseOrder[i]) = {i}
    BY <1>1, <1>2 DEF PhaseIndexOf
  <2>2. QED
    BY <2>1 DEF Index
<1>4. ASSUME NEW l, IsPhase(l) PROVE Index(l.id) \in 1..8 /\ PhaseOrder[Index(l.id)] = l.id
  <2>1. Index(l.id) \in PhaseIndexOf(l.id)
    BY <1>4 DEF IsPhase, Index
  <2>2. QED
    BY <1>1, <2>1 DEF PhaseIndexOf
<1>5. PhaseOrder[2] = "install"
  BY DEF PhaseOrder
<1>6. QED
  BY <1>1, <1>3, <1>4, <1>5

\* The weights of both engines add up to 100, and are the same up to the installation.
LEMMA Bases ==
    \A e \in {"eas", "gradle"} :
        /\ \A i \in 1..8 :
              /\ Weights(e)[i] \in 0..75
              /\ Base(e, i) \in 0..100 /\ Base(e, i + 1) \in 0..100
              /\ Base(e, i + 1) = Base(e, i) + Weights(e)[i]
        /\ \A i, j \in 1..9 : i <= j => Base(e, i) <= Base(e, j)
        /\ \A i \in 1..3 : Base(e, i) = Base("gradle", i)
<1> DEFINE Sums(e) == IF e = "eas" THEN <<0, 2, 17, 17, 20, 20, 95, 100, 100>>
                                   ELSE <<0, 2, 17, 27, 30, 95, 95, 100, 100>>
<1>1. ASSUME NEW e \in {"eas", "gradle"}, NEW i \in 1..9 PROVE Base(e, i) = Sums(e)[i]
  <2>1. CASE e = "eas"
    BY <2>1 DEF Base, Weights
  <2>2. CASE e = "gradle"
    BY <2>2 DEF Base, Weights
  <2>3. QED
    BY <2>1, <2>2
<1>2. ASSUME NEW e \in {"eas", "gradle"}
      PROVE  /\ \A i \in 1..8 :
                   /\ Weights(e)[i] \in 0..75
                   /\ Sums(e)[i] \in 0..100 /\ Sums(e)[i + 1] \in 0..100
                   /\ Sums(e)[i + 1] = Sums(e)[i] + Weights(e)[i]
             /\ \A i, j \in 1..9 : i <= j => Sums(e)[i] <= Sums(e)[j]
             /\ \A i \in 1..3 : Sums(e)[i] = Sums("gradle")[i]
  BY DEF Weights
<1> HIDE DEF Sums
<1>3. ASSUME NEW e \in {"eas", "gradle"}
      PROVE  /\ \A i \in 1..8 :
                   /\ Weights(e)[i] \in 0..75
                   /\ Base(e, i) \in 0..100 /\ Base(e, i + 1) \in 0..100
                   /\ Base(e, i + 1) = Base(e, i) + Weights(e)[i]
             /\ \A i, j \in 1..9 : i <= j => Base(e, i) <= Base(e, j)
             /\ \A i \in 1..3 : Base(e, i) = Base("gradle", i)
  <2>1. \A i \in 1..9 : Base(e, i) = Sums(e)[i] /\ Base("gradle", i) = Sums("gradle")[i]
    BY <1>1
  <2>2. \A i \in 1..8 : i \in 1..9 /\ i + 1 \in 1..9
    OBVIOUS
  <2>3. QED
    BY <1>2, <2>1, <2>2
<1>4. QED
  BY <1>3

\* A later phase ends later.
LEMMA EndsGrow ==
    ASSUME NEW e \in {"eas", "gradle"}, NEW i \in 1..8, NEW j \in 1..8, i <= j
    PROVE  Base(e, i + 1) \in Int /\ Base(e, j + 1) \in Int /\ Base(e, i + 1) <= Base(e, j + 1)
<1>1. i + 1 \in 1..9 /\ j + 1 \in 1..9 /\ i + 1 <= j + 1
  OBVIOUS
<1>2. Base(e, i + 1) \in 0..100 /\ Base(e, j + 1) \in 0..100
  BY Bases
<1>3. QED
  BY <1>1, <1>2, Bases

\* clampAdvance: never back, and not beyond the end of the phase.
LEMMA Clamped ==
    ASSUME NEW t \in Trackers, NEW n \in 0..100
    PROVE  \E p \in 0..100 :
             /\ ClampAdvance(t, n) = [t EXCEPT !.percent = p]
             /\ t.percent <= p
             /\ p <= t.percent \/ p <= Base(t.engine, t.phase + 1)
<1> DEFINE b == Base(t.engine, t.phase)
           w == Weights(t.engine)[t.phase]
           x == (100 * b + w * n + 50) \div 100
           p == AtLeast(t.percent, AtMost(100, x))
<1>1. /\ b \in 0..100 /\ w \in 0..75 /\ b + w \in 0..100
      /\ Base(t.engine, t.phase + 1) = b + w /\ t.percent \in 0..100
  BY Bases DEF Trackers
<1> HIDE DEF b, w
<1>2. w * n \in Nat /\ w * n <= 100 * w
  BY <1>1
<1>3. x \in 0..100 /\ x <= b + w
  BY <1>1, <1>2
<1>4. p \in 0..100 /\ t.percent <= p /\ (p <= t.percent \/ p <= b + w)
  BY <1>1, <1>3 DEF AtLeast, AtMost
<1>5. ClampAdvance(t, n) = [t EXCEPT !.percent = p]
  BY DEF ClampAdvance, b, w
<1>6. QED
  BY <1>1, <1>4, <1>5

\* handleLine: the same of every line.
LEMMA Handled ==
    ASSUME NEW t \in Trackers, NEW l \in Printable
    PROVE  LET u == HandleLine(t, l) IN
             /\ u \in Trackers
             /\ u.engine = t.engine
             /\ u.phase = IF IsPhase(l) THEN Index(l.id) ELSE t.phase
             /\ t.percent <= u.percent
             /\ u.percent <= t.percent \/ u.percent <= Base(u.engine, u.phase + 1)
<1> DEFINE Good(u) == /\ u \in Trackers
                      /\ u.engine = t.engine
                      /\ u.phase = IF IsPhase(l) THEN Index(l.id) ELSE t.phase
                      /\ t.percent <= u.percent
                      /\ u.percent <= t.percent \/ u.percent <= Base(u.engine, u.phase + 1)
<1>1. ASSUME NEW s \in Trackers, NEW n \in 0..100, s.engine = t.engine, s.percent = t.percent,
             s.phase = IF IsPhase(l) THEN Index(l.id) ELSE t.phase
      PROVE  Good(ClampAdvance(s, n))
  <2>1. PICK p \in 0..100 :
             /\ ClampAdvance(s, n) = [s EXCEPT !.percent = p]
             /\ s.percent <= p
             /\ p <= s.percent \/ p <= Base(s.engine, s.phase + 1)
    BY Clamped
  <2>2. /\ [s EXCEPT !.percent = p] \in Trackers
        /\ [s EXCEPT !.percent = p].engine = s.engine
        /\ [s EXCEPT !.percent = p].phase = s.phase
        /\ [s EXCEPT !.percent = p].percent = p
    BY DEF Trackers
  <2>3. QED
    BY <1>1, <2>1, <2>2
<1> HIDE DEF Good
<1>2. ASSUME IsPhase(l) PROVE Good(HandleLine(t, l))
  <2>1. HandleLine(t, l) = ClampAdvance([t EXCEPT !.phase = Index(l.id), !.milestone = 0], 0)
    BY <1>2 DEF HandleLine, IsPhase
  <2>2. Index(l.id) \in 1..8
    BY <1>2, Indices
  <2> DEFINE i == Index(l.id)
             s == [t EXCEPT !.phase = i, !.milestone = 0]
  <2>3. s \in Trackers /\ s.engine = t.engine /\ s.percent = t.percent /\ s.phase = i
    <3> HIDE DEF i
    <3>1. i \in 1..8
      BY <2>2 DEF i
    <3>2. [t EXCEPT !.phase = i] \in Trackers
      BY <3>1 DEF Trackers
    <3>3. \A u \in Trackers : [u EXCEPT !.milestone = 0] \in Trackers
      BY DEF Trackers
    <3>4. s = [[t EXCEPT !.phase = i] EXCEPT !.milestone = 0]
      OBVIOUS
    <3>5. s.engine = t.engine /\ s.percent = t.percent /\ s.phase = i
      BY DEF Trackers
    <3> HIDE DEF s
    <3>6. QED
      BY <3>2, <3>3, <3>4, <3>5
  <2> HIDE DEF s
  <2>4. Good(ClampAdvance(s, 0))
    BY <1>1, <1>2, <2>3
  <2>5. QED
    BY <2>1, <2>4 DEF s
<1>3. ASSUME l.kind = "progress" PROVE Good(HandleLine(t, l))
  <2>1. HandleLine(t, l) = ClampAdvance(t, AtLeast(0, AtMost(100, l.n)))
    BY <1>3 DEF HandleLine
  <2>2. AtLeast(0, AtMost(100, l.n)) \in 0..100 /\ ~IsPhase(l)
    BY <1>3 DEF AtLeast, AtMost, Printable, IsPhase
  <2>3. QED
    BY <1>1, <2>1, <2>2
<1>4. ASSUME l.kind = "percent", HandleLine(t, l) # t PROVE Good(HandleLine(t, l))
  <2>1. HandleLine(t, l) = ClampAdvance(t, l.n)
    BY <1>4 DEF HandleLine
  <2>2. l.n \in 0..100 /\ ~IsPhase(l)
    BY <1>4 DEF Printable, IsPhase
  <2>3. QED
    BY <1>1, <2>1, <2>2
<1>5. ASSUME l.kind = "milestone", HandleLine(t, l) # t PROVE Good(HandleLine(t, l))
  <2>1. HandleLine(t, l) = ClampAdvance([t EXCEPT !.milestone = l.n], EasMilestones[l.n])
    BY <1>5 DEF HandleLine
  <2>2. l.n \in 1..6 /\ ~IsPhase(l)
    BY <1>5 DEF Printable, IsPhase, EasMilestones
  <2>3. EasMilestones[l.n] \in 0..100
    BY <2>2 DEF EasMilestones
  <2> DEFINE s == [t EXCEPT !.milestone = l.n]
  <2>4. s \in Trackers /\ s.engine = t.engine /\ s.percent = t.percent /\ s.phase = t.phase
    BY <2>2 DEF Trackers
  <2> HIDE DEF s
  <2>5. Good(ClampAdvance(s, EasMilestones[l.n]))
    BY <1>1, <2>2, <2>3, <2>4
  <2>6. QED
    BY <2>1, <2>5 DEF s
<1>6. ASSUME ~IsPhase(l), HandleLine(t, l) = t PROVE Good(HandleLine(t, l))
  BY <1>6 DEF Trackers, Good
<1>7. ~IsPhase(l) /\ l.kind \notin {"progress", "percent", "milestone"} => HandleLine(t, l) = t
  BY DEF HandleLine, IsPhase
<1>8. Good(HandleLine(t, l))
  BY <1>2, <1>3, <1>4, <1>5, <1>6, <1>7 DEF IsPhase
<1>9. QED
  BY <1>8 DEF Good

-----------------------------------------------------------------------------
(* The log.                                                                *)

\* The recursion of LogUpTo has a solution: by the least number up to which it
\* had none.
LEMMA LogIsDefined ==
    ASSUME NEW lines \in Seq(Printable)
    PROVE  LogUpTo(lines) = [n \in 0..Len(lines) |->
             IF n = 0 THEN <<>> ELSE IF Logged(lines[n]) THEN Append(LogUpTo(lines)[n - 1], lines[n])
                                                         ELSE LogUpTo(lines)[n - 1]]
<1> DEFINE Is(f, k) == f = [n \in 0..k |->
             IF n = 0 THEN <<>> ELSE IF Logged(lines[n]) THEN Append(f[n - 1], lines[n]) ELSE f[n - 1]]
<1>1. Len(lines) \in Nat
  OBVIOUS
<1>2. \A k \in 0..Len(lines) : \E f : Is(f, k)
  <2> DEFINE Without == {k \in 0..Len(lines) : ~\E f : Is(f, k)}
  <2>1. SUFFICES ASSUME Without # {} PROVE FALSE
    OBVIOUS
  <2>2. PICK k \in Without : \A m \in Without : k <= m
    <3>1. Without \subseteq Nat
      BY <1>1
    <3> HIDE DEF Without
    <3>2. QED
      BY <2>1, <3>1, LeastExists
  <2>3. CASE k = 0
    <3>1. Is([n \in 0..0 |-> <<>>], 0)
      OBVIOUS
    <3>2. QED
      BY <2>3, <3>1
  <2>4. CASE k # 0
    <3>1. k - 1 \in 0..Len(lines) /\ ~(k <= k - 1)
      BY <1>1, <2>4
    <3>2. PICK f : Is(f, k - 1)
      BY <2>2, <3>1
    <3> DEFINE g == [n \in 0..k |-> IF n # k THEN f[n] ELSE IF Logged(lines[k]) THEN Append(f[k - 1], lines[k])
                                                                              ELSE f[k - 1]]
    <3>3. Is(g, k)
      <4>1. /\ k \in Nat /\ k - 1 \in 0..k /\ k \in 0..k /\ \A n \in 0..k : n # k => n \in 0..(k - 1)
            /\ \A n \in 0..k : n # 0 => n - 1 \in 0..k /\ n - 1 # k
        BY <1>1, <2>4
      <4>2. \A n \in 0..(k - 1) :
               f[n] = IF n = 0 THEN <<>> ELSE IF Logged(lines[n]) THEN Append(f[n - 1], lines[n]) ELSE f[n - 1]
        BY <3>2
      <4>3. g[k] = IF Logged(lines[k]) THEN Append(f[k - 1], lines[k]) ELSE f[k - 1]
        BY <4>1
      <4>4. \A n \in 0..k : n # k => g[n] = f[n]
        OBVIOUS
      <4>5. g = [n \in 0..k |-> g[n]]
        OBVIOUS
      <4> HIDE DEF g
      <4>6. ASSUME NEW n \in 0..k
            PROVE  g[n] = IF n = 0 THEN <<>> ELSE IF Logged(lines[n]) THEN Append(g[n - 1], lines[n]) ELSE g[n - 1]
        <5>1. CASE n = k
          BY <2>4, <4>1, <4>3, <4>4, <5>1
        <5>2. CASE n # k
          BY <4>1, <4>2, <4>4, <5>2
        <5>3. QED
          BY <5>1, <5>2
      <4>7. QED
        BY <4>5, <4>6
    <3>4. QED
      BY <3>3
  <2>5. QED
    BY <2>3, <2>4
<1>3. LogUpTo(lines) = CHOOSE f : Is(f, Len(lines))
  BY DEF LogUpTo
<1> HIDE DEF Is
<1>4. PICK f : Is(f, Len(lines))
  <2>1. Len(lines) \in 0..Len(lines)
    BY <1>1
  <2>2. QED
    BY <1>2, <2>1
<1>5. Is(LogUpTo(lines), Len(lines))
  BY <1>3, <1>4
<1>6. QED
  BY <1>5 DEF Is

LEMMA LogSteps ==
    ASSUME NEW lines \in Seq(Printable)
    PROVE  /\ LogUpTo(lines)[0] = <<>>
           /\ \A n \in 1..Len(lines) :
                LogUpTo(lines)[n] = IF Logged(lines[n]) THEN Append(LogUpTo(lines)[n - 1], lines[n])
                                                        ELSE LogUpTo(lines)[n - 1]
<1>1. Len(lines) \in Nat /\ 0 \in 0..Len(lines) /\ \A n \in 1..Len(lines) : n \in 0..Len(lines) /\ n > 0 /\ n # 0
  OBVIOUS
<1>2. QED
  BY <1>1, LogIsDefined

\* The log is made of lines.
LEMMA LogType ==
    ASSUME NEW lines \in Seq(Printable)
    PROVE  \A n \in 0..Len(lines) : LogUpTo(lines)[n] \in Seq(Printable)
<1> DEFINE Without == {n \in 0..Len(lines) : LogUpTo(lines)[n] \notin Seq(Printable)}
<1>1. SUFFICES ASSUME Without # {} PROVE FALSE
  OBVIOUS
<1>2. PICK n \in Without : \A m \in Without : n <= m
  <2>1. Without \subseteq Nat
    OBVIOUS
  <2> HIDE DEF Without
  <2>2. QED
    BY <1>1, <2>1, LeastExists
<1>3. n # 0
  <2>1. LogUpTo(lines)[0] = <<>> /\ <<>> \in Seq(Printable)
    BY LogSteps
  <2>2. QED
    BY <2>1
<1>4. n \in 1..Len(lines) /\ n - 1 \in 0..Len(lines) /\ ~(n <= n - 1)
  BY <1>3
<1>5. LogUpTo(lines)[n - 1] \in Seq(Printable) /\ lines[n] \in Printable
  BY <1>2, <1>4
<1>6. LogUpTo(lines)[n] \in Seq(Printable)
  <2>1. LogUpTo(lines)[n] = IF Logged(lines[n]) THEN Append(LogUpTo(lines)[n - 1], lines[n])
                                                ELSE LogUpTo(lines)[n - 1]
    BY <1>4, LogSteps
  <2>2. \A log \in Seq(Printable) : Append(log, lines[n]) \in Seq(Printable)
    BY <1>5
  <2>3. QED
    BY <1>5, <2>1, <2>2
<1>7. QED
  BY <1>6

\* One more line is one more line of the log, or none.
LEMMA LogGrows ==
    ASSUME NEW before \in Seq(Printable), NEW l \in Printable
    PROVE  /\ LogOf(before) \in Seq(Printable)
           /\ LogOf(Append(before, l)) = IF Logged(l) THEN Append(LogOf(before), l) ELSE LogOf(before)
<1> DEFINE all == Append(before, l)
           k == Len(before)
<1>1. /\ all \in Seq(Printable) /\ k \in Nat /\ Len(all) = k + 1 /\ all[k + 1] = l
      /\ \A n \in 1..k : all[n] = before[n]
  OBVIOUS
<1> HIDE DEF all, k
<1>2. \A n \in 0..k : LogUpTo(all)[n] = LogUpTo(before)[n]
  <2> DEFINE Differ == {n \in 0..k : LogUpTo(all)[n] # LogUpTo(before)[n]}
  <2>1. SUFFICES ASSUME Differ # {} PROVE FALSE
    OBVIOUS
  <2>2. PICK n \in Differ : \A m \in Differ : n <= m
    <3>1. Differ \subseteq Nat
      BY <1>1
    <3> HIDE DEF Differ
    <3>2. QED
      BY <2>1, <3>1, LeastExists
  <2>3. n # 0
    BY <1>1, LogSteps
  <2>4. n \in 1..k /\ n \in 1..Len(all) /\ n - 1 \in 0..k /\ ~(n <= n - 1)
    BY <1>1, <2>3
  <2>5. LogUpTo(all)[n - 1] = LogUpTo(before)[n - 1] /\ all[n] = before[n]
    BY <1>1, <2>2, <2>4
  <2>6. n \in 1..Len(before)
    BY <2>4 DEF k
  <2>7. LogUpTo(all)[n] = LogUpTo(before)[n]
    BY <1>1, <2>4, <2>5, <2>6, LogSteps
  <2>8. QED
    BY <2>7
<1>3. k + 1 \in 1..Len(all) /\ (k + 1) - 1 = k /\ k \in 0..k
  BY <1>1
<1>4. LogUpTo(all)[k + 1] = IF Logged(l) THEN Append(LogUpTo(before)[k], l) ELSE LogUpTo(before)[k]
  BY <1>1, <1>2, <1>3, LogSteps, SMTT(30)
<1>5. LogOf(before) \in Seq(Printable)
  BY <1>1, LogType DEF LogOf, k
<1>6. QED
  BY <1>1, <1>4, <1>5 DEF LogOf, all, k

\* Pushing onto the end of a log is the end of the log with it.
LEMMA EndPushed ==
    ASSUME NEW log \in Seq(Printable), NEW l \in Printable, NEW cap \in Nat \ {0}
    PROVE  Push(LastOf(log, cap), l, cap) = LastOf(Append(log, l), cap)
<1> DEFINE k == Len(log)
           a == AtLeast(1, k - cap + 1)
           end == SubSeq(log, a, k)
           c == AtLeast(1, (k + 1) - cap + 1)
           b == AtLeast(1, (Len(end) + 1) - cap + 1)
<1>1. k \in Nat /\ a \in Nat /\ c \in Nat /\ 1 <= a /\ a <= k + 1 /\ 1 <= c /\ c <= k + 1
  BY DEF AtLeast
<1>2. Len(end) = k - a + 1 /\ end \in Seq(Printable) /\ \A n \in 1..Len(end) : end[n] = log[a + n - 1]
  <2>1. \A n \in a..k : n \in 1..k
    BY <1>1
  <2>2. QED
    BY <1>1, <2>1
<1>3. b \in Nat /\ 1 <= b /\ b <= Len(end) + 1 /\ a + b - 1 = c
  <2> HIDE DEF end
  <2>1. CASE k < cap
    <3>1. a = 1 /\ Len(end) = k
      BY <1>1, <1>2, <2>1 DEF AtLeast
    <3>2. b = c
      BY <3>1
    <3> HIDE DEF b, c, a, k
    <3>3. QED
      BY <1>1, <3>1, <3>2
  <2>2. CASE k >= cap
    <3>1. a = k - cap + 1 /\ Len(end) = cap
      BY <1>1, <1>2, <2>2 DEF AtLeast
    <3>2. b = 2 /\ c = k - cap + 2
      BY <1>1, <2>2, <3>1 DEF AtLeast
    <3>3. QED
      BY <2>2, <3>1, <3>2
  <2>3. QED
    BY <1>1, <2>1, <2>2
<1> DEFINE one == Append(end, l)
           two == Append(log, l)
<1>4. /\ one \in Seq(Printable) /\ Len(one) = k - a + 2 /\ one[k - a + 2] = l
      /\ \A n \in 1..(k - a + 1) : one[n] = log[a + n - 1]
  BY <1>1, <1>2
<1>5. two \in Seq(Printable) /\ Len(two) = k + 1 /\ two[k + 1] = l /\ \A n \in 1..k : two[n] = log[n]
  OBVIOUS
<1>6. Push(LastOf(log, cap), l, cap) = SubSeq(one, b, Len(one)) /\ LastOf(two, cap) = SubSeq(two, c, Len(two))
  <2>1. LastOf(log, cap) = end /\ Len(one) = Len(end) + 1
    BY <1>2 DEF LastOf
  <2>2. QED
    BY <2>1, <1>5 DEF Push, LastOf
<1> HIDE DEF k, a, b, c, end, one, two
<1>7. /\ SubSeq(one, b, Len(one)) \in Seq(Printable) /\ Len(SubSeq(one, b, Len(one))) = k + 2 - c
      /\ \A n \in 1..(k + 2 - c) : SubSeq(one, b, Len(one))[n] = one[b + n - 1]
  <2>1. Len(one) - b + 1 = k + 2 - c /\ \A n \in b..Len(one) : n \in 1..Len(one)
    BY <1>1, <1>2, <1>3, <1>4
  <2>2. QED
    BY <1>1, <1>2, <1>3, <1>4, <2>1, SMTT(30)
<1>8. /\ SubSeq(two, c, Len(two)) \in Seq(Printable) /\ Len(SubSeq(two, c, Len(two))) = k + 2 - c
      /\ \A n \in 1..(k + 2 - c) : SubSeq(two, c, Len(two))[n] = two[c + n - 1]
  <2>1. Len(two) - c + 1 = k + 2 - c /\ \A n \in c..Len(two) : n \in 1..Len(two)
    BY <1>1, <1>5
  <2>2. QED
    BY <1>1, <1>5, <2>1
<1>9. ASSUME NEW n \in 1..(k + 2 - c) PROVE one[b + n - 1] = two[c + n - 1]
  <2>1. CASE c + n - 1 = k + 1
    <3>1. b + n - 1 = k - a + 2
      BY <1>1, <1>2, <1>3, <2>1
    <3>2. QED
      BY <1>4, <1>5, <2>1, <3>1
  <2>2. CASE c + n - 1 # k + 1
    <3>1. c + n - 1 \in 1..k /\ b + n - 1 \in 1..(k - a + 1) /\ a + (b + n - 1) - 1 = c + n - 1
      BY <1>1, <1>2, <1>3, <2>2
    <3>2. QED
      BY <1>4, <1>5, <3>1
  <2>3. QED
    BY <2>1, <2>2
<1>10. SubSeq(one, b, Len(one)) = SubSeq(two, c, Len(two))
  <2> DEFINE u == SubSeq(one, b, Len(one))
             v == SubSeq(two, c, Len(two))
  <2>1. u \in Seq(Printable) /\ v \in Seq(Printable) /\ Len(u) = Len(v) /\ \A n \in 1..Len(u) : u[n] = v[n]
    BY <1>7, <1>8, <1>9
  <2> HIDE DEF u, v
  <2>2. u = v
    BY <2>1
  <2>3. QED
    BY <2>2 DEF u, v
<1>11. QED
  BY <1>6, <1>10 DEF two

-----------------------------------------------------------------------------
(* Preservation, part by part.                                             *)

\* The initial states.
LEMMA InitIInv == Init => IInv
<1> SUFFICES ASSUME Init PROVE IInv
  OBVIOUS
<1> USE DashboardAssumption DEF Init
<1>1. Types
  <2>1. tracker \in Trackers
    BY DEF Start, Trackers
  <2>2. [phase |-> "setup", percent |-> 0, recent |-> <<>>] \in Frames
    <3>1. <<>> \in Seq(Printable) /\ 0 \in 0..100
      OBVIOUS
    <3> HIDE DEF Init
    <3>2. QED
      BY <3>1 DEF Frames
  <2>3. shown \in Frames /\ screen \in Frames /\ frame \in [Renderers -> Frames]
    BY <2>2
  <2>4. shown.recent = <<>>
    OBVIOUS
  <2>5. output \in Seq(Printable) /\ read \in Seq(Printable) /\ fullLog \in Seq(Printable)
    BY OutputsAssumption
  <2>6. renders \in [Renderers -> {"idle", "copied", "drawn"}]
    OBVIOUS
  <2>7. QED
    BY <2>1, <2>3, <2>4, <2>5, <2>6 DEF Types
<1>2. MainIsAt /\ OneRenders /\ HeightKnown /\ NothingLeftOver /\ LastCopy
  BY DEF MainIsAt, OneRenders, HeightKnown, NothingLeftOver, LastCopy, Renderers
<1>3. PercentsGrow
  BY DEF PercentsGrow, Start, Renderers
<1>e. EndKept
  <2>1. LogOf(<<>>) = <<>>
    <3> HIDE DEF Init
    <3>1. <<>> \in Seq(Printable) /\ Len(<<>>) = 0
      OBVIOUS
    <3>2. LogUpTo(<<>>)[0] = <<>>
      BY <3>1, LogSteps
    <3>3. QED
      BY <3>1, <3>2 DEF LogOf
  <2>2. LastOf(<<>>, FullLines) = <<>>
    BY DEF LastOf, AtLeast
  <2>3. QED
    BY <2>1, <2>2 DEF EndKept
<1>4. Reached = 1
  BY DEF Reached, Start
<1>5. ToCome
  <2>1. InOrder(output)
    BY ScriptAssumption
  <2>2. \A i \in DOMAIN output : IsPhase(output[i]) => 1 <= Index(output[i].id)
    BY Indices
  <2>3. QED
    BY <1>4, <2>1, <2>2, Indices DEF ToCome, Start
<1>6. FramesWithin
  <2>1. \A i \in 1..8 : PhaseOrder[i] = "setup" => i = 1
    BY DEF PhaseOrder
  <2>2. Base("gradle", 2) \in Nat
    BY DEF Base, Weights
  <2>3. QED
    BY <1>4, <2>1, <2>2, Indices DEF FramesWithin, Within, Start
<1>7. QED
  BY <1>1, <1>2, <1>3, <1>e, <1>5, <1>6 DEF IInv

\* What onChunk has cut off is at most as long as it may be.
LEMMA Pushed ==
    ASSUME NEW buffer \in Seq(Printable), NEW l \in Printable, NEW cap \in Nat \ {0}
    PROVE  Push(buffer, l, cap) \in Seq(Printable) /\ Len(Push(buffer, l, cap)) <= cap
<1> DEFINE all == Append(buffer, l)
           first == AtLeast(1, Len(all) - cap + 1)
<1>1. all \in Seq(Printable) /\ Len(all) = Len(buffer) + 1 /\ Len(buffer) \in Nat
  OBVIOUS
<1> HIDE DEF all
<1>2. first \in 1..Len(all) /\ Len(all) - first + 1 <= cap
  BY <1>1 DEF AtLeast
<1>3. \A i \in first..Len(all) : i \in 1..Len(all)
  BY <1>1, <1>2
<1>4. SubSeq(all, first, Len(all)) \in Seq(Printable) /\ Len(SubSeq(all, first, Len(all))) = Len(all) - first + 1
  BY <1>1, <1>2, <1>3
<1>5. QED
  BY <1>2, <1>4 DEF Push, all

\* All but the last element.
LEMMA FrontType == ASSUME NEW s \in Seq(Printable), s # <<>> PROVE Front(s) \in Seq(Printable)
<1>1. Len(s) \in Nat \ {0} /\ \A n \in 1..(Len(s) - 1) : n \in 1..Len(s)
  OBVIOUS
<1>2. QED
  BY <1>1 DEF Front

LEMMA FrontOfAppend == ASSUME NEW s \in Seq(Printable), NEW l \in Printable PROVE Front(Append(s, l)) = s
<1> DEFINE all == Append(s, l)
<1>1. all \in Seq(Printable) /\ Len(all) = Len(s) + 1 /\ Len(s) \in Nat /\ \A n \in 1..Len(s) : all[n] = s[n]
  OBVIOUS
<1> HIDE DEF all
<1>2. /\ SubSeq(all, 1, Len(s)) \in Seq(Printable) /\ Len(SubSeq(all, 1, Len(s))) = Len(s)
      /\ \A n \in 1..Len(s) : SubSeq(all, 1, Len(s))[n] = all[n]
  <2>1. \A n \in 1..Len(s) : n \in 1..Len(all)
    BY <1>1
  <2>2. QED
    BY <1>1, <2>1
<1>3. SubSeq(all, 1, Len(s)) = s
  BY <1>1, <1>2
<1>4. Front(all) = SubSeq(all, 1, Len(s))
  BY <1>1 DEF Front
<1>5. QED
  BY <1>3, <1>4 DEF all

\* onChunk, step by step.
LEMMA LineTaken ==
    ASSUME Types, TakeLine
    PROVE  /\ output # <<>> /\ line' = output[1] /\ line' \in Printable
           /\ output' \in Seq(Printable) /\ Len(output') = Len(output) - 1
           /\ \A i \in 1..Len(output') : output'[i] = output[i + 1] /\ i + 1 \in 1..Len(output)
           /\ 1 \in 1..Len(output)
           /\ read' \in Seq(Printable)
           /\ tracker' \in Trackers
           /\ tracker'.phase = tracker.phase /\ tracker'.percent = tracker.percent
           /\ tracker'.engine # tracker.engine => line'.kind = "engine"
           /\ shown' \in Frames
           /\ shown'.percent = shown.percent /\ shown'.recent = shown.recent
           /\ shown'.phase = IF line'.kind = "phase" THEN line'.id ELSE shown.phase
<1>1. /\ output # <<>> /\ line' = output[1] /\ line' \in Printable
      /\ output' \in Seq(Printable) /\ Len(output') = Len(output) - 1
      /\ \A i \in 1..Len(output') : output'[i] = output[i + 1] /\ i + 1 \in 1..Len(output)
      /\ 1 \in 1..Len(output)
      /\ read' \in Seq(Printable)
  BY DEF Types, TakeLine
<1>2. /\ tracker' \in Trackers
      /\ tracker'.phase = tracker.phase /\ tracker'.percent = tracker.percent
      /\ tracker'.engine # tracker.engine => line'.kind = "engine"
  BY DEF Types, TakeLine, SetEngine, Trackers
<1>3. line'.kind = "phase" => line'.id \in STRING
  BY <1>1 DEF Printable
<1>4. /\ shown' \in Frames
      /\ shown'.percent = shown.percent /\ shown'.recent = shown.recent
      /\ shown'.phase = IF line'.kind = "phase" THEN line'.id ELSE shown.phase
  <2>1. CASE line'.kind = "phase"
    BY <1>3, <2>1 DEF Types, TakeLine, Frames
  <2>2. CASE line'.kind # "phase"
    BY <2>2 DEF Types, TakeLine
  <2>3. QED
    BY <2>1, <2>2
<1>5. QED
  BY <1>1, <1>2, <1>4

\* The percentage that is shown is the tracker's.
LEMMA LineTracked ==
    ASSUME Types, TrackLine
    PROVE  /\ line \in Printable
           /\ tracker' \in Trackers
           /\ tracker'.engine = tracker.engine
           /\ tracker'.phase = IF IsPhase(line) THEN Index(line.id) ELSE tracker.phase
           /\ tracker.percent <= tracker'.percent
           /\ tracker'.percent <= tracker.percent \/
                tracker'.percent <= Base(tracker'.engine, tracker'.phase + 1)
           /\ shown' \in Frames
           /\ shown'.percent = tracker'.percent
           /\ shown'.phase = shown.phase /\ shown'.recent = shown.recent
<1>1. line \in Printable /\ tracker \in Trackers /\ tracker' = HandleLine(tracker, line)
  BY DEF Types, TrackLine
<1>2. /\ tracker' \in Trackers
      /\ tracker'.engine = tracker.engine
      /\ tracker'.phase = IF IsPhase(line) THEN Index(line.id) ELSE tracker.phase
      /\ tracker.percent <= tracker'.percent
      /\ tracker'.percent <= tracker.percent \/
           tracker'.percent <= Base(tracker'.engine, tracker'.phase + 1)
  BY <1>1, Handled
<1>3. tracker'.percent \in 0..100
  BY <1>2 DEF Trackers
<1>4. /\ shown' \in Frames /\ shown'.percent = tracker'.percent
      /\ shown'.phase = shown.phase /\ shown'.recent = shown.recent
  BY <1>3 DEF Types, TrackLine, Frames
<1>5. QED
  BY <1>1, <1>2, <1>4

\* Logging changes the two buffers only.
LEMMA LineLogged ==
    ASSUME Types, LogLine
    PROVE  /\ shown' \in Frames /\ Len(shown'.recent) <= RecentLines
           /\ shown'.phase = shown.phase /\ shown'.percent = shown.percent
           /\ fullLog' \in Seq(Printable) /\ Len(fullLog') <= FullLines
<1>1. CASE line.kind = "noise"
  BY <1>1 DEF Types, LogLine
<1>2. CASE line.kind # "noise"
  <2>1. line \in Printable /\ shown.recent \in Seq(Printable) /\ fullLog \in Seq(Printable)
    BY DEF Types, LogLine, Frames
  <2> DEFINE recent == Push(shown.recent, line, RecentLines)
  <2>2. recent \in Seq(Printable) /\ Len(recent) <= RecentLines
    BY <2>1, Pushed, DashboardAssumption
  <2>3. Push(fullLog, line, FullLines) \in Seq(Printable) /\ Len(Push(fullLog, line, FullLines)) <= FullLines
    BY <2>1, Pushed, DashboardAssumption
  <2>4. shown' = [shown EXCEPT !.recent = recent] /\ fullLog' = Push(fullLog, line, FullLines)
    BY <1>2 DEF LogLine
  <2> HIDE DEF recent
  <2>5. QED
    BY <2>2, <2>3, <2>4 DEF Types, Frames
<1>3. QED
  BY <1>1, <1>2

\* The number of lines of a frame.
LEMMA LinesAreCounted == \A f \in Frames : Lines(f) \in Nat
  BY DEF Frames, Lines

\* Types.
LEMMA TypesNext == IInv /\ [Next]_vars => Types'
<1> SUFFICES ASSUME IInv, [Next]_vars PROVE Types'
  OBVIOUS
<1> USE DashboardAssumption
      DEF IInv, Types, Renderers
<1>1. ASSUME TakeLine PROVE Types'
  BY <1>1, LineTaken DEF TakeLine, viewVars
<1>2. ASSUME TrackLine PROVE Types'
  BY <1>2, LineTracked DEF TrackLine, viewVars
<1>3. ASSUME LogLine PROVE Types'
  BY <1>3, LineLogged DEF LogLine, viewVars
<1>4. ASSUME StreamEnds PROVE Types'
  BY <1>4 DEF StreamEnds, viewVars
<1>5. ASSUME Sample PROVE Types'
  BY <1>5 DEF Sample, outputVars, viewVars
<1>6. ASSUME Tick, sampled, CopyState("status") PROVE Types'
  BY <1>6 DEF Tick, CopyState, outputVars
<1>7. ASSUME Tick, Draw("status") PROVE Types'
  BY <1>7, LinesAreCounted DEF Tick, Draw, outputVars
<1>8. ASSUME Tick, CountLines("status") PROVE Types'
  BY <1>8, LinesAreCounted DEF Tick, CountLines, outputVars
<1>9. ASSUME WaitContainer PROVE Types'
  BY <1>9 DEF WaitContainer, MainGoes, outputVars, viewVars
<1>10. ASSUME JoinOutput PROVE Types'
  BY <1>10 DEF JoinOutput, CopyState, MainGoes, outputVars
<1>11. ASSUME LastRender, Draw("main") PROVE Types'
  BY <1>11, LinesAreCounted DEF LastRender, Draw, CountLines, MainGoes,
     outputVars
<1>12. ASSUME LastRender, CountLines("main") PROVE Types'
  BY <1>12, LinesAreCounted DEF LastRender, Draw, CountLines, MainGoes,
     outputVars
<1>13. ASSUME Finish PROVE Types'
  BY <1>13 DEF Finish, MainGoes, outputVars, viewVars
<1>14. ASSUME JoinStatus PROVE Types'
  BY <1>14 DEF JoinStatus, MainGoes, outputVars, viewVars
<1>15. ASSUME StreamBreaks PROVE Types'
  BY <1>15 DEF StreamBreaks, viewVars
<1>16. ASSUME ContainerStops PROVE Types'
  BY <1>16 DEF ContainerStops, viewVars
<1>17. ASSUME Cancel PROVE Types'
  BY <1>17 DEF Cancel
<1>18. CASE UNCHANGED vars
  BY <1>18 DEF vars, outputVars, viewVars
<1>19. QED
  BY <1>1, <1>2, <1>3, <1>4, <1>5, <1>6, <1>7, <1>8, <1>9, <1>10, <1>11,
     <1>12, <1>13, <1>14, <1>15, <1>16, <1>17, <1>18 DEF Next, AttachStep,
     StatusStep, MainStep, Tick, LastRender, Done

\* main goes on only with a thread that has ended.
LEMMA MainNext == IInv /\ [Next]_vars => MainIsAt'
<1> SUFFICES ASSUME IInv, [Next]_vars PROVE MainIsAt'
  OBVIOUS
<1> USE DashboardAssumption
      DEF IInv, Types, MainIsAt, Renderers
<1>1. ASSUME TakeLine PROVE MainIsAt'
  BY <1>1 DEF TakeLine, viewVars
<1>2. ASSUME TrackLine PROVE MainIsAt'
  BY <1>2 DEF TrackLine, viewVars
<1>3. ASSUME LogLine PROVE MainIsAt'
  BY <1>3 DEF LogLine, viewVars
<1>4. ASSUME StreamEnds PROVE MainIsAt'
  BY <1>4 DEF StreamEnds, viewVars
<1>5. ASSUME Sample PROVE MainIsAt'
  BY <1>5 DEF Sample, outputVars, viewVars
<1>6. ASSUME Tick, sampled, CopyState("status") PROVE MainIsAt'
  BY <1>6 DEF Tick, CopyState, outputVars
<1>7. ASSUME Tick, Draw("status") PROVE MainIsAt'
  BY <1>7 DEF Tick, Draw, outputVars
<1>8. ASSUME Tick, CountLines("status") PROVE MainIsAt'
  BY <1>8 DEF Tick, CountLines, outputVars
<1>9. ASSUME WaitContainer PROVE MainIsAt'
  BY <1>9 DEF WaitContainer, MainGoes, outputVars, viewVars
<1>10. ASSUME JoinOutput PROVE MainIsAt'
  BY <1>10 DEF JoinOutput, CopyState, MainGoes, outputVars
<1>11. ASSUME LastRender, Draw("main") PROVE MainIsAt'
  BY <1>11 DEF LastRender, Draw, CountLines, MainGoes, outputVars
<1>12. ASSUME LastRender, CountLines("main") PROVE MainIsAt'
  BY <1>12 DEF LastRender, Draw, CountLines, MainGoes, outputVars
<1>13. ASSUME Finish PROVE MainIsAt'
  BY <1>13 DEF Finish, MainGoes, outputVars, viewVars
<1>14. ASSUME JoinStatus PROVE MainIsAt'
  BY <1>14 DEF JoinStatus, MainGoes, outputVars, viewVars
<1>15. ASSUME StreamBreaks PROVE MainIsAt'
  BY <1>15 DEF StreamBreaks, viewVars
<1>16. ASSUME ContainerStops PROVE MainIsAt'
  BY <1>16 DEF ContainerStops, viewVars
<1>17. ASSUME Cancel PROVE MainIsAt'
  BY <1>17 DEF Cancel
<1>18. CASE UNCHANGED vars
  BY <1>18 DEF vars, outputVars, viewVars
<1>19. QED
  BY <1>1, <1>2, <1>3, <1>4, <1>5, <1>6, <1>7, <1>8, <1>9, <1>10, <1>11,
     <1>12, <1>13, <1>14, <1>15, <1>16, <1>17, <1>18 DEF Next, AttachStep,
     StatusStep, MainStep, Tick, LastRender, Done

\* The second of two renders sets `raced`.
LEMMA OneRendersNext == IInv /\ [Next]_vars => OneRenders'
<1> SUFFICES ASSUME IInv, [Next]_vars PROVE OneRenders'
  OBVIOUS
<1> USE DashboardAssumption
      DEF IInv, Types, OneRenders, Renderers
<1>1. ASSUME TakeLine PROVE OneRenders'
  BY <1>1 DEF TakeLine, viewVars
<1>2. ASSUME TrackLine PROVE OneRenders'
  BY <1>2 DEF TrackLine, viewVars
<1>3. ASSUME LogLine PROVE OneRenders'
  BY <1>3 DEF LogLine, viewVars
<1>4. ASSUME StreamEnds PROVE OneRenders'
  BY <1>4 DEF StreamEnds, viewVars
<1>5. ASSUME Sample PROVE OneRenders'
  BY <1>5 DEF Sample, outputVars, viewVars
<1>6. ASSUME Tick, sampled, CopyState("status") PROVE OneRenders'
  BY <1>6 DEF Tick, CopyState, outputVars
<1>7. ASSUME Tick, Draw("status") PROVE OneRenders'
  BY <1>7 DEF Tick, Draw, outputVars
<1>8. ASSUME Tick, CountLines("status") PROVE OneRenders'
  BY <1>8 DEF Tick, CountLines, outputVars
<1>9. ASSUME WaitContainer PROVE OneRenders'
  BY <1>9 DEF WaitContainer, MainGoes, outputVars, viewVars
<1>10. ASSUME JoinOutput PROVE OneRenders'
  BY <1>10 DEF JoinOutput, CopyState, MainGoes, outputVars
<1>11. ASSUME LastRender, Draw("main") PROVE OneRenders'
  BY <1>11 DEF LastRender, Draw, CountLines, MainGoes, outputVars
<1>12. ASSUME LastRender, CountLines("main") PROVE OneRenders'
  BY <1>12 DEF LastRender, Draw, CountLines, MainGoes, outputVars
<1>13. ASSUME Finish PROVE OneRenders'
  BY <1>13 DEF Finish, MainGoes, outputVars, viewVars
<1>14. ASSUME JoinStatus PROVE OneRenders'
  BY <1>14 DEF JoinStatus, MainGoes, outputVars, viewVars
<1>15. ASSUME StreamBreaks PROVE OneRenders'
  BY <1>15 DEF StreamBreaks, viewVars
<1>16. ASSUME ContainerStops PROVE OneRenders'
  BY <1>16 DEF ContainerStops, viewVars
<1>17. ASSUME Cancel PROVE OneRenders'
  BY <1>17 DEF Cancel
<1>18. CASE UNCHANGED vars
  BY <1>18 DEF vars, outputVars, viewVars
<1>19. QED
  BY <1>1, <1>2, <1>3, <1>4, <1>5, <1>6, <1>7, <1>8, <1>9, <1>10, <1>11,
     <1>12, <1>13, <1>14, <1>15, <1>16, <1>17, <1>18 DEF Next, AttachStep,
     StatusStep, MainStep, Tick, LastRender, Done

\* Only renders that overlap and Ctrl-C part the view from the terminal.
LEMMA HeightNext == IInv /\ [Next]_vars => HeightKnown'
<1> SUFFICES ASSUME IInv, [Next]_vars PROVE HeightKnown'
  OBVIOUS
<1> USE DashboardAssumption
      DEF IInv, Types, OneRenders, HeightKnown, Lines, Renderers
<1>1. ASSUME TakeLine PROVE HeightKnown'
  BY <1>1 DEF TakeLine, viewVars
<1>2. ASSUME TrackLine PROVE HeightKnown'
  BY <1>2 DEF TrackLine, viewVars
<1>3. ASSUME LogLine PROVE HeightKnown'
  BY <1>3 DEF LogLine, viewVars
<1>4. ASSUME StreamEnds PROVE HeightKnown'
  BY <1>4 DEF StreamEnds, viewVars
<1>5. ASSUME Sample PROVE HeightKnown'
  BY <1>5 DEF Sample, outputVars, viewVars
<1>6. ASSUME Tick, sampled, CopyState("status") PROVE HeightKnown'
  BY <1>6 DEF Tick, CopyState, outputVars
<1>7. ASSUME Tick, Draw("status") PROVE HeightKnown'
  BY <1>7 DEF Tick, Draw, outputVars
<1>8. ASSUME Tick, CountLines("status") PROVE HeightKnown'
  BY <1>8 DEF Tick, CountLines, outputVars
<1>9. ASSUME WaitContainer PROVE HeightKnown'
  BY <1>9 DEF WaitContainer, MainGoes, outputVars, viewVars
<1>10. ASSUME JoinOutput PROVE HeightKnown'
  BY <1>10 DEF JoinOutput, CopyState, MainGoes, outputVars
<1>11. ASSUME LastRender, Draw("main") PROVE HeightKnown'
  BY <1>11 DEF LastRender, Draw, CountLines, MainGoes, outputVars
<1>12. ASSUME LastRender, CountLines("main") PROVE HeightKnown'
  BY <1>12 DEF LastRender, Draw, CountLines, MainGoes, outputVars
<1>13. ASSUME Finish PROVE HeightKnown'
  BY <1>13 DEF Finish, MainGoes, outputVars, viewVars
<1>14. ASSUME JoinStatus PROVE HeightKnown'
  BY <1>14 DEF JoinStatus, MainGoes, outputVars, viewVars
<1>15. ASSUME StreamBreaks PROVE HeightKnown'
  BY <1>15 DEF StreamBreaks, viewVars
<1>16. ASSUME ContainerStops PROVE HeightKnown'
  BY <1>16 DEF ContainerStops, viewVars
<1>17. ASSUME Cancel PROVE HeightKnown'
  BY <1>17 DEF Cancel
<1>18. CASE UNCHANGED vars
  BY <1>18 DEF vars, outputVars, viewVars
<1>19. QED
  BY <1>1, <1>2, <1>3, <1>4, <1>5, <1>6, <1>7, <1>8, <1>9, <1>10, <1>11,
     <1>12, <1>13, <1>14, <1>15, <1>16, <1>17, <1>18 DEF Next, AttachStep,
     StatusStep, MainStep, Tick, LastRender, Done

\* What is erased is what was printed.
LEMMA LeftOverNext == IInv /\ [Next]_vars => NothingLeftOver'
<1> SUFFICES ASSUME IInv, [Next]_vars PROVE NothingLeftOver'
  OBVIOUS
<1> USE DashboardAssumption
      DEF IInv, Types, OneRenders, HeightKnown, NothingLeftOver, Renderers
<1>1. ASSUME TakeLine PROVE NothingLeftOver'
  BY <1>1 DEF TakeLine, viewVars
<1>2. ASSUME TrackLine PROVE NothingLeftOver'
  BY <1>2 DEF TrackLine, viewVars
<1>3. ASSUME LogLine PROVE NothingLeftOver'
  BY <1>3 DEF LogLine, viewVars
<1>4. ASSUME StreamEnds PROVE NothingLeftOver'
  BY <1>4 DEF StreamEnds, viewVars
<1>5. ASSUME Sample PROVE NothingLeftOver'
  BY <1>5 DEF Sample, outputVars, viewVars
<1>6. ASSUME Tick, sampled, CopyState("status") PROVE NothingLeftOver'
  BY <1>6 DEF Tick, CopyState, outputVars
<1>7. ASSUME Tick, Draw("status") PROVE NothingLeftOver'
  BY <1>7 DEF Tick, Draw, outputVars
<1>8. ASSUME Tick, CountLines("status") PROVE NothingLeftOver'
  BY <1>8 DEF Tick, CountLines, outputVars
<1>9. ASSUME WaitContainer PROVE NothingLeftOver'
  BY <1>9 DEF WaitContainer, MainGoes, outputVars, viewVars
<1>10. ASSUME JoinOutput PROVE NothingLeftOver'
  BY <1>10 DEF JoinOutput, CopyState, MainGoes, outputVars
<1>11. ASSUME LastRender, Draw("main") PROVE NothingLeftOver'
  BY <1>11 DEF LastRender, Draw, CountLines, MainGoes, outputVars
<1>12. ASSUME LastRender, CountLines("main") PROVE NothingLeftOver'
  BY <1>12 DEF LastRender, Draw, CountLines, MainGoes, outputVars
<1>13. ASSUME Finish PROVE NothingLeftOver'
  BY <1>13 DEF Finish, MainGoes, outputVars, viewVars
<1>14. ASSUME JoinStatus PROVE NothingLeftOver'
  BY <1>14 DEF JoinStatus, MainGoes, outputVars, viewVars
<1>15. ASSUME StreamBreaks PROVE NothingLeftOver'
  BY <1>15 DEF StreamBreaks, viewVars
<1>16. ASSUME ContainerStops PROVE NothingLeftOver'
  BY <1>16 DEF ContainerStops, viewVars
<1>17. ASSUME Cancel PROVE NothingLeftOver'
  BY <1>17 DEF Cancel
<1>18. CASE UNCHANGED vars
  BY <1>18 DEF vars, outputVars, viewVars
<1>19. QED
  BY <1>1, <1>2, <1>3, <1>4, <1>5, <1>6, <1>7, <1>8, <1>9, <1>10, <1>11,
     <1>12, <1>13, <1>14, <1>15, <1>16, <1>17, <1>18 DEF Next, AttachStep,
     StatusStep, MainStep, Tick, LastRender, Done

\* Nobody changes the state once the output is over.
LEMMA LastCopyNext == IInv /\ [Next]_vars => LastCopy'
<1> SUFFICES ASSUME IInv, [Next]_vars PROVE LastCopy'
  OBVIOUS
<1> USE DashboardAssumption
      DEF IInv, Types, MainIsAt, OneRenders, LastCopy, Renderers
<1>1. ASSUME TakeLine PROVE LastCopy'
  BY <1>1 DEF TakeLine, viewVars
<1>2. ASSUME TrackLine PROVE LastCopy'
  BY <1>2 DEF TrackLine, viewVars
<1>3. ASSUME LogLine PROVE LastCopy'
  BY <1>3 DEF LogLine, viewVars
<1>4. ASSUME StreamEnds PROVE LastCopy'
  BY <1>4 DEF StreamEnds, viewVars
<1>5. ASSUME Sample PROVE LastCopy'
  BY <1>5 DEF Sample, outputVars, viewVars
<1>6. ASSUME Tick, sampled, CopyState("status") PROVE LastCopy'
  BY <1>6 DEF Tick, CopyState, outputVars
<1>7. ASSUME Tick, Draw("status") PROVE LastCopy'
  BY <1>7 DEF Tick, Draw, outputVars
<1>8. ASSUME Tick, CountLines("status") PROVE LastCopy'
  BY <1>8 DEF Tick, CountLines, outputVars
<1>9. ASSUME WaitContainer PROVE LastCopy'
  BY <1>9 DEF WaitContainer, MainGoes, outputVars, viewVars
<1>10. ASSUME JoinOutput PROVE LastCopy'
  BY <1>10 DEF JoinOutput, CopyState, MainGoes, outputVars
<1>11. ASSUME LastRender, Draw("main") PROVE LastCopy'
  BY <1>11 DEF LastRender, Draw, CountLines, MainGoes, outputVars
<1>12. ASSUME LastRender, CountLines("main") PROVE LastCopy'
  BY <1>12 DEF LastRender, Draw, CountLines, MainGoes, outputVars
<1>13. ASSUME Finish PROVE LastCopy'
  BY <1>13 DEF Finish, MainGoes, outputVars, viewVars
<1>14. ASSUME JoinStatus PROVE LastCopy'
  BY <1>14 DEF JoinStatus, MainGoes, outputVars, viewVars
<1>15. ASSUME StreamBreaks PROVE LastCopy'
  BY <1>15 DEF StreamBreaks, viewVars
<1>16. ASSUME ContainerStops PROVE LastCopy'
  BY <1>16 DEF ContainerStops, viewVars
<1>17. ASSUME Cancel PROVE LastCopy'
  BY <1>17 DEF Cancel
<1>18. CASE UNCHANGED vars
  BY <1>18 DEF vars, outputVars, viewVars
<1>19. QED
  BY <1>1, <1>2, <1>3, <1>4, <1>5, <1>6, <1>7, <1>8, <1>9, <1>10, <1>11,
     <1>12, <1>13, <1>14, <1>15, <1>16, <1>17, <1>18 DEF Next, AttachStep,
     StatusStep, MainStep, Tick, LastRender, Done

\* Every line that is logged is logged, in its place.
LEMMA EndNext == IInv /\ [Next]_vars => EndKept'
<1> SUFFICES ASSUME IInv, [Next]_vars PROVE EndKept'
  OBVIOUS
<1> USE DashboardAssumption
      DEF IInv, Types, EndKept
<1>1. ASSUME TakeLine PROVE EndKept'
  <2>1. /\ attach = "reading" /\ attach' = "tracking" /\ fullLog' = fullLog /\ read' = Append(read, line')
        /\ line' \in Printable /\ read \in Seq(Printable)
    BY <1>1, LineTaken DEF TakeLine
  <2>2. Front(read') = read
    BY <2>1, FrontOfAppend
  <2> HIDE DEF Types
  <2>3. QED
    BY <2>1, <2>2
<1>2. ASSUME TrackLine PROVE EndKept'
  <2>1. /\ attach = "tracking" /\ attach' = (IF Marker(line) THEN "reading" ELSE "logging")
        /\ line \in Printable /\ UNCHANGED <<read, line, fullLog>>
        /\ read = Append(Front(read), line) /\ fullLog = LastOf(LogOf(Front(read)), FullLines)
        /\ read \in Seq(Printable) /\ read # <<>>
    BY <1>2 DEF TrackLine
  <2>2. Front(read) \in Seq(Printable)
    BY <2>1, FrontType
  <2> HIDE DEF IInv, Types, EndKept
  <2>3. CASE Marker(line)
    <3> DEFINE before == Front(read)
    <3> HIDE DEF before
    <3>1. LogOf(read) = LogOf(before)
      BY <2>1, <2>2, <2>3, LogGrows DEF before, Logged
    <3>2. fullLog' = LastOf(LogOf(read), FullLines) /\ attach' = "reading"
      BY <2>1, <2>3, <3>1 DEF before
    <3>3. QED
      BY <2>1, <3>2 DEF EndKept
  <2>4. CASE ~Marker(line)
    BY <2>1, <2>4 DEF EndKept
  <2>5. QED
    BY <2>3, <2>4
<1>3. ASSUME LogLine PROVE EndKept'
  <2>1. /\ attach = "logging" /\ attach' = "reading" /\ line \in Printable /\ ~Marker(line)
        /\ UNCHANGED <<read, line>>
        /\ read = Append(Front(read), line) /\ fullLog = LastOf(LogOf(Front(read)), FullLines)
        /\ IF line.kind = "noise" THEN fullLog' = fullLog ELSE fullLog' = Push(fullLog, line, FullLines)
        /\ read \in Seq(Printable) /\ read # <<>>
    BY <1>3 DEF LogLine
  <2>2. Front(read) \in Seq(Printable)
    BY <2>1, FrontType
  <2> HIDE DEF IInv, Types, EndKept
  <2> DEFINE before == Front(read)
  <2> HIDE DEF before
  <2>3. /\ LogOf(before) \in Seq(Printable)
        /\ LogOf(read) = IF Logged(line) THEN Append(LogOf(before), line) ELSE LogOf(before)
    BY <2>1, <2>2, LogGrows DEF before
  <2>4. fullLog' = LastOf(LogOf(read), FullLines)
    <3>1. CASE line.kind = "noise"
      BY <2>1, <2>3, <3>1 DEF Logged, before
    <3>2. CASE line.kind # "noise"
      <4>1. fullLog' = Push(LastOf(LogOf(before), FullLines), line, FullLines)
        BY <2>1, <3>2 DEF before
      <4>2. QED
        BY <2>1, <2>3, <3>2, <4>1, EndPushed DEF Logged
    <3>3. QED
      BY <3>1, <3>2
  <2>5. QED
    BY <2>1, <2>4 DEF EndKept
<1>4. ASSUME StreamEnds PROVE EndKept'
  BY <1>4 DEF StreamEnds, viewVars
<1>5. ASSUME Sample PROVE EndKept'
  BY <1>5 DEF Sample, outputVars, viewVars
<1>6. ASSUME Tick, sampled, CopyState("status") PROVE EndKept'
  BY <1>6 DEF Tick, CopyState, outputVars
<1>7. ASSUME Tick, Draw("status") PROVE EndKept'
  BY <1>7 DEF Tick, Draw, outputVars
<1>8. ASSUME Tick, CountLines("status") PROVE EndKept'
  BY <1>8 DEF Tick, CountLines, outputVars
<1>9. ASSUME WaitContainer PROVE EndKept'
  BY <1>9 DEF WaitContainer, MainGoes, outputVars, viewVars
<1>10. ASSUME JoinOutput PROVE EndKept'
  BY <1>10 DEF JoinOutput, CopyState, MainGoes, outputVars
<1>11. ASSUME LastRender, Draw("main") PROVE EndKept'
  BY <1>11 DEF LastRender, Draw, CountLines, MainGoes, outputVars
<1>12. ASSUME LastRender, CountLines("main") PROVE EndKept'
  BY <1>12 DEF LastRender, Draw, CountLines, MainGoes, outputVars
<1>13. ASSUME Finish PROVE EndKept'
  BY <1>13 DEF Finish, MainGoes, outputVars, viewVars
<1>14. ASSUME JoinStatus PROVE EndKept'
  BY <1>14 DEF JoinStatus, MainGoes, outputVars, viewVars
<1>15. ASSUME StreamBreaks PROVE EndKept'
  BY <1>15 DEF StreamBreaks, viewVars
<1>16. ASSUME ContainerStops PROVE EndKept'
  BY <1>16 DEF ContainerStops, viewVars
<1>17. ASSUME Cancel PROVE EndKept'
  BY <1>17 DEF Cancel
<1>18. CASE UNCHANGED vars
  BY <1>18 DEF vars, outputVars, viewVars
<1>19. QED
  BY <1>1, <1>2, <1>3, <1>4, <1>5, <1>6, <1>7, <1>8, <1>9, <1>10, <1>11,
     <1>12, <1>13, <1>14, <1>15, <1>16, <1>17, <1>18 DEF Next, AttachStep,
     StatusStep, MainStep, Tick, LastRender, Done

\* The percentages are numbers.
LEMMA PercentTypes ==
    Types => /\ tracker.percent \in Int /\ shown.percent \in Int /\ screen.percent \in Int
             /\ \A r \in Renderers : frame[r].percent \in Int
<1> SUFFICES ASSUME Types PROVE /\ tracker.percent \in Int /\ shown.percent \in Int /\ screen.percent \in Int
                                /\ \A r \in Renderers : frame[r].percent \in Int
  OBVIOUS
<1>1. ASSUME NEW f \in Frames PROVE f.percent \in Int
  <2>1. f.percent \in 0..100
    BY DEF Frames
  <2> HIDE DEF Frames
  <2>2. QED
    BY <2>1
<1>2. shown \in Frames /\ screen \in Frames /\ \A r \in Renderers : frame[r] \in Frames
  BY DEF Types
<1>3. tracker.percent \in Int
  <2>1. tracker \in Trackers
    BY DEF Types
  <2>2. tracker.percent \in 0..100
    BY <2>1 DEF Trackers
  <2>3. QED
    BY <2>2
<1>4. QED
  BY <1>1, <1>2, <1>3

\* What is copied later is not smaller.
LEMMA PercentsNext == IInv /\ [Next]_vars => PercentsGrow'
<1> SUFFICES ASSUME IInv, [Next]_vars PROVE PercentsGrow'
  OBVIOUS
<1> USE DashboardAssumption
      DEF IInv, Types, OneRenders, PercentsGrow, Renderers
<1>1. ASSUME TakeLine PROVE PercentsGrow'
  BY <1>1, LineTaken DEF TakeLine, viewVars
<1>2. ASSUME TrackLine PROVE PercentsGrow'
  <2>1. tracker.percent <= tracker'.percent /\ shown'.percent = tracker'.percent
    BY <1>2, LineTracked
  <2>2. UNCHANGED <<screen, frame, renders, raced>>
    BY <1>2 DEF TrackLine, viewVars
  <2>3. tracker.percent \in Int /\ tracker'.percent \in Int /\ screen.percent \in Int
          /\ \A r \in Renderers : frame[r].percent \in Int
    <3>1. tracker'.percent \in 0..100
      BY <1>2, LineTracked DEF Trackers
    <3>2. Types
      BY DEF IInv
    <3> HIDE DEF IInv, Types
    <3>3. tracker'.percent \in Int
      BY <3>1
    <3>4. QED
      BY <3>2, <3>3, PercentTypes
  <2>4. QED
    BY <2>1, <2>2, <2>3
<1>3. ASSUME LogLine PROVE PercentsGrow'
  BY <1>3, LineLogged DEF LogLine, viewVars
<1>4. ASSUME StreamEnds PROVE PercentsGrow'
  BY <1>4 DEF StreamEnds, viewVars
<1>5. ASSUME Sample PROVE PercentsGrow'
  BY <1>5 DEF Sample, outputVars, viewVars
<1>6. ASSUME Tick, sampled, CopyState("status") PROVE PercentsGrow'
  <2>1. SUFFICES ASSUME ~raced'
                 PROVE  /\ screen'.percent <= shown'.percent
                        /\ \A r \in Renderers : renders'[r] = "copied" =>
                              screen'.percent <= frame'[r].percent /\ frame'[r].percent <= shown'.percent
    BY <1>6 DEF Tick, CopyState, outputVars
  <2>2. ~raced /\ \A s \in Renderers \ {"status"} : renders[s] = "idle"
    BY <1>6, <2>1 DEF Tick, CopyState, outputVars
  <2>3. frame' = [frame EXCEPT !["status"] = shown] /\ shown' = shown /\ screen' = screen
          /\ \A s \in Renderers \ {"status"} : renders'[s] = renders[s]
    BY <1>6 DEF Tick, CopyState, outputVars
  <2>4. shown.percent \in Int /\ screen.percent <= shown.percent
    BY <2>2, PercentTypes
  <2>5. ASSUME NEW r \in Renderers, renders'[r] = "copied" PROVE r = "status"
    BY <2>2, <2>3, <2>5
  <2>6. QED
    BY <2>3, <2>4, <2>5
<1>7. ASSUME Tick, Draw("status") PROVE PercentsGrow'
  BY <1>7 DEF Tick, Draw, outputVars
<1>8. ASSUME Tick, CountLines("status") PROVE PercentsGrow'
  BY <1>8 DEF Tick, CountLines, outputVars
<1>9. ASSUME WaitContainer PROVE PercentsGrow'
  BY <1>9 DEF WaitContainer, MainGoes, outputVars, viewVars
<1>10. ASSUME JoinOutput PROVE PercentsGrow'
  <2>1. SUFFICES ASSUME ~raced'
                 PROVE  /\ screen'.percent <= shown'.percent
                        /\ \A r \in Renderers : renders'[r] = "copied" =>
                              screen'.percent <= frame'[r].percent /\ frame'[r].percent <= shown'.percent
    BY <1>10 DEF JoinOutput, CopyState, MainGoes, outputVars
  <2>2. ~raced /\ \A s \in Renderers \ {"main"} : renders[s] = "idle"
    BY <1>10, <2>1 DEF JoinOutput, CopyState, MainGoes, outputVars
  <2>3. frame' = [frame EXCEPT !["main"] = shown] /\ shown' = shown /\ screen' = screen
          /\ \A s \in Renderers \ {"main"} : renders'[s] = renders[s]
    BY <1>10 DEF JoinOutput, CopyState, MainGoes, outputVars
  <2>4. shown.percent \in Int /\ screen.percent <= shown.percent
    BY <2>2, PercentTypes
  <2>5. ASSUME NEW r \in Renderers, renders'[r] = "copied" PROVE r = "main"
    BY <2>2, <2>3, <2>5
  <2>6. QED
    BY <2>3, <2>4, <2>5
<1>11. ASSUME LastRender, Draw("main") PROVE PercentsGrow'
  BY <1>11 DEF LastRender, Draw, CountLines, MainGoes, outputVars
<1>12. ASSUME LastRender, CountLines("main") PROVE PercentsGrow'
  BY <1>12 DEF LastRender, Draw, CountLines, MainGoes, outputVars
<1>13. ASSUME Finish PROVE PercentsGrow'
  BY <1>13 DEF Finish, MainGoes, outputVars, viewVars
<1>14. ASSUME JoinStatus PROVE PercentsGrow'
  BY <1>14 DEF JoinStatus, MainGoes, outputVars, viewVars
<1>15. ASSUME StreamBreaks PROVE PercentsGrow'
  BY <1>15 DEF StreamBreaks, viewVars
<1>16. ASSUME ContainerStops PROVE PercentsGrow'
  BY <1>16 DEF ContainerStops, viewVars
<1>17. ASSUME Cancel PROVE PercentsGrow'
  BY <1>17 DEF Cancel
<1>18. CASE UNCHANGED vars
  BY <1>18 DEF vars, outputVars, viewVars
<1>19. QED
  BY <1>1, <1>2, <1>3, <1>4, <1>5, <1>6, <1>7, <1>8, <1>9, <1>10, <1>11,
     <1>12, <1>13, <1>14, <1>15, <1>16, <1>17, <1>18 DEF Next, AttachStep,
     StatusStep, MainStep, Tick, LastRender, Done

\* What the output has reached.
LEMMA ReachedType == Types => Reached \in 1..8 /\ tracker.phase \in 1..8
  BY Indices DEF Types, Trackers, Reached

\* What is still to come is later.
LEMMA ToComeNext == IInv /\ [Next]_vars => ToCome'
<1> SUFFICES ASSUME IInv, [Next]_vars PROVE ToCome'
  OBVIOUS
<1> USE DashboardAssumption
      DEF IInv, Types, ToCome, Reached
<1>1. ASSUME TakeLine PROVE ToCome'
  <2>1. /\ attach = "reading" /\ attach' = "tracking" /\ 1 \in DOMAIN output /\ line' = output[1]
        /\ \A i \in DOMAIN output' : i + 1 \in DOMAIN output /\ output'[i] = output[i + 1] /\ i \in Nat
        /\ tracker'.phase = tracker.phase
    BY <1>1, LineTaken DEF TakeLine
  <2>2. Reached = tracker.phase /\ Reached' = IF IsPhase(line') THEN Index(line'.id) ELSE tracker.phase
    BY <2>1
  <2> HIDE DEF Reached
  <2>3. InOrder(output')
    <3>1. SUFFICES ASSUME NEW i \in DOMAIN output', NEW j \in DOMAIN output', i < j, IsPhase(output'[i])
                   PROVE  /\ IsPhase(output'[j]) => Index(output'[i].id) <= Index(output'[j].id)
                          /\ output'[j].kind = "engine" => Index(output'[i].id) <= Index("install")
      BY DEF InOrder
    <3>2. i + 1 < j + 1
      BY <2>1, <3>1
    <3>3. QED
      BY <2>1, <3>1, <3>2 DEF InOrder
  <2>4. ASSUME NEW i \in DOMAIN output'
        PROVE  /\ IsPhase(output'[i]) => Reached' <= Index(output'[i].id)
               /\ output'[i].kind = "engine" => Reached' <= Index("install")
    <3>1. 1 < i + 1
      BY <2>1, LineTaken, <1>1
    <3>2. QED
      BY <2>1, <2>2, <3>1 DEF InOrder
  <2>5. tracker'.phase <= Reached'
    BY <2>1, <2>2, ReachedType
  <2>6. line'.kind = "phase" => shown'.phase = line'.id
    BY <1>1, LineTaken
  <2>7. QED
    BY <2>3, <2>4, <2>5, <2>6
<1>2. ASSUME TrackLine PROVE ToCome'
  <2>1. tracker'.phase = Reached /\ attach = "tracking" /\ attach' # "tracking" /\ output' = output
    BY <1>2, LineTracked DEF TrackLine
  <2>2. Reached' = Reached
    BY <2>1
  <2> HIDE DEF Reached
  <2>3. QED
    BY <2>1, <2>2, ReachedType
<1>3. ASSUME LogLine PROVE ToCome'
  BY <1>3 DEF LogLine, viewVars
<1>4. ASSUME StreamEnds PROVE ToCome'
  BY <1>4 DEF StreamEnds, viewVars
<1>5. ASSUME Sample PROVE ToCome'
  BY <1>5 DEF Sample, outputVars, viewVars
<1>6. ASSUME Tick, sampled, CopyState("status") PROVE ToCome'
  BY <1>6 DEF Tick, CopyState, outputVars
<1>7. ASSUME Tick, Draw("status") PROVE ToCome'
  BY <1>7 DEF Tick, Draw, outputVars
<1>8. ASSUME Tick, CountLines("status") PROVE ToCome'
  BY <1>8 DEF Tick, CountLines, outputVars
<1>9. ASSUME WaitContainer PROVE ToCome'
  BY <1>9 DEF WaitContainer, MainGoes, outputVars, viewVars
<1>10. ASSUME JoinOutput PROVE ToCome'
  BY <1>10 DEF JoinOutput, CopyState, MainGoes, outputVars
<1>11. ASSUME LastRender, Draw("main") PROVE ToCome'
  BY <1>11 DEF LastRender, Draw, CountLines, MainGoes, outputVars
<1>12. ASSUME LastRender, CountLines("main") PROVE ToCome'
  BY <1>12 DEF LastRender, Draw, CountLines, MainGoes, outputVars
<1>13. ASSUME Finish PROVE ToCome'
  BY <1>13 DEF Finish, MainGoes, outputVars, viewVars
<1>14. ASSUME JoinStatus PROVE ToCome'
  BY <1>14 DEF JoinStatus, MainGoes, outputVars, viewVars
<1>15. ASSUME StreamBreaks PROVE ToCome'
  BY <1>15 DEF StreamBreaks, viewVars
<1>16. ASSUME ContainerStops PROVE ToCome'
  <2>1. PICK n \in 0..Len(output) : output' = SubSeq(output, 1, n)
    BY <1>16 DEF ContainerStops
  <2>2. \A i \in DOMAIN output' : i \in DOMAIN output /\ output'[i] = output[i]
    BY <2>1
  <2>3. UNCHANGED <<attach, line, tracker, shown>>
    BY <1>16 DEF ContainerStops
  <2>4. Reached' = Reached
    BY <2>3
  <2> HIDE DEF Reached
  <2>5. InOrder(output')
    BY <2>2 DEF InOrder
  <2>6. QED
    BY <2>2, <2>3, <2>4, <2>5
<1>17. ASSUME Cancel PROVE ToCome'
  BY <1>17 DEF Cancel
<1>18. CASE UNCHANGED vars
  BY <1>18 DEF vars, outputVars, viewVars
<1>19. QED
  BY <1>1, <1>2, <1>3, <1>4, <1>5, <1>6, <1>7, <1>8, <1>9, <1>10, <1>11,
     <1>12, <1>13, <1>14, <1>15, <1>16, <1>17, <1>18 DEF Next, AttachStep,
     StatusStep, MainStep, Tick, LastRender, Done

\* No percentage is beyond a phase that is copied with it.
LEMMA WithinNext == IInv /\ [Next]_vars => FramesWithin'
<1> SUFFICES ASSUME IInv, [Next]_vars PROVE FramesWithin'
  OBVIOUS
<1> USE DashboardAssumption
      DEF IInv, Types, ToCome, FramesWithin, Within, Reached, Renderers
<1>1. ASSUME TakeLine PROVE FramesWithin'
  <2>1. /\ attach = "reading" /\ attach' = "tracking" /\ line' = output[1] /\ 1 \in DOMAIN output
        /\ tracker'.phase = tracker.phase /\ tracker'.percent = tracker.percent
        /\ shown'.percent = shown.percent
        /\ shown'.phase = IF line'.kind = "phase" THEN line'.id ELSE shown.phase
        /\ UNCHANGED <<screen, frame>>
    BY <1>1, LineTaken DEF TakeLine, viewVars
  <2>2. Reached = tracker.phase /\ Reached <= Reached'
    BY <2>1, ReachedType
  <2>3. Reached' \in 1..8 /\ Reached \in 1..8
    <3>1. tracker.phase \in 1..8 /\ tracker'.phase \in 1..8
      BY <2>1, ReachedType
    <3>2. Reached' = IF IsPhase(line') THEN Index(line'.id) ELSE tracker'.phase
      BY <2>1
    <3> HIDE DEF Reached
    <3>3. QED
      BY <2>2, <3>1, <3>2, Indices
  <2>4. \A i \in 1..8 : i <= Reached => Base(tracker'.engine, i + 1) = Base(tracker.engine, i + 1)
    <3>1. CASE tracker'.engine = tracker.engine
      BY <3>1
    <3>2. CASE tracker'.engine # tracker.engine
      <4>1. Reached <= 2
        BY <2>1, <3>2, <1>1, LineTaken, Indices
      <4>2. tracker'.engine \in {"eas", "gradle"} /\ tracker.engine \in {"eas", "gradle"}
        BY <1>1, LineTaken DEF Trackers
      <4>3. ASSUME NEW i \in 1..8, i <= Reached PROVE i + 1 \in 1..3
        BY <2>3, <4>1, <4>3
      <4>4. QED
        BY <4>2, <4>3, Bases
    <3>3. QED
      BY <3>1, <3>2
  <2>5. tracker.phase \in 1..8 /\ tracker'.engine \in {"eas", "gradle"}
    BY <1>1, LineTaken, ReachedType DEF Trackers
  <2>6. line'.kind = "phase" \/ (~IsPhase(line') /\ Reached' = Reached)
    BY <2>1 DEF IsPhase
  <2>7. line'.kind = "phase" => \A i \in 1..8 : line'.id = PhaseOrder[i] => i = Reached'
    <3>1. SUFFICES ASSUME line'.kind = "phase", NEW i \in 1..8, line'.id = PhaseOrder[i]
                   PROVE  i = Reached'
      OBVIOUS
    <3>2. PhaseIndexOf(line'.id) = {i} /\ Index(line'.id) = i
      BY <3>1, Indices
    <3>3. QED
      BY <2>1, <3>1, <3>2 DEF IsPhase
  <2>8. shown'.percent <= Base(tracker'.engine, Reached' + 1) /\ tracker.percent = shown.percent
    <3>1. tracker.percent = shown.percent
      BY DEF PercentsGrow
    <3>2. tracker.percent <= Base(tracker'.engine, tracker.phase + 1)
      BY <2>2, <2>3, <2>4, <2>5
    <3>3. Types
      OBVIOUS
    <3> HIDE DEF IInv, Types, ToCome, FramesWithin, Reached
    <3>4. /\ Base(tracker'.engine, tracker.phase + 1) \in Int /\ Base(tracker'.engine, Reached' + 1) \in Int
          /\ Base(tracker'.engine, tracker.phase + 1) <= Base(tracker'.engine, Reached' + 1)
      BY <2>2, <2>3, <2>5, EndsGrow
    <3>5. QED
      BY <2>1, <3>1, <3>2, <3>3, <3>4, PercentTypes
  <2>9. ASSUME NEW ph, NEW pc,
               \A i \in 1..8 : ph = PhaseOrder[i] => i <= Reached /\ pc <= Base(tracker.engine, i + 1)
        PROVE  \A i \in 1..8 : ph = PhaseOrder[i] => i <= Reached' /\ pc <= Base(tracker'.engine, i + 1)
    <3> HIDE DEF IInv, Types, ToCome, FramesWithin, Reached
    <3>1. QED
      BY <2>2, <2>3, <2>4, <2>9
  <2>10. Within(screen)' /\ \A r \in Renderers : Within(frame[r])'
    <3> HIDE DEF Reached
    <3>1. \A i \in 1..8 : screen.phase = PhaseOrder[i] =>
             i <= Reached' /\ screen.percent <= Base(tracker'.engine, i + 1)
      BY <2>9, Indices
    <3>2. ASSUME NEW r \in Renderers
          PROVE  \A i \in 1..8 : frame[r].phase = PhaseOrder[i] =>
                   i <= Reached' /\ frame[r].percent <= Base(tracker'.engine, i + 1)
      BY <2>9, Indices
    <3>3. QED
      BY <2>1, <3>1, <3>2, Indices
  <2>11. Within(shown)'
    <3> HIDE DEF Reached
    <3>1. CASE line'.kind = "phase"
      <4>1. \A i \in 1..8 : shown'.phase = PhaseOrder[i] => i = Reached'
        BY <2>1, <2>7, <3>1
      <4>2. QED
        BY <2>3, <2>8, <4>1, Indices
    <3>2. CASE line'.kind # "phase"
      <4>1. \A i \in 1..8 : shown.phase = PhaseOrder[i] =>
               i <= Reached' /\ shown.percent <= Base(tracker'.engine, i + 1)
        BY <2>9, Indices
      <4>2. QED
        BY <2>1, <3>2, <4>1, Indices
    <3>3. QED
      BY <3>1, <3>2
  <2>12. tracker'.percent <= Base(tracker'.engine, tracker'.phase + 1)
    BY <2>1, <2>2, <2>3, <2>4, <2>5
  <2>13. (attach' = "tracking" /\ line'.kind = "phase") \/
         (\A i \in 1..8 : shown'.phase = PhaseOrder[i] => i = tracker'.phase)
    BY <2>1, Indices
  <2>14. QED
    BY <2>10, <2>11, <2>12, <2>13, Indices
<1>2. ASSUME TrackLine PROVE FramesWithin'
  <2>1. /\ line \in Printable /\ attach = "tracking" /\ attach' # "tracking"
        /\ tracker'.engine = tracker.engine
        /\ tracker'.phase = Reached /\ tracker.phase <= Reached
        /\ tracker'.percent <= tracker.percent \/
             tracker'.percent <= Base(tracker'.engine, tracker'.phase + 1)
        /\ shown'.percent = tracker'.percent /\ shown'.phase = shown.phase
        /\ UNCHANGED <<screen, frame>>
    BY <1>2, LineTracked DEF TrackLine, viewVars
  <2>2. Reached' = Reached /\ Reached \in 1..8 /\ tracker.phase \in 1..8
    BY <2>1, ReachedType
  <2>3. \A i \in 1..8 : shown.phase = PhaseOrder[i] => i = Reached
    <3>1. CASE line.kind = "phase"
      <4>1. SUFFICES ASSUME NEW i \in 1..8, line.id = PhaseOrder[i] PROVE i = Reached
        BY <2>1, <3>1
      <4>2. PhaseIndexOf(line.id) = {i} /\ Index(line.id) = i
        BY <4>1, Indices
      <4>3. QED
        BY <2>1, <3>1, <4>2 DEF IsPhase
    <3>2. CASE line.kind # "phase"
      BY <2>1, <3>2, Indices DEF IsPhase
    <3>3. QED
      BY <3>1, <3>2
  <2> HIDE DEF Reached
  <2>4. tracker'.percent <= Base(tracker.engine, Reached + 1)
    <3>1. tracker.engine \in {"eas", "gradle"}
      BY DEF Trackers
    <3>2. Types /\ tracker.percent <= Base(tracker.engine, tracker.phase + 1)
      OBVIOUS
    <3>3. tracker'.percent \in 0..100
      BY <1>2, LineTracked DEF Trackers
    <3> HIDE DEF IInv, Types, ToCome, FramesWithin, Reached
    <3>4. /\ Base(tracker.engine, tracker.phase + 1) \in Int /\ Base(tracker.engine, Reached + 1) \in Int
          /\ Base(tracker.engine, tracker.phase + 1) <= Base(tracker.engine, Reached + 1)
      BY <2>1, <2>2, <3>1, EndsGrow
    <3>5. QED
      BY <2>1, <3>2, <3>3, <3>4, PercentTypes
  <2>5. Within(screen)' /\ \A r \in Renderers : Within(frame[r])'
    BY <2>1, <2>2
  <2>6. Within(shown)'
    BY <2>1, <2>2, <2>3, <2>4, Indices
  <2>7. QED
    BY <2>1, <2>2, <2>3, <2>4, <2>5, <2>6, Indices
<1>3. ASSUME LogLine PROVE FramesWithin'
  BY <1>3, LineLogged DEF LogLine, viewVars
<1>4. ASSUME StreamEnds PROVE FramesWithin'
  BY <1>4 DEF StreamEnds, viewVars
<1>5. ASSUME Sample PROVE FramesWithin'
  BY <1>5 DEF Sample, outputVars, viewVars
<1>6. ASSUME Tick, sampled, CopyState("status") PROVE FramesWithin'
  BY <1>6 DEF Tick, CopyState, outputVars
<1>7. ASSUME Tick, Draw("status") PROVE FramesWithin'
  BY <1>7 DEF Tick, Draw, outputVars
<1>8. ASSUME Tick, CountLines("status") PROVE FramesWithin'
  BY <1>8 DEF Tick, CountLines, outputVars
<1>9. ASSUME WaitContainer PROVE FramesWithin'
  BY <1>9 DEF WaitContainer, MainGoes, outputVars, viewVars
<1>10. ASSUME JoinOutput PROVE FramesWithin'
  BY <1>10 DEF JoinOutput, CopyState, MainGoes, outputVars
<1>11. ASSUME LastRender, Draw("main") PROVE FramesWithin'
  BY <1>11 DEF LastRender, Draw, CountLines, MainGoes, outputVars
<1>12. ASSUME LastRender, CountLines("main") PROVE FramesWithin'
  BY <1>12 DEF LastRender, Draw, CountLines, MainGoes, outputVars
<1>13. ASSUME Finish PROVE FramesWithin'
  BY <1>13 DEF Finish, MainGoes, outputVars, viewVars
<1>14. ASSUME JoinStatus PROVE FramesWithin'
  BY <1>14 DEF JoinStatus, MainGoes, outputVars, viewVars
<1>15. ASSUME StreamBreaks PROVE FramesWithin'
  BY <1>15 DEF StreamBreaks, viewVars
<1>16. ASSUME ContainerStops PROVE FramesWithin'
  BY <1>16 DEF ContainerStops, viewVars
<1>17. ASSUME Cancel PROVE FramesWithin'
  BY <1>17 DEF Cancel
<1>18. CASE UNCHANGED vars
  BY <1>18 DEF vars, outputVars, viewVars
<1>19. QED
  BY <1>1, <1>2, <1>3, <1>4, <1>5, <1>6, <1>7, <1>8, <1>9, <1>10, <1>11,
     <1>12, <1>13, <1>14, <1>15, <1>16, <1>17, <1>18 DEF Next, AttachStep,
     StatusStep, MainStep, Tick, LastRender, Done

-----------------------------------------------------------------------------
(* The theorems.                                                           *)

LEMMA Invariance == Spec => []IInv
<1>1. IInv /\ [Next]_vars => IInv'
  BY TypesNext, MainNext, OneRendersNext, HeightNext, LeftOverNext, LastCopyNext, EndNext, PercentsNext,
     ToComeNext, WithinNext DEF IInv
<1>2. QED
  BY InitIInv, <1>1, PTL DEF Spec

\* onChunk, the renderers and main keep the types of their state, and the two
\* buffers their bounds, whatever the container prints.
THEOREM DashboardTypeCorrect == Spec => []DashboardTypeOK
<1>1. IInv => DashboardTypeOK
  <2> SUFFICES ASSUME IInv PROVE DashboardTypeOK
    OBVIOUS
  <2>1. Types
    BY DEF IInv
  <2>2. tracker.phase \in DOMAIN PhaseOrder /\ tracker.percent \in 0..100
    BY <2>1, Indices DEF Types, Trackers
  <2>3. QED
    BY <2>1, <2>2 DEF Types, DashboardTypeOK
<1>2. QED
  BY Invariance, <1>1, PTL

\* A frame copied between the phase and the percentage of a line, or between two
\* engines, still shows no more than the end of the phase it names.
THEOREM FramesAreConsistent == Spec => []FrameIsConsistent
<1>1. IInv => FrameIsConsistent
  BY DEF IInv, FramesWithin, Within, FrameIsConsistent
<1>2. QED
  BY Invariance, <1>1, PTL

\* The frame that stays above the summary is the final state.
THEOREM LastFramesAreFinal == Spec => []LastFrameIsFinal
<1>1. IInv => LastFrameIsFinal
  BY DEF IInv, LastCopy, MainIsAt, LastFrameIsFinal
<1>2. QED
  BY Invariance, <1>1, PTL

\* The renderers erase what they printed, unless they overlap or Ctrl-C prints.
THEOREM NothingIsLeftOver == Spec => []NothingLeftOver
<1>1. IInv => NothingLeftOver
  BY DEF IInv
<1>2. QED
  BY Invariance, <1>1, PTL

\* The log of a failure is the end of what was read, and at the summary every
\* line of the output has been read, unless its stream broke.
THEOREM FailuresShowTheEnd == Spec => []FailureShowsTheEnd
<1>1. IInv => FailureShowsTheEnd
  BY DEF IInv, MainIsAt, EndKept, FailureShowsTheEnd
<1>2. QED
  BY Invariance, <1>1, PTL

\* No render goes back from what an earlier one has shown.
THEOREM BarsNeverGoBack == Spec => BarNeverGoesBack
<1>1. IInv /\ [Next]_vars => [screen'.percent >= screen.percent \/ raced']_vars
  <2> SUFFICES ASSUME IInv, [Next]_vars
               PROVE  screen'.percent >= screen.percent \/ raced' \/ UNCHANGED vars
    OBVIOUS
  <2> SUFFICES ASSUME screen' # screen, ~raced'
               PROVE  screen'.percent >= screen.percent
    <3>1. screen.percent \in Int
      BY PercentTypes DEF IInv
    <3>2. QED
      BY <3>1
  <2>1. PICK r \in Renderers : Draw(r)
    BY DEF Next, AttachStep, StatusStep, MainStep, vars, outputVars, viewVars, Renderers, TakeLine, TrackLine,
           LogLine, StreamEnds, Sample, Tick, CopyState, CountLines, WaitContainer, MainGoes, JoinOutput,
           LastRender, Finish, JoinStatus, StreamBreaks, ContainerStops, Cancel, Done
  <2>2. PercentsGrow /\ Types
    BY DEF IInv
  <2>3. screen.percent \in Int /\ frame[r].percent \in Int
    BY <2>2, PercentTypes
  <2>4. QED
    BY <2>1, <2>2, <2>3 DEF PercentsGrow, Draw
<1>2. QED
  BY Invariance, <1>1, PTL DEF Spec, BarNeverGoesBack

=============================================================================
