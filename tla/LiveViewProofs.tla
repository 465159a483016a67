---------------------------- MODULE LiveViewProofs ----------------------------
(***************************************************************************)
(* Proofs about LiveView and LogPane, for any set of viewers, any length of *)
(* the output and any number of breaks and restarts.                       *)
(***************************************************************************)
EXTENDS LogPane, FiniteSetTheorems, TLAPS

-----------------------------------------------------------------------------
(* The inductive invariant: what was published is a history of the build,  *)
(* in which every viewer stands somewhere.                                 *)

\* The state of the build when message i of p was sent; before the first one.
Stamp(p, i) ==
    IF i = 0
    THEN [type |-> "status", status |-> "queued", chunk |-> 0, phase |-> 0]
    ELSE p[i]

Before(a, b) == a = b \/ Rank(a) < Rank(b)

\* Message m changes what its type says, and nothing else.
Follows(m, s, c, n) ==
    /\ IF m.type = "status" THEN Rank(s) < Rank(m.status) ELSE m.status = s
    /\ m.chunk = IF m.type = "log" THEN c + 1 ELSE c
    /\ m.phase = IF m.type = "phase" THEN n + 1 ELSE n

\* p is the history of a build that has status s, c chunks and n phases now.
History(p, s, c, n) ==
    /\ Stamp(p, Len(p)).status = s
    /\ Stamp(p, Len(p)).chunk = c
    /\ Stamp(p, Len(p)).phase = n
    /\ \A i \in 1..Len(p) :
        Follows(p[i], Stamp(p, i - 1).status, Stamp(p, i - 1).chunk, Stamp(p, i - 1).phase)
    /\ \A i \in 0..Len(p) :
        /\ Before(Stamp(p, i).status, s)
        /\ Stamp(p, i).chunk <= c
        /\ Stamp(p, i).phase <= n

\* launchBuild writes the status without reading the row: these are the rows
\* it finds.
LaunchInv ==
    /\ at = "creating" => status = "starting"
    /\ at \in {"running", "measuring"} => status = "running"

\* ps is a beginning of qs, with all but the last phase over.
Beginning(ps, qs) ==
    /\ Len(ps) <= Len(qs)
    /\ \A i \in 1..Len(ps) :
        /\ ps[i].phase = i
        /\ ps[i].ended => qs[i].ended
        /\ i < Len(ps) => ps[i].ended

Increasing(s) == \A i, j \in 1..Len(s) : i < j => s[i] < s[j]

\* s is the log of a viewer whose snapshot had the first f of k chunks, and
\* that has had c of them since.
LogIs(s, f, k, c) ==
    /\ Len(s) = f + (c - k)
    /\ \A i \in 1..Len(s) : s[i] = IF i <= f THEN i ELSE (i - f) + k

ServerInv ==
    /\ History(published, status, chunks, Len(phases))
    /\ LaunchInv
    /\ Beginning(phases, phases)

\* What the viewer was sent fits the message it stands at.
JoinedInv(v) ==
    /\ snapshot[v].status = Stamp(published, seen[v]).status
    /\ snapshot[v].chunks = Stamp(published, seen[v]).chunk
    /\ Len(snapshot[v].phases) = Stamp(published, seen[v]).phase
    /\ Beginning(snapshot[v].phases, phases)
    /\ snapshot[v].file <= snapshot[v].chunks
    /\ Before(view[v].status, snapshot[v].status)

\* What the viewer shows fits the message it stands at.
LiveInv(v) ==
    /\ view[v].status = Stamp(published, seen[v]).status
    /\ Len(view[v].phases) = Stamp(published, seen[v]).phase
    /\ snapshot[v].file <= snapshot[v].chunks
    /\ snapshot[v].chunks <= Stamp(published, seen[v]).chunk
    /\ LogIs(view[v].log, snapshot[v].file, snapshot[v].chunks,
             Stamp(published, seen[v]).chunk)

\* On no connection does it show what the build has not been.
ShownInv(v) ==
    /\ Before(view[v].status, status)
    /\ Increasing(view[v].log)
    /\ Beginning(view[v].phases, phases)
    /\ link[v] = "gaveUp" => view[v].status \in Terminal

ViewInv(v) ==
    /\ ShownInv(v)
    /\ link[v] = "joined" => JoinedInv(v)
    /\ link[v] = "live" => LiveInv(v)

IInv == TypeOK /\ ServerInv /\ \A v \in Viewers : ViewInv(v)

-----------------------------------------------------------------------------
(* Sequences and statuses.                                                 *)

LEMMA RankInNat == \A s \in {"none"} \cup Statuses : Rank(s) \in 0..4
BY DEF Rank, Statuses, Terminal

LEMMA TerminalIsLast ==
  \A s \in {"none"} \cup Statuses : Rank(s) = 4 <=> s \in Terminal
BY DEF Rank, Statuses, Terminal

LEMMA BeforeTransitive ==
  ASSUME NEW a \in {"none"} \cup Statuses, NEW b \in {"none"} \cup Statuses,
         NEW c \in {"none"} \cup Statuses, Before(a, b), Before(b, c)
  PROVE  Before(a, c)
BY RankInNat DEF Before

\* A verdict is followed by nothing.
LEMMA VerdictStays ==
  ASSUME NEW a \in {"none"} \cup Statuses, NEW b \in Statuses,
         Before(a, b), a \in Terminal
  PROVE  a = b
<1>1. Rank(a) = 4
  BY TerminalIsLast
<1>2. Rank(b) \in 0..4
  BY RankInNat
<1>3. ~(Rank(a) < Rank(b))
  BY <1>1, <1>2
<1> QED BY <1>3 DEF Before

LEMMA SeqElement ==
  ASSUME NEW S, NEW s \in Seq(S), NEW i \in 1..Len(s) PROVE s[i] \in S
OBVIOUS

LEMMA EndOpenFacts ==
  ASSUME NEW ps \in Phases
  PROVE  /\ EndOpenPhases(ps) \in Phases
         /\ Len(EndOpenPhases(ps)) = Len(ps)
         /\ \A i \in 1..Len(ps) : /\ EndOpenPhases(ps)[i].phase = ps[i].phase
                                  /\ EndOpenPhases(ps)[i].ended
<1>1. DOMAIN ps = 1..Len(ps) /\ Len(ps) \in Nat
  BY DEF Phases
<1>2. \A i \in 1..Len(ps) : ps[i] \in [phase : Nat, ended : BOOLEAN]
  BY SeqElement, Zenon DEF Phases
<1>3. \A i \in 1..Len(ps) :
        /\ EndOpenPhases(ps)[i] = [ps[i] EXCEPT !.ended = TRUE]
        /\ EndOpenPhases(ps)[i] \in [phase : Nat, ended : BOOLEAN]
        /\ EndOpenPhases(ps)[i].phase = ps[i].phase
        /\ EndOpenPhases(ps)[i].ended
  <2> SUFFICES ASSUME NEW i \in 1..Len(ps), NEW r \in [phase : Nat, ended : BOOLEAN],
                      r = ps[i]
               PROVE  /\ EndOpenPhases(ps)[i] = [r EXCEPT !.ended = TRUE]
                      /\ [r EXCEPT !.ended = TRUE] \in [phase : Nat, ended : BOOLEAN]
                      /\ [r EXCEPT !.ended = TRUE].phase = r.phase
                      /\ [r EXCEPT !.ended = TRUE].ended
    BY <1>2
  <2>1. EndOpenPhases(ps)[i] = [r EXCEPT !.ended = TRUE]
    BY <1>1 DEF EndOpenPhases
  <2> QED BY <2>1
<1>4. EndOpenPhases(ps) \in [1..Len(ps) -> [phase : Nat, ended : BOOLEAN]]
  BY <1>1, <1>3 DEF EndOpenPhases
<1>5. EndOpenPhases(ps) \in Phases
  BY <1>1, <1>4 DEF Phases
<1>6. Len(EndOpenPhases(ps)) = Len(ps)
  BY <1>1, <1>4
<1> QED BY <1>3, <1>5, <1>6

LEMMA NextPhaseFacts ==
  ASSUME NEW ps \in Phases, NEW n \in Nat
  PROVE  /\ NextPhase(ps, n) \in Phases
         /\ Len(NextPhase(ps, n)) = Len(ps) + 1
         /\ \A i \in 1..Len(ps) : /\ NextPhase(ps, n)[i].phase = ps[i].phase
                                  /\ NextPhase(ps, n)[i].ended
         /\ NextPhase(ps, n)[Len(ps) + 1] = [phase |-> n, ended |-> FALSE]
<1> DEFINE es == EndOpenPhases(ps)
<1>1. /\ es \in Seq([phase : Nat, ended : BOOLEAN])
      /\ Len(es) = Len(ps) /\ Len(ps) \in Nat
      /\ \A i \in 1..Len(ps) : es[i].phase = ps[i].phase /\ es[i].ended
  BY EndOpenFacts DEF Phases
<1>2. NextPhase(ps, n) = Append(es, [phase |-> n, ended |-> FALSE])
  BY DEF NextPhase
<1> HIDE DEF es
<1>3. [phase |-> n, ended |-> FALSE] \in [phase : Nat, ended : BOOLEAN]
  OBVIOUS
<1> QED BY <1>1, <1>2, <1>3 DEF Phases

\* What a step does to the table of phases: it grows, and what is over stays.
Grows(ps, qs) ==
    /\ Len(ps) <= Len(qs)
    /\ \A i \in 1..Len(ps) : ps[i].ended => qs[i].ended

LEMMA BeginningGrows ==
  ASSUME NEW ps \in Phases, NEW qs \in Phases, NEW rs \in Phases,
         Beginning(ps, qs), Grows(qs, rs)
  PROVE  Beginning(ps, rs)
<1>1. Len(ps) \in Nat /\ Len(qs) \in Nat /\ Len(rs) \in Nat
  BY DEF Phases
<1> QED BY <1>1 DEF Beginning, Grows

LEMMA GrowsTransitive ==
  ASSUME NEW ps \in Phases, NEW qs \in Phases, NEW rs \in Phases,
         Grows(ps, qs), Grows(qs, rs)
  PROVE  Grows(ps, rs)
<1>1. Len(ps) \in Nat /\ Len(qs) \in Nat /\ Len(rs) \in Nat
  BY DEF Phases
<1> QED BY <1>1 DEF Grows

LEMMA EndOpenGrows ==
  ASSUME NEW ps \in Phases, Beginning(ps, ps)
  PROVE  Beginning(EndOpenPhases(ps), EndOpenPhases(ps)) /\ Grows(ps, EndOpenPhases(ps))
<1>1. Len(ps) \in Nat
  BY DEF Phases
<1> QED BY <1>1, EndOpenFacts DEF Beginning, Grows

LEMMA NextPhaseGrows ==
  ASSUME NEW ps \in Phases, Beginning(ps, ps)
  PROVE  /\ Beginning(NextPhase(ps, Len(ps) + 1), NextPhase(ps, Len(ps) + 1))
         /\ Grows(ps, NextPhase(ps, Len(ps) + 1))
<1>1. Len(ps) \in Nat /\ Len(ps) + 1 \in Nat
  BY DEF Phases
<1>2. \A i \in 1..(Len(ps) + 1) : i \in 1..Len(ps) \/ i = Len(ps) + 1
  BY <1>1
<1> DEFINE qs == NextPhase(ps, Len(ps) + 1)
<1>3. /\ Len(qs) = Len(ps) + 1
      /\ \A i \in 1..Len(ps) : qs[i].phase = ps[i].phase /\ qs[i].ended
      /\ qs[Len(ps) + 1] = [phase |-> Len(ps) + 1, ended |-> FALSE]
  BY <1>1, NextPhaseFacts
<1> HIDE DEF qs
<1>4. \A i \in 1..Len(qs) : qs[i].phase = i
  BY <1>1, <1>2, <1>3 DEF Beginning
<1>5. \A i \in 1..Len(qs) : i < Len(qs) => qs[i].ended
  BY <1>1, <1>2, <1>3
<1>6. Beginning(qs, qs)
  BY <1>1, <1>3, <1>4, <1>5 DEF Beginning
<1>7. Grows(ps, qs)
  BY <1>1, <1>3 DEF Grows
<1> QED BY <1>6, <1>7 DEF qs

-----------------------------------------------------------------------------
(* The history grows at its end.                                           *)

\* q continues p.
Extends(p, q) ==
    /\ Len(p) <= Len(q)
    /\ \A i \in 0..Len(p) : Stamp(q, i) = Stamp(p, i)

LEMMA ExtendsItself == ASSUME NEW p \in Seq(Messages) PROVE Extends(p, p)
BY DEF Extends

LEMMA ExtendsTransitive ==
  ASSUME NEW p \in Seq(Messages), NEW q \in Seq(Messages), NEW r \in Seq(Messages),
         Extends(p, q), Extends(q, r)
  PROVE  Extends(p, r)
BY DEF Extends

LEMMA StampType ==
  ASSUME NEW p \in Seq(Messages), NEW i \in 0..Len(p)
  PROVE  Stamp(p, i) \in Messages
<1>1. CASE i = 0
  BY <1>1 DEF Stamp, Messages, Statuses
<1>2. CASE i # 0
  BY <1>2 DEF Stamp
<1> QED BY <1>1, <1>2

LEMMA FollowsIsOnward ==
  ASSUME NEW m \in Messages, NEW s \in Statuses, NEW c \in Nat, NEW n \in Nat,
         Follows(m, s, c, n)
  PROVE  Before(s, m.status) /\ c <= m.chunk /\ n <= m.phase
<1>1. m.chunk \in Nat /\ m.phase \in Nat
  BY DEF Messages
<1>2. Before(s, m.status)
  BY DEF Follows, Before
<1>3. c <= m.chunk /\ n <= m.phase
  BY <1>1 DEF Follows
<1> QED BY <1>2, <1>3

LEMMA HistoryContinues ==
  ASSUME NEW p \in Seq(Messages), NEW s \in Statuses, NEW c \in Nat, NEW n \in Nat,
         NEW m \in Messages, History(p, s, c, n), Follows(m, s, c, n)
  PROVE  /\ History(Append(p, m), m.status, m.chunk, m.phase)
         /\ Extends(p, Append(p, m))
         /\ Append(p, m) \in Seq(Messages)
<1> DEFINE q == Append(p, m)
<1>1. /\ q \in Seq(Messages) /\ Len(p) \in Nat /\ Len(q) = Len(p) + 1
      /\ \A i \in 1..Len(p) : q[i] = p[i]
      /\ q[Len(p) + 1] = m
  OBVIOUS
<1>2. m.status \in Statuses /\ m.chunk \in Nat /\ m.phase \in Nat
  BY DEF Messages
<1> HIDE DEF q
<1>3. \A i \in 0..Len(p) : Stamp(q, i) = Stamp(p, i)
  BY <1>1 DEF Stamp
<1>4. Stamp(q, Len(q)) = m
  BY <1>1 DEF Stamp
<1>5. Extends(p, q)
  BY <1>1, <1>3 DEF Extends
<1>6. \A i \in 1..Len(q) :
        Follows(q[i], Stamp(q, i - 1).status, Stamp(q, i - 1).chunk, Stamp(q, i - 1).phase)
  <2> SUFFICES ASSUME NEW i \in 1..Len(q)
               PROVE  Follows(q[i], Stamp(q, i - 1).status, Stamp(q, i - 1).chunk,
                              Stamp(q, i - 1).phase)
    OBVIOUS
  <2>1. CASE i \in 1..Len(p)
    <3>1. i - 1 \in 0..Len(p) /\ q[i] = p[i]
      BY <1>1, <2>1
    <3>2. Stamp(q, i - 1) = Stamp(p, i - 1)
      BY <1>3, <3>1
    <3> QED BY <2>1, <3>1, <3>2 DEF History
  <2>2. CASE i = Len(p) + 1
    <3>1. i - 1 = Len(p) /\ Len(p) \in 0..Len(p) /\ q[i] = m
      BY <1>1, <2>2
    <3>2. Stamp(q, i - 1) = Stamp(p, Len(p))
      BY <1>3, <3>1
    <3>3. /\ Stamp(p, Len(p)).status = s /\ Stamp(p, Len(p)).chunk = c
          /\ Stamp(p, Len(p)).phase = n
      BY DEF History
    <3> QED BY <3>1, <3>2, <3>3
  <2> QED BY <1>1, <2>1, <2>2
<1>7. \A i \in 0..Len(q) :
        Before(Stamp(q, i).status, m.status) /\ Stamp(q, i).chunk <= m.chunk
          /\ Stamp(q, i).phase <= m.phase
  <2> SUFFICES ASSUME NEW i \in 0..Len(q)
               PROVE  Before(Stamp(q, i).status, m.status) /\ Stamp(q, i).chunk <= m.chunk
                        /\ Stamp(q, i).phase <= m.phase
    OBVIOUS
  <2>1. CASE i \in 0..Len(p)
    <3>1. Stamp(q, i) = Stamp(p, i) /\ Stamp(p, i) \in Messages
      BY <1>3, <2>1, StampType
    <3>2. /\ Stamp(p, i).status \in Statuses
          /\ Stamp(p, i).chunk \in Nat /\ Stamp(p, i).phase \in Nat
      BY <3>1 DEF Messages
    <3>3. /\ Before(Stamp(p, i).status, s)
          /\ Stamp(p, i).chunk <= c /\ Stamp(p, i).phase <= n
      BY <2>1 DEF History
    <3>4. Before(s, m.status) /\ c <= m.chunk /\ n <= m.phase
      BY FollowsIsOnward
    <3>5. Before(Stamp(p, i).status, m.status)
      BY <1>2, <3>2, <3>3, <3>4, BeforeTransitive
    <3>6. Stamp(p, i).chunk <= m.chunk /\ Stamp(p, i).phase <= m.phase
      BY <1>2, <3>2, <3>3, <3>4
    <3> QED BY <3>1, <3>5, <3>6
  <2>2. CASE i = Len(p) + 1
    <3>1. Stamp(q, i) = m
      BY <1>1, <1>4, <2>2
    <3> QED BY <1>2, <3>1 DEF Before
  <2> QED BY <1>1, <2>1, <2>2
<1>8. History(q, m.status, m.chunk, m.phase)
  BY <1>4, <1>6, <1>7 DEF History
<1> QED BY <1>1, <1>5, <1>8 DEF q

-----------------------------------------------------------------------------
(* Steps of the build.                                                     *)

\* The part of TypeOK that is about the orchestrator.
ServerTypeOK ==
    /\ status \in Statuses
    /\ phases \in Phases
    /\ chunks \in 0..MaxChunks /\ logFile \in 0..chunks
    /\ logStream \in {"none", "open", "ended", "closed"}
    /\ at \in {"queued", "creating", "uncreated", "running", "measuring",
               "over", "forgotten"}
    /\ cancelled \in BOOLEAN
    /\ doomed \in BOOLEAN
    /\ restarts \in Nat
    /\ published \in Seq(Messages)

\* What every step of the build keeps and what it may change of the rest.
Onward ==
    /\ ServerTypeOK'
    /\ ServerInv'
    /\ Extends(published, published')
    /\ Before(status, status')
    /\ Grows(phases, phases')

LEMMA ServerTypes ==
  ASSUME ServerTypeOK
  PROVE  /\ status \in Statuses /\ phases \in Phases
         /\ chunks \in Nat /\ chunks + 1 \in Nat
         /\ Len(phases) \in Nat /\ Len(phases) + 1 \in Nat
         /\ published \in Seq(Messages)
BY LiveViewAssumption DEF ServerTypeOK, Phases

LEMMA LinesEffect ==
  ASSUME ServerTypeOK, ServerInv, NEW begins \in BOOLEAN
  PROVE  /\ PhasesAfter(begins) \in Phases
         /\ Len(PhasesAfter(begins)) \in Nat
         /\ Beginning(PhasesAfter(begins), PhasesAfter(begins))
         /\ Grows(phases, PhasesAfter(begins))
<1>2. Beginning(phases, phases)
  BY DEF ServerInv
<1>3. CASE begins
  <2>1. PhasesAfter(begins) = NextPhase(phases, Len(phases) + 1)
    BY <1>3 DEF PhasesAfter
  <2>2. PhasesAfter(begins) \in Phases /\ Len(PhasesAfter(begins)) \in Nat
    BY <2>1, ServerTypes, NextPhaseFacts
  <2> QED BY <1>2, <2>1, <2>2, ServerTypes, NextPhaseGrows
<1>4. CASE ~begins
  <2>1. PhasesAfter(begins) = phases
    BY <1>4 DEF PhasesAfter
  <2>2. Grows(phases, phases)
    BY ServerTypes DEF Grows
  <2> QED BY <1>2, <2>1, <2>2, ServerTypes
<1> QED BY <1>3, <1>4

LEMMA AppendOne ==
  ASSUME NEW p \in Seq(Messages), NEW m \in Messages
  PROVE  p \o <<m>> = Append(p, m)
OBVIOUS

LEMMA LogMessageFits ==
  ASSUME ServerTypeOK, NEW p \in Seq(Messages), History(p, status, chunks, Len(phases))
  PROVE  /\ p \o <<LogMessage(chunks + 1)>> \in Seq(Messages)
         /\ Extends(p, p \o <<LogMessage(chunks + 1)>>)
         /\ History(p \o <<LogMessage(chunks + 1)>>, status, chunks + 1, Len(phases))
<1> DEFINE m == LogMessage(chunks + 1)
<1>1. /\ m.type = "log" /\ m.status = status /\ m.chunk = chunks + 1
      /\ m.phase = Len(phases)
  BY DEF LogMessage
<1>2. m \in Messages
  BY ServerTypes DEF LogMessage, Messages
<1> HIDE DEF m
<1>3. Follows(m, status, chunks, Len(phases))
  BY <1>1 DEF Follows
<1>4. p \o <<m>> = Append(p, m)
  BY <1>2, AppendOne
<1>5. /\ History(Append(p, m), m.status, m.chunk, m.phase)
      /\ Extends(p, Append(p, m)) /\ Append(p, m) \in Seq(Messages)
  BY <1>2, <1>3, ServerTypes, HistoryContinues
<1> QED BY <1>1, <1>4, <1>5 DEF m

LEMMA PhaseMessagesFit ==
  ASSUME ServerTypeOK, NEW begins \in BOOLEAN, NEW c \in Nat,
         NEW p \in Seq(Messages), History(p, status, c, Len(phases))
  PROVE  /\ p \o PhaseMessages(begins, c) \in Seq(Messages)
         /\ Extends(p, p \o PhaseMessages(begins, c))
         /\ History(p \o PhaseMessages(begins, c), status, c, Len(PhasesAfter(begins)))
<1>1. CASE begins
  <2> DEFINE m == [type |-> "phase", status |-> status, chunk |-> c, phase |-> Len(phases) + 1]
  <2>1. PhaseMessages(begins, c) = <<m>>
    BY <1>1 DEF PhaseMessages
  <2>2. m \in Messages
    BY ServerTypes DEF Messages
  <2>3. /\ m.type = "phase" /\ m.status = status /\ m.chunk = c
        /\ m.phase = Len(phases) + 1
    OBVIOUS
  <2> HIDE DEF m
  <2>4. Follows(m, status, c, Len(phases))
    BY <2>3 DEF Follows
  <2>5. /\ History(Append(p, m), m.status, m.chunk, m.phase)
        /\ Extends(p, Append(p, m)) /\ Append(p, m) \in Seq(Messages)
    BY <2>2, <2>4, ServerTypes, HistoryContinues
  <2>6. p \o PhaseMessages(begins, c) = Append(p, m)
    BY <2>1, <2>2, AppendOne
  <2>7. Len(PhasesAfter(begins)) = Len(phases) + 1
    BY <1>1, ServerTypes, NextPhaseFacts DEF PhasesAfter
  <2> QED BY <2>3, <2>5, <2>6, <2>7
<1>2. CASE ~begins
  <2>1. p \o PhaseMessages(begins, c) = p
    BY <1>2 DEF PhaseMessages
  <2>2. PhasesAfter(begins) = phases
    BY <1>2 DEF PhasesAfter
  <2> QED BY <2>1, <2>2, ExtendsItself
<1> QED BY <1>1, <1>2

\* A new status that is above the old one is published in order.
LEMMA BecomesFits ==
  ASSUME ServerTypeOK, ServerInv, NEW begins \in BOOLEAN,
         NEW s \in Statuses, BecomesAfter(begins, s),
         Rank(status) < Rank(s)
  PROVE  /\ status' = s /\ Before(status, s)
         /\ published' \in Seq(Messages)
         /\ Extends(published, published')
         /\ History(published', s, chunks, Len(PhasesAfter(begins)))
<1> DEFINE p == published \o PhaseMessages(begins, chunks)
           m == [type |-> "status", status |-> s, chunk |-> chunks,
                 phase |-> Len(PhasesAfter(begins))]
<1>1. /\ p \in Seq(Messages) /\ Extends(published, p)
      /\ History(p, status, chunks, Len(PhasesAfter(begins)))
  BY ServerTypes, PhaseMessagesFit DEF ServerInv
<1>2. m \in Messages
  BY ServerTypes, LinesEffect DEF Messages
<1>3. /\ m.type = "status" /\ m.status = s /\ m.chunk = chunks
      /\ m.phase = Len(PhasesAfter(begins))
  OBVIOUS
<1>4. status' = s /\ published' = p \o <<m>>
  BY DEF BecomesAfter
<1> HIDE DEF p, m
<1>5. Follows(m, status, chunks, Len(PhasesAfter(begins)))
  BY <1>3 DEF Follows
<1>6. p \o <<m>> = Append(p, m)
  BY <1>1, <1>2, AppendOne
<1>7. /\ History(Append(p, m), m.status, m.chunk, m.phase)
      /\ Extends(p, Append(p, m)) /\ Append(p, m) \in Seq(Messages)
  BY <1>1, <1>2, <1>5, ServerTypes, LinesEffect, HistoryContinues
<1>8. Extends(published, Append(p, m))
  BY <1>1, <1>7, ServerTypes, ExtendsTransitive
<1> QED BY <1>3, <1>4, <1>6, <1>7, <1>8 DEF Before

LEMMA NoLines ==
  PhasesAfter(FALSE) = phases
BY DEF PhasesAfter

LEMMA BecomesFitsAlone ==
  ASSUME ServerTypeOK, ServerInv, NEW s \in Statuses, Becomes(s), Rank(status) < Rank(s)
  PROVE  /\ status' = s /\ Before(status, s)
         /\ published' \in Seq(Messages)
         /\ Extends(published, published')
         /\ History(published', s, chunks, Len(phases))
<1>1. FALSE \in BOOLEAN
  OBVIOUS
<1>2. BecomesAfter(FALSE, s)
  BY DEF Becomes
<1> QED BY <1>1, <1>2, NoLines, BecomesFits

\* A step that publishes nothing and leaves the row alone.
LEMMA QuietStep ==
  ASSUME ServerTypeOK, ServerInv, ServerTypeOK', LaunchInv',
         status' = status, phases' = phases, published' = published,
         chunks' = chunks
  PROVE  Onward
<1>1. ServerInv'
  BY DEF ServerInv
<1>2. Extends(published, published')
  BY ServerTypes, ExtendsItself
<1>3. Before(status, status') /\ Grows(phases, phases')
  BY ServerTypes DEF Before, Grows
<1> QED BY <1>1, <1>2, <1>3 DEF Onward

\* A step that gives the row another status, and no phases.
LEMMA StatusStep ==
  ASSUME ServerTypeOK, ServerInv, ServerTypeOK', LaunchInv',
         NEW s \in Statuses, Becomes(s),
         Rank(status) < Rank(s), phases' = phases, chunks' = chunks
  PROVE  Onward
<1>1. /\ status' = s /\ Before(status, s)
      /\ Extends(published, published')
      /\ History(published', s, chunks, Len(phases))
  BY BecomesFitsAlone
<1>2. ServerInv'
  BY <1>1 DEF ServerInv
<1>3. Before(status, status') /\ Grows(phases, phases')
  BY <1>1, ServerTypes DEF Grows
<1> QED BY <1>1, <1>2, <1>3 DEF Onward

LEMMA StatusSteps ==
  ASSUME ServerTypeOK, ServerInv
  PROVE  /\ status = "queued" =>
              Rank(status) < Rank("starting") /\ Rank(status) < Rank("cancelled")
         /\ status = "starting" =>
              Rank(status) < Rank("running") /\ Rank(status) < Rank("failed")
         /\ status = "running" =>
              /\ Rank(status) < Rank("failed") /\ Rank(status) < Rank("success")
              /\ Rank(status) < Rank("cancelled")
BY DEF Rank

LEMMA BuildStep ==
  ASSUME ServerTypeOK, ServerInv, Build
  PROVE  Onward
<1>1. CASE CancelQueued
  <2>1. Becomes("cancelled") /\ phases' = phases /\ chunks' = chunks
    BY <1>1 DEF CancelQueued, log
  <2>2. status' = "cancelled" /\ published' \in Seq(Messages) /\ Rank(status) < Rank("cancelled")
    BY <1>1, <2>1, StatusSteps, BecomesFitsAlone DEF CancelQueued, Statuses, Terminal
  <2>3. ServerTypeOK'
    BY <1>1, <2>2 DEF CancelQueued, ServerTypeOK, log, Statuses, Terminal
  <2>4. LaunchInv'
    BY <1>1 DEF CancelQueued, ServerInv, LaunchInv
  <2> QED BY <2>1, <2>2, <2>3, <2>4, StatusStep DEF Statuses, Terminal
<1>2. CASE CancelLaunched
  <2>1. ServerTypeOK'
    BY <1>2 DEF CancelLaunched, ServerTypeOK, row, log
  <2>2. LaunchInv'
    BY <1>2 DEF CancelLaunched, ServerInv, LaunchInv, row
  <2> QED BY <1>2, <2>1, <2>2, QuietStep DEF CancelLaunched, row, log
<1>3. CASE Launch
  <2>1. Becomes("starting") /\ phases' = phases /\ chunks' = chunks
    BY <1>3 DEF Launch
  <2>2. status' = "starting" /\ published' \in Seq(Messages) /\ Rank(status) < Rank("starting")
    BY <1>3, <2>1, StatusSteps, BecomesFitsAlone DEF Launch, Statuses
  <2>3. ServerTypeOK'
    BY <1>3, <2>2 DEF Launch, ServerTypeOK, Statuses
  <2>4. LaunchInv'
    BY <1>3, <2>2 DEF Launch, LaunchInv
  <2> QED BY <2>1, <2>2, <2>3, <2>4, StatusStep DEF Statuses
<1>4. CASE CreateFails
  <2>1. Becomes("failed") /\ phases' = phases /\ chunks' = chunks
    BY <1>4 DEF CreateFails, log
  <2>2. status' = "failed" /\ published' \in Seq(Messages) /\ Rank(status) < Rank("failed")
    BY <1>4, <2>1, StatusSteps, BecomesFitsAlone
    DEF CreateFails, Statuses, Terminal, ServerInv, LaunchInv
  <2>3. ServerTypeOK'
    BY <1>4, <2>2 DEF CreateFails, ServerTypeOK, log, Statuses, Terminal
  <2>4. LaunchInv'
    BY <1>4 DEF CreateFails, LaunchInv
  <2> QED BY <2>1, <2>2, <2>3, <2>4, StatusStep DEF Statuses, Terminal
<1>5. CASE Created
  <2>1. Becomes("running") /\ phases' = phases /\ chunks' = chunks
    BY <1>5 DEF Created, log
  <2>2. status' = "running" /\ published' \in Seq(Messages) /\ Rank(status) < Rank("running")
    BY <1>5, <2>1, StatusSteps, BecomesFitsAlone
    DEF Created, Statuses, ServerInv, LaunchInv
  <2>3. ServerTypeOK'
    BY <1>5, <2>2 DEF Created, ServerTypeOK, log, Statuses
  <2>4. LaunchInv'
    BY <1>5, <2>2 DEF Created, LaunchInv
  <2> QED BY <2>1, <2>2, <2>3, <2>4, StatusStep DEF Statuses
<1>6. ASSUME NEW begins \in BOOLEAN, Output(begins) PROVE Onward
  <2> DEFINE p == published \o <<LogMessage(chunks + 1)>>
  <2>1. /\ p \in Seq(Messages) /\ Extends(published, p)
        /\ History(p, status, chunks + 1, Len(phases))
    BY ServerTypes, LogMessageFits DEF ServerInv
  <2>2. published' = p \o PhaseMessages(begins, chunks + 1)
    BY <1>6 DEF Output
  <2> HIDE DEF p
  <2>3. /\ published' \in Seq(Messages) /\ Extends(p, published')
        /\ History(published', status, chunks + 1, Len(PhasesAfter(begins)))
    BY <2>1, <2>2, ServerTypes, PhaseMessagesFit
  <2>4. Extends(published, published')
    BY <2>1, <2>3, ServerTypes, ExtendsTransitive
  <2>5. /\ status' = status /\ phases' = PhasesAfter(begins) /\ chunks' = chunks + 1
    BY <1>6 DEF Output
  <2>6. chunks' \in 0..MaxChunks /\ logFile' \in 0..chunks'
    BY <1>6, <2>5, LiveViewAssumption DEF Output, ServerTypeOK
  <2>7. doomed' \in BOOLEAN
    BY <1>6, Zenon DEF Output
  <2>8. ServerTypeOK'
    BY <1>6, <2>3, <2>5, <2>6, <2>7, LinesEffect DEF Output, ServerTypeOK
  <2>9. LaunchInv'
    BY <1>6 DEF Output, ServerInv, LaunchInv
  <2>10. ServerInv'
    BY <2>3, <2>5, <2>9, LinesEffect DEF ServerInv
  <2>11. Before(status, status') /\ Grows(phases, phases')
    BY <2>5, LinesEffect DEF Before
  <2> QED BY <2>4, <2>8, <2>10, <2>11 DEF Onward
<1>7. ASSUME NEW begins \in BOOLEAN, NEW verdict \in Terminal,
             WaitAnswers(begins, verdict)
      PROVE  Onward
  <2>1. /\ chunks' = chunks
        /\ phases' = EndOpenPhases(PhasesAfter(begins))
        /\ UNCHANGED <<logFile, doomed, restarts>>
    BY <1>7 DEF WaitAnswers
  <2>2. /\ phases' \in Phases /\ Len(phases') = Len(PhasesAfter(begins))
        /\ Beginning(phases', phases')
    BY <2>1, LinesEffect, EndOpenFacts, EndOpenGrows
  <2>3. Grows(phases, phases')
    <3>1. Grows(PhasesAfter(begins), phases')
      BY <2>1, LinesEffect, EndOpenGrows
    <3> QED BY <2>2, <3>1, ServerTypes, LinesEffect, GrowsTransitive
  <2>4. status = "running"
    BY <1>7 DEF WaitAnswers, ServerInv, LaunchInv
  <2>5. /\ published' \in Seq(Messages) /\ Extends(published, published')
        /\ History(published', status', chunks, Len(PhasesAfter(begins)))
        /\ Before(status, status') /\ status' \in Statuses
    <3>1. CASE verdict = "success"
      <4>1. published' = published \o PhaseMessages(begins, chunks) /\ status' = status
        BY <1>7, <3>1 DEF WaitAnswers
      <4> QED BY <4>1, ServerTypes, PhaseMessagesFit DEF ServerInv, Before
    <3>2. CASE verdict # "success"
      <4>1. BecomesAfter(begins, verdict)
        BY <1>7, <3>2 DEF WaitAnswers
      <4>2. verdict \in Statuses /\ Rank(status) < Rank(verdict)
        BY <2>4 DEF Statuses, Terminal, Rank
      <4> QED BY <4>1, <4>2, BecomesFits
    <3> QED BY <3>1, <3>2
  <2>6. /\ at' \in {"measuring", "over"} /\ logStream' \in {logStream, "ended"}
        /\ cancelled' \in {cancelled, FALSE}
        /\ at' = "measuring" => status' = status
    BY <1>7 DEF WaitAnswers
  <2>7. ServerTypeOK'
    BY <2>1, <2>2, <2>5, <2>6, LinesEffect DEF ServerTypeOK
  <2>8. LaunchInv'
    BY <2>4, <2>6 DEF LaunchInv
  <2>9. ServerInv'
    BY <2>1, <2>2, <2>5, <2>8 DEF ServerInv
  <2> QED BY <2>3, <2>5, <2>7, <2>9 DEF Onward
<1>8. CASE Flush
  <2>1. logFile' \in 0..chunks /\ chunks' = chunks
    BY <1>8, LiveViewAssumption DEF Flush, ServerTypeOK
  <2>2. ServerTypeOK'
    BY <1>8, <2>1 DEF Flush, ServerTypeOK, row, process
  <2>3. LaunchInv'
    BY <1>8 DEF Flush, ServerInv, LaunchInv, row, process
  <2> QED BY <1>8, <2>2, <2>3, QuietStep DEF Flush, row
<1>9. CASE CloseStream
  <2>1. ServerTypeOK'
    BY <1>9 DEF CloseStream, ServerTypeOK, row, process
  <2>2. LaunchInv'
    BY <1>9 DEF CloseStream, ServerInv, LaunchInv, row, process
  <2> QED BY <1>9, <2>1, <2>2, QuietStep DEF CloseStream, row
<1>10. ASSUME NEW verdict \in {"success", "failed"}, Conclude(verdict), status = "running"
       PROVE  Onward
  <2>1. Becomes(verdict) /\ phases' = phases /\ chunks' = chunks
    BY <1>10 DEF Conclude
  <2>2. status' = verdict /\ published' \in Seq(Messages) /\ Rank(status) < Rank(verdict)
    BY <1>10, <2>1, StatusSteps, BecomesFitsAlone DEF Statuses, Terminal
  <2>3. ServerTypeOK'
    BY <1>10, <2>2 DEF Conclude, ServerTypeOK, Statuses, Terminal
  <2>4. LaunchInv'
    BY <1>10 DEF Conclude, LaunchInv
  <2> QED BY <2>1, <2>2, <2>3, <2>4, StatusStep DEF Statuses, Terminal
<1>11. CASE DockerCallFails
  BY <1>10, <1>11 DEF DockerCallFails, ServerInv, LaunchInv
<1>12. ASSUME NEW verdict \in {"success", "failed"}, MetricsAnswer(verdict) PROVE Onward
  BY <1>10, <1>12 DEF MetricsAnswer, ServerInv, LaunchInv
<1>13. ASSUME Reboot PROVE Onward
  <2>1. /\ UNCHANGED <<status, phases, chunks, logFile, published>>
        /\ restarts' = restarts + 1 /\ at' = "forgotten" /\ logStream' = "none"
        /\ cancelled' = FALSE /\ doomed' = FALSE
    BY <1>13 DEF Reboot, row
  <2>4. cancelled' \in BOOLEAN /\ doomed' \in BOOLEAN
    BY <2>1, Zenon
  <2>5. /\ UNCHANGED <<status, phases, chunks, logFile, published>>
        /\ restarts' = restarts + 1 /\ at' = "forgotten" /\ logStream' = "none"
    BY <2>1
  <2>3. ServerTypeOK'
    BY <2>4, <2>5 DEF ServerTypeOK
  <2>2. LaunchInv'
    BY <1>13 DEF Reboot, LaunchInv
  <2> QED BY <2>1, <2>2, <2>3, QuietStep
<1> QED
  BY <1>1, <1>2, <1>3, <1>4, <1>5, <1>6, <1>7, <1>8, <1>9, <1>11, <1>12, <1>13
  DEF Build, Restart, Dies

-----------------------------------------------------------------------------
(* Steps of the viewers.                                                   *)

ClientTypeOK ==
    /\ link \in [Viewers -> {"waiting", "joined", "live", "gaveUp"}]
    /\ snapshot \in [Viewers -> [status : Statuses, phases : Phases,
                                 file : Nat, chunks : Nat]]
    /\ seen \in [Viewers -> 0..Len(published)]
    /\ view \in [Viewers -> Views]
    /\ drops \in [Viewers -> Nat]
    /\ snapshots \in [Viewers -> Nat]

LEMMA TypeParts == TypeOK <=> ServerTypeOK /\ ClientTypeOK
BY DEF TypeOK, ServerTypeOK, ClientTypeOK

LEMMA ViewTypes ==
  ASSUME ClientTypeOK, NEW v \in Viewers
  PROVE  /\ view[v].status \in {"none"} \cup Statuses
         /\ view[v].phases \in Phases
         /\ view[v].log \in Seq(Nat)
         /\ snapshot[v].status \in Statuses
         /\ snapshot[v].phases \in Phases
         /\ snapshot[v].file \in Nat /\ snapshot[v].chunks \in Nat
         /\ seen[v] \in 0..Len(published)
<1>1. view[v] \in Views /\ seen[v] \in 0..Len(published)
  BY DEF ClientTypeOK
<1>2. snapshot[v] \in [status : Statuses, phases : Phases, file : Nat, chunks : Nat]
  BY DEF ClientTypeOK
<1>3. /\ view[v].status \in {"none"} \cup Statuses
      /\ view[v].phases \in Phases /\ view[v].log \in Seq(Nat)
  BY <1>1 DEF Views
<1> QED BY <1>1, <1>2, <1>3

\* The build's steps, and a connection that breaks, leave what a viewer shows
\* right.
LEMMA ViewKept ==
  ASSUME ServerTypeOK, ClientTypeOK, Onward, NEW v \in Viewers, ViewInv(v),
         snapshot'[v] = snapshot[v], seen'[v] = seen[v], view'[v] = view[v],
         link'[v] = link[v] \/ link'[v] = AfterClose(v)
  PROVE  ViewInv(v)'
<1>1. Stamp(published, seen[v])' = Stamp(published, seen[v])
  BY ViewTypes DEF Onward, Extends
<1>2. /\ status \in Statuses /\ status' \in Statuses
      /\ phases \in Phases /\ phases' \in Phases
  BY DEF Onward, ServerTypeOK
<1>3. \A ps \in Phases : Beginning(ps, phases) => Beginning(ps, phases')
  BY <1>2, BeginningGrows DEF Onward
<1>4. Before(view[v].status, status')
  BY <1>2, ViewTypes, BeforeTransitive DEF Onward, ViewInv, ShownInv
<1>5. link'[v] = "gaveUp" => view[v].status \in Terminal
  BY DEF AfterClose, ViewInv, ShownInv
<1>6. ShownInv(v)'
  BY <1>3, <1>4, <1>5, ViewTypes DEF ViewInv, ShownInv
<1>7. link'[v] \in {"joined", "live"} => link'[v] = link[v]
  BY DEF AfterClose
<1>8. link'[v] = "joined" => JoinedInv(v)'
  BY <1>1, <1>3, <1>7, ViewTypes DEF ViewInv, JoinedInv
<1>9. link'[v] = "live" => LiveInv(v)'
  BY <1>1, <1>7 DEF ViewInv, LiveInv
<1> QED BY <1>6, <1>8, <1>9 DEF ViewInv

LEMMA LogIsIncreasing ==
  ASSUME NEW s \in Seq(Nat), NEW f \in Nat, NEW k \in Nat, NEW c \in Nat,
         f <= k, k <= c, LogIs(s, f, k, c)
  PROVE  Increasing(s)
<1> SUFFICES ASSUME NEW i \in 1..Len(s), NEW j \in 1..Len(s), i < j
             PROVE  s[i] < s[j]
  BY DEF Increasing
<1>1. /\ s[i] = IF i <= f THEN i ELSE (i - f) + k
      /\ s[j] = IF j <= f THEN j ELSE (j - f) + k
  BY DEF LogIs
<1>2. i \in Nat /\ j \in Nat
  OBVIOUS
<1> QED BY <1>1, <1>2

LEMMA UpToFacts ==
  ASSUME NEW n \in Nat
  PROVE  /\ UpTo(n) \in Seq(Nat) /\ Len(UpTo(n)) = n
         /\ \A i \in 1..n : UpTo(n)[i] = i
<1>1. UpTo(n) \in [1..n -> Nat]
  BY DEF UpTo
<1>2. UpTo(n) \in Seq(Nat)
  BY <1>1
<1>3. Len(UpTo(n)) = n
  BY <1>1
<1> QED BY <1>2, <1>3 DEF UpTo

LEMMA LogGrows ==
  ASSUME NEW s \in Seq(Nat), NEW f \in Nat, NEW k \in Nat, NEW c \in Nat,
         f <= k, k <= c, LogIs(s, f, k, c)
  PROVE  LogIs(Append(s, c + 1), f, k, c + 1)
<1> DEFINE t == Append(s, c + 1)
<1>1. /\ Len(t) = Len(s) + 1 /\ Len(s) \in Nat
      /\ \A i \in 1..Len(s) : t[i] = s[i]
      /\ t[Len(s) + 1] = c + 1
  OBVIOUS
<1>2. Len(s) = f + (c - k)
  BY DEF LogIs
<1> HIDE DEF t
<1>3. Len(t) = f + ((c + 1) - k)
  BY <1>1, <1>2
<1>4. \A i \in 1..Len(t) : t[i] = IF i <= f THEN i ELSE (i - f) + k
  <2> SUFFICES ASSUME NEW i \in 1..Len(t) PROVE t[i] = IF i <= f THEN i ELSE (i - f) + k
    OBVIOUS
  <2>1. CASE i \in 1..Len(s)
    BY <1>1, <2>1 DEF LogIs
  <2>2. CASE i = Len(s) + 1
    <3>1. ~(i <= f) /\ (i - f) + k = c + 1
      BY <1>1, <1>2, <2>2
    <3> QED BY <1>1, <2>2, <3>1
  <2> QED BY <1>1, <2>1, <2>2
<1> QED BY <1>3, <1>4 DEF LogIs, t

\* What the reducer makes of the next message: the viewer moves from stamp a
\* to stamp m.
LEMMA MessageTaken ==
  ASSUME NEW s \in Views, NEW m \in Messages, NEW a \in Messages,
         NEW f \in Nat, NEW k \in Nat, f <= k, k <= a.chunk,
         Follows(m, a.status, a.chunk, a.phase),
         s.status = a.status, Len(s.phases) = a.phase, LogIs(s.log, f, k, a.chunk),
         NEW qs \in Phases, Beginning(s.phases, qs), Beginning(qs, qs), m.phase <= Len(qs)
  PROVE  /\ Reduce(s, m) \in Views
         /\ Reduce(s, m).status = m.status
         /\ Len(Reduce(s, m).phases) = m.phase
         /\ Beginning(Reduce(s, m).phases, qs)
         /\ k <= m.chunk
         /\ LogIs(Reduce(s, m).log, f, k, m.chunk)
<1>1. /\ s.status \in {"none"} \cup Statuses
      /\ s.phases \in Phases /\ s.log \in Seq(Nat)
      /\ s = [status |-> s.status, phases |-> s.phases, log |-> s.log]
  BY DEF Views
<1>2. /\ a.chunk \in Nat /\ m.chunk \in Nat /\ m.phase \in Nat /\ a.phase \in Nat
      /\ m.status \in Statuses
      /\ m.type \in {"log", "phase", "status"} /\ Len(qs) \in Nat
  BY DEF Messages, Phases
<1>3. CASE m.type = "log"
  <2>1. m.status = a.status /\ m.phase = a.phase /\ m.chunk = a.chunk + 1
    BY <1>3 DEF Follows
  <2>2. Append(s.log, m.chunk) \in Seq(Nat) /\ LogIs(Append(s.log, m.chunk), f, k, m.chunk)
    BY <1>1, <1>2, <2>1, LogGrows
  <2>3. Reduce(s, m) = [s EXCEPT !.log = Append(s.log, m.chunk)]
    BY <1>3 DEF Reduce
  <2>4. PICK l \in Seq(Nat) : l = Append(s.log, m.chunk)
    BY <2>2
  <2>5. Reduce(s, m) = [status |-> s.status, phases |-> s.phases, log |-> l]
    BY <1>1, <2>3, <2>4
  <2>6. Reduce(s, m) \in Views
    BY <1>1, <2>5 DEF Views
  <2>7. k <= m.chunk
    BY <1>2, <2>1
  <2> QED BY <2>1, <2>2, <2>4, <2>5, <2>6, <2>7
<1>4. CASE m.type = "phase"
  <2>1. m.status = a.status /\ m.phase = a.phase + 1 /\ m.chunk = a.chunk
    BY <1>4 DEF Follows
  <2>2. PICK ps \in Phases : ps = NextPhase(s.phases, m.phase)
    BY <1>1, <1>2, NextPhaseFacts
  <2>3. Reduce(s, m) = [s EXCEPT !.phases = ps]
    BY <1>4, <2>2 DEF Reduce
  <2>4. Reduce(s, m) = [status |-> s.status, phases |-> ps, log |-> s.log]
    BY <1>1, <2>3
  <2>5. Reduce(s, m) \in Views
    BY <1>1, <2>4 DEF Views
  <2>6. /\ Len(ps) = m.phase /\ Len(s.phases) = a.phase
        /\ \A i \in 1..a.phase : ps[i].phase = s.phases[i].phase /\ ps[i].ended
        /\ ps[m.phase] = [phase |-> m.phase, ended |-> FALSE]
    <3>1. m.phase = Len(s.phases) + 1 /\ a.phase = Len(s.phases)
      BY <2>1
    <3>2. s.phases \in Phases /\ m.phase \in Nat
      BY <1>1, <1>2
    <3>3. /\ Len(ps) = Len(s.phases) + 1
          /\ \A i \in 1..Len(s.phases) : ps[i].phase = s.phases[i].phase /\ ps[i].ended
          /\ ps[Len(s.phases) + 1] = [phase |-> m.phase, ended |-> FALSE]
      BY <2>2, <3>2, NextPhaseFacts, ZenonT(40)
    <3> QED BY <3>1, <3>3, Zenon
  <2>7. Beginning(ps, qs)
    <3>1. Len(ps) <= Len(qs)
      BY <2>6
    <3>2. ASSUME NEW i \in 1..Len(ps)
          PROVE  ps[i].phase = i /\ (ps[i].ended => qs[i].ended) /\ (i < Len(ps) => ps[i].ended)
      <4>1. CASE i \in 1..a.phase
        <5>1. i < Len(qs) /\ i \in 1..Len(qs)
          BY <1>2, <2>1, <2>6, <4>1
        <5>2. qs[i].ended
          BY <5>1 DEF Beginning
        <5>3. s.phases[i].phase = i
          BY <2>6, <4>1 DEF Beginning
        <5> QED BY <2>6, <4>1, <5>2, <5>3
      <4>2. CASE i = m.phase
        <5>1. ~(i < Len(ps))
          BY <1>2, <2>6, <4>2
        <5> QED BY <2>6, <4>2, <5>1
      <4> QED BY <1>2, <2>1, <2>6, <4>1, <4>2
    <3> QED BY <3>1, <3>2 DEF Beginning
  <2> QED BY <2>1, <2>4, <2>5, <2>6, <2>7
<1>5. CASE m.type = "status"
  <2>1. m.phase = a.phase /\ m.chunk = a.chunk
    BY <1>5 DEF Follows
  <2>2. Reduce(s, m) = [s EXCEPT !.status = m.status]
    BY <1>5 DEF Reduce
  <2>3. Reduce(s, m) = [status |-> m.status, phases |-> s.phases, log |-> s.log]
    BY <1>1, <2>2
  <2>4. Reduce(s, m) \in Views
    BY <1>1, <1>2, <2>3 DEF Views
  <2> QED BY <2>1, <2>3, <2>4
<1> QED BY <1>2, <1>3, <1>4, <1>5

\* The stamps in the history, as the state of the build.
LEMMA HistoryFacts ==
  ASSUME ServerTypeOK, ServerInv
  PROVE  /\ Stamp(published, Len(published)).status = status
         /\ Stamp(published, Len(published)).chunk = chunks
         /\ Stamp(published, Len(published)).phase = Len(phases)
         /\ \A i \in 0..Len(published) :
              /\ Stamp(published, i) \in Messages
              /\ Before(Stamp(published, i).status, status)
              /\ Stamp(published, i).chunk <= chunks
              /\ Stamp(published, i).phase <= Len(phases)
         /\ Beginning(phases, phases)
BY ServerTypes, StampType DEF ServerInv, History

\* A viewer that takes no step keeps its part of the invariant.
LEMMA OthersKept ==
  ASSUME NEW v \in Viewers, ViewInv(v), UNCHANGED server,
         link'[v] = link[v], snapshot'[v] = snapshot[v], seen'[v] = seen[v],
         view'[v] = view[v]
  PROVE  ViewInv(v)'
<1>1. UNCHANGED <<status, phases, published>>
  BY DEF server, row
<1>2. Stamp(published, seen[v])' = Stamp(published, seen[v])
  BY <1>1
<1>3. ShownInv(v)'
  BY <1>1 DEF ViewInv, ShownInv
<1>4. link'[v] = "joined" => JoinedInv(v)'
  BY <1>1, <1>2 DEF ViewInv, JoinedInv
<1>5. link'[v] = "live" => LiveInv(v)'
  BY <1>2 DEF ViewInv, LiveInv
<1> QED BY <1>3, <1>4, <1>5 DEF ViewInv

LEMMA AcceptStep ==
  ASSUME ServerTypeOK, ServerInv, ClientTypeOK, NEW v \in Viewers, ViewInv(v), Accept(v)
  PROVE  ClientTypeOK' /\ ViewInv(v)'
<1>1. /\ link' = [link EXCEPT ![v] = "joined"]
      /\ snapshot' = [snapshot EXCEPT ![v] = ReadBuild]
      /\ seen' = [seen EXCEPT ![v] = Len(published)]
      /\ UNCHANGED <<status, phases, published, view, drops, snapshots>>
  BY DEF Accept, server, row
<1>2. /\ ReadBuild \in [status : Statuses, phases : Phases, file : Nat, chunks : Nat]
      /\ ReadBuild.status = status /\ ReadBuild.phases = phases
      /\ ReadBuild.file = logFile /\ ReadBuild.chunks = chunks
      /\ logFile <= chunks
  BY ServerTypes DEF ReadBuild, ServerTypeOK
<1>3. ClientTypeOK'
  BY <1>1, <1>2, ServerTypes DEF ClientTypeOK
<1>4. /\ link'[v] = "joined" /\ seen'[v] = Len(published) /\ view'[v] = view[v]
      /\ snapshot'[v] = ReadBuild
  BY <1>1 DEF ClientTypeOK
<1>5. ShownInv(v)'
  BY <1>1, <1>4 DEF ViewInv, ShownInv
<1>6. JoinedInv(v)'
  <2>1. Before(view[v].status, status)
    BY DEF ViewInv, ShownInv
  <2>2. Stamp(published', seen'[v]) = Stamp(published, Len(published))
    BY <1>1, <1>4
  <2> QED BY <1>1, <1>2, <1>4, <2>1, <2>2, HistoryFacts DEF JoinedInv
<1> QED BY <1>3, <1>4, <1>5, <1>6 DEF ViewInv

LEMMA GetSnapshotStep ==
  ASSUME ServerTypeOK, ServerInv, ClientTypeOK, NEW v \in Viewers, ViewInv(v), GetSnapshot(v)
  PROVE  /\ ClientTypeOK' /\ ViewInv(v)'
         /\ Before(view[v].status, view'[v].status)
<1> DEFINE t == [status |-> snapshot[v].status, phases |-> snapshot[v].phases,
                 log |-> UpTo(snapshot[v].file)]
           a == Stamp(published, seen[v])
<1>1. /\ link[v] = "joined"
      /\ link' = [link EXCEPT ![v] = "live"]
      /\ view' = [view EXCEPT ![v] = t]
      /\ snapshots' = [snapshots EXCEPT ![v] = @ + 1]
      /\ UNCHANGED <<status, phases, published, snapshot, seen, drops>>
  BY DEF GetSnapshot, server, row
<1>2. /\ t.status = snapshot[v].status /\ t.phases = snapshot[v].phases
      /\ t.log = UpTo(snapshot[v].file)
  OBVIOUS
<1>3. t \in Views
  BY ViewTypes, UpToFacts DEF Views
<1> HIDE DEF t
<1>4. ClientTypeOK'
  BY <1>1, <1>3 DEF ClientTypeOK
<1>5. /\ link'[v] = "live" /\ view'[v] = t /\ snapshot'[v] = snapshot[v]
      /\ seen'[v] = seen[v]
  BY <1>1 DEF ClientTypeOK
<1>6. JoinedInv(v)
  BY <1>1 DEF ViewInv
<1>7. /\ a \in Messages /\ a.chunk \in Nat /\ Before(a.status, status)
      /\ snapshot[v].file \in Nat /\ snapshot[v].chunks \in Nat
  BY ViewTypes, HistoryFacts DEF Messages
<1>8. LogIs(t.log, snapshot[v].file, snapshot[v].chunks, a.chunk)
  <2>1. snapshot[v].chunks = a.chunk
    BY <1>6 DEF JoinedInv
  <2>2. /\ Len(t.log) = snapshot[v].file
        /\ \A i \in 1..snapshot[v].file : t.log[i] = i
    BY <1>2, <1>7, UpToFacts
  <2>3. /\ Len(t.log) = snapshot[v].file + (a.chunk - snapshot[v].chunks)
        /\ \A i \in 1..Len(t.log) : i <= snapshot[v].file
    BY <1>7, <2>1, <2>2
  <2> QED BY <2>2, <2>3 DEF LogIs
<1>9. Stamp(published', seen'[v]) = a
  BY <1>1, <1>5
<1> HIDE DEF a
<1>10. /\ snapshot[v].status = a.status /\ snapshot[v].chunks = a.chunk
       /\ Len(snapshot[v].phases) = a.phase /\ Beginning(snapshot[v].phases, phases)
       /\ snapshot[v].file <= snapshot[v].chunks
       /\ Before(view[v].status, snapshot[v].status)
  BY <1>6 DEF JoinedInv, a
<1>11. LiveInv(v)'
  <2>1. snapshot[v].chunks <= a.chunk
    BY <1>7, <1>10
  <2> QED BY <1>2, <1>5, <1>8, <1>9, <1>10, <2>1 DEF LiveInv
<1>12. Increasing(t.log)
  BY <1>3, <1>7, <1>8, <1>10, LogIsIncreasing DEF Views
<1>13. ShownInv(v)'
  BY <1>1, <1>2, <1>5, <1>7, <1>10, <1>12 DEF ShownInv
<1> QED BY <1>2, <1>4, <1>5, <1>10, <1>11, <1>13 DEF ViewInv

LEMMA GetMessageStep ==
  ASSUME ServerTypeOK, ServerInv, ClientTypeOK, NEW v \in Viewers, ViewInv(v), GetMessage(v)
  PROVE  /\ ClientTypeOK' /\ ViewInv(v)'
         /\ Before(view[v].status, view'[v].status)
<1> DEFINE a == Stamp(published, seen[v])
           m == published[seen[v] + 1]
           f == snapshot[v].file
           k == snapshot[v].chunks
           t == Reduce(view[v], m)
<1>1. /\ link[v] = "live" /\ seen[v] < Len(published)
      /\ seen' = [seen EXCEPT ![v] = @ + 1]
      /\ view' = [view EXCEPT ![v] = t]
      /\ UNCHANGED <<status, phases, published, link, snapshot, drops, snapshots>>
  BY DEF GetMessage, server, row
<1>2. /\ seen[v] \in 0..Len(published) /\ seen[v] + 1 \in 1..Len(published)
      /\ seen[v] + 1 \in 0..Len(published) /\ (seen[v] + 1) - 1 = seen[v]
      /\ Len(published) \in Nat /\ seen[v] + 1 # 0
  BY <1>1, ServerTypes, ViewTypes
<1>3. a \in Messages /\ m \in Messages
  BY <1>2, ServerTypes, StampType, SeqElement
<1>4. Stamp(published, seen[v] + 1) = m
  BY <1>2 DEF Stamp
<1>5. Follows(m, a.status, a.chunk, a.phase)
  BY <1>2 DEF ServerInv, History
<1>6. LiveInv(v) /\ ShownInv(v)
  BY <1>1 DEF ViewInv
<1>7. /\ view[v] \in Views /\ phases \in Phases /\ f \in Nat /\ k \in Nat
      /\ f <= k /\ k <= a.chunk
      /\ view[v].status = a.status /\ Len(view[v].phases) = a.phase
      /\ LogIs(view[v].log, f, k, a.chunk)
      /\ Beginning(view[v].phases, phases)
  BY <1>6, ServerTypes, ViewTypes DEF LiveInv, ShownInv, ClientTypeOK
<1>8. /\ m.phase <= Len(phases) /\ Beginning(phases, phases)
      /\ Before(m.status, status)
  BY <1>2, <1>4, HistoryFacts
<1>9. /\ a.status \in Statuses /\ a.chunk \in Nat /\ a.phase \in Nat
      /\ m.status \in Statuses /\ m.chunk \in Nat
  BY <1>3 DEF Messages
<1>10. Stamp(published', seen'[v]) = m
  BY <1>1, <1>4 DEF ClientTypeOK
<1> HIDE DEF a, m, f, k
<1>11. /\ t \in Views /\ t.status = m.status /\ Len(t.phases) = m.phase
       /\ Beginning(t.phases, phases) /\ k <= m.chunk /\ LogIs(t.log, f, k, m.chunk)
  BY <1>3, <1>5, <1>7, <1>8, MessageTaken
<1> HIDE DEF t
<1>12. ClientTypeOK'
  BY <1>1, <1>2, <1>11 DEF ClientTypeOK
<1>13. /\ link'[v] = "live" /\ view'[v] = t /\ snapshot'[v] = snapshot[v]
  BY <1>1 DEF ClientTypeOK
<1>14. LiveInv(v)'
  BY <1>7, <1>10, <1>11, <1>13 DEF LiveInv, f, k
<1>15. Increasing(t.log)
  BY <1>7, <1>9, <1>11, LogIsIncreasing DEF Views
<1>16. ShownInv(v)'
  BY <1>1, <1>8, <1>11, <1>13, <1>15 DEF ShownInv
<1>17. Before(view[v].status, view'[v].status)
  BY <1>3, <1>5, <1>7, <1>9, <1>11, <1>13, FollowsIsOnward
<1> QED BY <1>12, <1>13, <1>14, <1>16, <1>17 DEF ViewInv

LEMMA BreaksStep ==
  ASSUME ServerTypeOK, ServerInv, ClientTypeOK, NEW v \in Viewers, ViewInv(v), Breaks(v)
  PROVE  ClientTypeOK' /\ ViewInv(v)'
<1>1. /\ link' = [link EXCEPT ![v] = AfterClose(v)]
      /\ drops' = [drops EXCEPT ![v] = @ + 1]
      /\ UNCHANGED <<status, phases, published, snapshot, seen, view, snapshots>>
  BY DEF Breaks, server, row
<1>2. AfterClose(v) \in {"waiting", "gaveUp"}
  BY DEF AfterClose
<1>3. ClientTypeOK'
  BY <1>1, <1>2 DEF ClientTypeOK
<1>4. link'[v] = AfterClose(v) /\ view'[v] = view[v]
  BY <1>1 DEF ClientTypeOK
<1>5. ShownInv(v)'
  BY <1>1, <1>4 DEF ViewInv, ShownInv, AfterClose
<1> QED BY <1>2, <1>3, <1>4, <1>5 DEF ViewInv

\* What a connection's step does to the other viewers and the orchestrator.
LEMMA ConnectionFrame ==
  ASSUME ClientTypeOK, NEW v \in Viewers, Connection(v)
  PROVE  /\ UNCHANGED server
         /\ \A w \in Viewers \ {v} :
              /\ link'[w] = link[w] /\ snapshot'[w] = snapshot[w]
              /\ seen'[w] = seen[w] /\ view'[w] = view[w]
<1>1. CASE Accept(v)
  BY <1>1 DEF Accept, ClientTypeOK
<1>2. CASE GetSnapshot(v)
  BY <1>2 DEF GetSnapshot, ClientTypeOK
<1>3. CASE GetMessage(v)
  BY <1>3 DEF GetMessage, ClientTypeOK
<1>4. CASE Breaks(v)
  BY <1>4 DEF Breaks, ClientTypeOK
<1> QED BY <1>1, <1>2, <1>3, <1>4 DEF Connection

LEMMA ConnectionStep ==
  ASSUME IInv, NEW v \in Viewers, Connection(v)
  PROVE  IInv'
<1>1. ServerTypeOK /\ ServerInv /\ ClientTypeOK /\ \A w \in Viewers : ViewInv(w)
  BY TypeParts DEF IInv
<1>2. ClientTypeOK' /\ ViewInv(v)'
  BY <1>1, AcceptStep, GetSnapshotStep, GetMessageStep, BreaksStep DEF Connection
<1>3. UNCHANGED server
  BY <1>1, ConnectionFrame
<1>4. ServerTypeOK'
  BY <1>1, <1>3 DEF ServerTypeOK, server, row, log, process
<1>5. ServerInv'
  BY <1>1, <1>3 DEF ServerInv, LaunchInv, server, row, log, process
<1>6. ASSUME NEW w \in Viewers \ {v} PROVE ViewInv(w)'
  BY <1>1, <1>3, <1>6, ConnectionFrame, OthersKept
<1>7. TypeOK'
  BY <1>2, <1>4 DEF TypeOK, ServerTypeOK, ClientTypeOK
<1> QED BY <1>2, <1>5, <1>6, <1>7 DEF IInv

\* The build's steps leave the viewers alone, but for connections that break.
LEMMA BuildFrame ==
  ASSUME Build
  PROVE  /\ UNCHANGED <<snapshot, seen, view, drops, snapshots>>
         /\ \/ link' = link
            \/ link' = [v \in Viewers |-> IF link[v] \in {"joined", "live"}
                                          THEN AfterClose(v) ELSE link[v]]
BY DEF Build, CancelQueued, CancelLaunched, Launch, CreateFails, Created, Output,
       WaitAnswers, Flush, CloseStream, DockerCallFails, MetricsAnswer, Conclude,
       Restart, Dies, Reboot, client

LEMMA BuildKeepsIInv ==
  ASSUME IInv, Build
  PROVE  IInv'
<1>1. ServerTypeOK /\ ServerInv /\ ClientTypeOK /\ \A w \in Viewers : ViewInv(w)
  BY TypeParts DEF IInv
<1>2. Onward
  BY <1>1, BuildStep
<1>3. /\ UNCHANGED <<snapshot, seen, view, drops, snapshots>>
      /\ link' \in [Viewers -> {"waiting", "joined", "live", "gaveUp"}]
      /\ \A v \in Viewers : link'[v] = link[v] \/ link'[v] = AfterClose(v)
  <2>1. /\ UNCHANGED <<snapshot, seen, view, drops, snapshots>>
        /\ \/ link' = link
           \/ link' = [v \in Viewers |-> IF link[v] \in {"joined", "live"}
                                         THEN AfterClose(v) ELSE link[v]]
    BY BuildFrame
  <2>2. link \in [Viewers -> {"waiting", "joined", "live", "gaveUp"}]
    BY <1>1 DEF ClientTypeOK
  <2>3. \A v \in Viewers : AfterClose(v) \in {"waiting", "gaveUp"}
    BY DEF AfterClose
  <2> QED BY <2>1, <2>2, <2>3
<1>4. seen' \in [Viewers -> 0..Len(published')]
  <2>1. \A v \in Viewers : seen[v] \in 0..Len(published')
    BY <1>1, <1>2, ViewTypes, ServerTypes DEF Onward, Extends, ServerTypeOK
  <2> QED BY <1>1, <1>3, <2>1 DEF ClientTypeOK
<1>5. ClientTypeOK'
  BY <1>1, <1>3, <1>4 DEF ClientTypeOK
<1>6. ASSUME NEW v \in Viewers PROVE ViewInv(v)'
  BY <1>1, <1>2, <1>3, ViewKept
<1>7. TypeOK'
  BY <1>2, <1>5 DEF TypeOK, ServerTypeOK, ClientTypeOK, Onward
<1> QED BY <1>2, <1>6, <1>7 DEF IInv, Onward

LEMMA InitIInv == Init => IInv
<1> SUFFICES ASSUME Init PROVE IInv
  OBVIOUS
<1>1. /\ status = "queued" /\ phases = <<>> /\ chunks = 0 /\ published = <<>>
      /\ at = "queued" /\ logFile = 0
  BY DEF Init
<1>2. <<>> \in Phases /\ Len(phases) = 0 /\ Len(published) = 0
  BY <1>1 DEF Phases
<1>3. ServerTypeOK
  <2>1. cancelled \in BOOLEAN /\ doomed \in BOOLEAN
    BY Zenon DEF Init
  <2>2. logStream = "none" /\ restarts = 0
    BY DEF Init
  <2>3. published \in Seq(Messages)
    BY <1>1
  <2> QED BY <1>1, <1>2, <2>1, <2>2, <2>3, LiveViewAssumption
    DEF ServerTypeOK, Statuses
<1>4. ReadBuild \in [status : Statuses, phases : Phases, file : Nat, chunks : Nat]
  BY <1>3, ServerTypes DEF ReadBuild, ServerTypeOK
<1>5. PICK t \in Views : t = [status |-> "none", phases |-> <<>>, log |-> <<>>]
  <2>1. /\ "none" \in {"none"} \cup Statuses
        /\ <<>> \in Phases /\ <<>> \in Seq(Nat)
    BY <1>2
  <2> QED BY <2>1 DEF Views
<1>6. view = [v \in Viewers |-> t] /\ link = [v \in Viewers |-> "waiting"]
  BY <1>5 DEF Init
<1>7. ClientTypeOK
  BY <1>2, <1>4, <1>6 DEF Init, ClientTypeOK
<1>8. Stamp(published, 0).status = status /\ Stamp(published, 0).chunk = chunks
        /\ Stamp(published, 0).phase = 0
  BY <1>1 DEF Stamp
<1>9. History(published, status, chunks, Len(phases))
  BY <1>1, <1>2, <1>8 DEF History, Before
<1>10. LaunchInv
  BY <1>1 DEF LaunchInv
<1>11. Beginning(<<>>, <<>>)
  BY DEF Beginning
<1>12. ServerInv
  BY <1>1, <1>9, <1>10, <1>11 DEF ServerInv
<1>13. ASSUME NEW v \in Viewers PROVE ViewInv(v)
  <2>1. view[v] = t /\ link[v] = "waiting"
    BY <1>6
  <2>2. t.status = "none" /\ t.log = <<>> /\ t.phases = <<>>
    BY <1>5
  <2>3. Before(t.status, status)
    BY <1>1, <2>2 DEF Before, Rank
  <2>4. Increasing(t.log)
    BY <2>2 DEF Increasing
  <2> QED BY <1>1, <1>11, <2>1, <2>2, <2>3, <2>4 DEF ViewInv, ShownInv
<1> QED BY <1>3, <1>7, <1>12, <1>13, TypeParts DEF IInv

LEMMA NextIInv == IInv /\ [Next]_vars => IInv'
<1> SUFFICES ASSUME IInv, [Next]_vars PROVE IInv'
  OBVIOUS
<1>1. CASE UNCHANGED vars
  <2>1. UNCHANGED server /\ UNCHANGED client
    BY <1>1 DEF vars
  <2>2. TypeOK'
    BY <2>1 DEF IInv, TypeOK, server, client, row, log, process
  <2>3. ServerInv'
    BY <2>1 DEF IInv, ServerInv, LaunchInv, server, row, log, process
  <2>4. ASSUME NEW v \in Viewers PROVE ViewInv(v)'
    BY <2>1, OthersKept DEF IInv, client
  <2> QED BY <2>2, <2>3, <2>4 DEF IInv
<1>2. CASE Build
  BY <1>2, BuildKeepsIInv
<1>3. ASSUME NEW v \in Viewers, Connection(v) PROVE IInv'
  BY <1>3, ConnectionStep
<1> QED BY <1>1, <1>2, <1>3 DEF Next

THEOREM LiveInvariance == Spec => []IInv
BY InitIInv, NextIInv, PTL DEF Spec

-----------------------------------------------------------------------------
(* The theorems about the connection.                                      *)

\* Every variable keeps its type; the file never has more than was printed.
THEOREM LiveTypes == Spec => []TypeOK
<1>1. IInv => TypeOK
  BY DEF IInv
<1> QED BY <1>1, LiveInvariance, PTL

\* No viewer's log ever shows a chunk twice or out of order.
THEOREM LogsAreInOrder == Spec => []LogInOrder
<1>1. IInv => LogInOrder
  <2> SUFFICES ASSUME IInv, NEW v \in Viewers,
                      NEW i \in DOMAIN view[v].log, NEW j \in DOMAIN view[v].log, i < j
               PROVE  view[v].log[i] < view[v].log[j]
    BY DEF LogInOrder
  <2>1. Increasing(view[v].log) /\ view[v].log \in Seq(Nat)
    BY ViewTypes, TypeParts DEF IInv, ViewInv, ShownInv
  <2>2. DOMAIN view[v].log = 1..Len(view[v].log)
    BY <2>1
  <2> QED BY <2>1, <2>2, Zenon DEF Increasing
<1> QED BY <1>1, LiveInvariance, PTL

LEMMA SameSequence ==
  ASSUME NEW a \in Seq(Nat), NEW b \in Seq(Nat),
         Len(a) = Len(b), \A i \in 1..Len(b) : a[i] = b[i]
  PROVE  a = b
OBVIOUS

\* The log of a viewer, as what was in the file and what came after.
LEMMA LogInTwoParts ==
  ASSUME NEW s \in Seq(Nat), NEW f \in Nat, NEW k \in Nat, NEW c \in Nat,
         k <= c, LogIs(s, f, k, c)
  PROVE  s = UpTo(f) \o [i \in 1..(c - k) |-> k + i]
<1>1. PICK n \in Nat : n = c - k
  OBVIOUS
<1>2. PICK u \in Seq(Nat) : u = UpTo(f) /\ Len(u) = f /\ \A i \in 1..f : u[i] = i
  BY UpToFacts
<1>3. PICK g : g = [i \in 1..n |-> k + i]
  OBVIOUS
<1>4. g \in [1..n -> Nat] /\ \A i \in 1..n : g[i] = k + i
  BY <1>3
<1>5. PICK r \in Seq(Nat) : r = g /\ Len(r) = n /\ \A i \in 1..n : r[i] = k + i
  BY <1>4
<1>6. PICK t \in Seq(Nat) : t = u \o r
  <2>1. u \o r \in Seq(Nat)
    OBVIOUS
  <2> QED BY <2>1
<1>7. /\ Len(t) = f + n
      /\ \A i \in 1..(f + n) : t[i] = IF i <= f THEN u[i] ELSE r[i - f]
  <2>1. Len(u) = f /\ Len(r) = n
    BY <1>2, <1>5
  <2>2. /\ Len(u \o r) = Len(u) + Len(r)
        /\ \A i \in 1..(Len(u) + Len(r)) :
             (u \o r)[i] = IF i <= Len(u) THEN u[i] ELSE r[i - Len(u)]
    OBVIOUS
  <2> QED BY <1>6, <2>1, <2>2, Zenon
<1>8. /\ Len(s) = f + n
      /\ \A i \in 1..(f + n) : s[i] = IF i <= f THEN i ELSE (i - f) + k
  BY <1>1 DEF LogIs
<1>9. ASSUME NEW i \in 1..(f + n) PROVE s[i] = t[i]
  <2>1. CASE i <= f
    <3>1. i \in 1..f
      BY <2>1
    <3> QED BY <1>2, <1>7, <1>8, <2>1, <3>1
  <2>2. CASE ~(i <= f)
    <3>1. i - f \in 1..n /\ k + (i - f) = (i - f) + k
      BY <2>2
    <3>2. r[i - f] = (i - f) + k
      BY <1>5, <3>1
    <3> QED BY <1>7, <1>8, <2>2, <3>2
  <2> QED BY <2>1, <2>2
<1>10. s = t
  BY <1>7, <1>8, <1>9, SameSequence
<1> QED BY <1>1, <1>2, <1>3, <1>5, <1>6, <1>10

\* A viewer that is up to date lacks exactly what its snapshot found in the
\* write stream's buffer.
THEOREM OnlyTheUnwrittenIsMissed == Spec => []OnlyUnwrittenIsMissed
<1>1. IInv => OnlyUnwrittenIsMissed
  <2> SUFFICES ASSUME IInv, NEW v \in Viewers, UpToDate(v)
               PROVE  view[v].log = UpTo(snapshot[v].file)
                        \o [i \in 1..(chunks - snapshot[v].chunks) |-> snapshot[v].chunks + i]
    BY DEF OnlyUnwrittenIsMissed
  <2>1. ServerTypeOK /\ ServerInv /\ ClientTypeOK /\ ViewInv(v)
    BY TypeParts DEF IInv
  <2>2. Stamp(published, seen[v]).chunk = chunks /\ LiveInv(v)
    BY <2>1, HistoryFacts DEF UpToDate, ViewInv
  <2>3. PICK f \in Nat, k \in Nat, c \in Nat, s \in Seq(Nat) :
          f = snapshot[v].file /\ k = snapshot[v].chunks /\ c = chunks /\ s = view[v].log
    BY <2>1, ViewTypes, ServerTypes
  <2>4. LogIs(s, f, k, c) /\ f <= k /\ k <= c
    BY <2>2, <2>3 DEF LiveInv
  <2>5. s = UpTo(f) \o [i \in 1..(c - k) |-> k + i]
    BY <2>4, LogInTwoParts
  <2> QED BY <2>3, <2>5
<1> QED BY <1>1, LiveInvariance, PTL

\* Whatever verdict a viewer shows is the row's, and it stops retrying on a
\* verdict only.
THEOREM ClientsGiveUpOnVerdict == Spec => []GivesUpOnVerdict
<1>1. IInv => GivesUpOnVerdict
  <2> SUFFICES ASSUME IInv, NEW v \in Viewers
               PROVE  /\ view[v].status \in Terminal => view[v].status = status
                      /\ link[v] = "gaveUp" => view[v].status \in Terminal
    BY DEF GivesUpOnVerdict
  <2>1. ShownInv(v) /\ status \in Statuses /\ view[v].status \in {"none"} \cup Statuses
    BY ViewTypes, ServerTypes, TypeParts DEF IInv, ViewInv
  <2> QED BY <2>1, VerdictStays DEF ShownInv
<1> QED BY <1>1, LiveInvariance, PTL

\* A viewer's phases are a beginning of the table's, with all but the last over.
THEOREM PhasesOfViewersAgree == Spec => []PhasesAgree
<1>1. IInv => PhasesAgree
  <2> SUFFICES ASSUME IInv, NEW v \in Viewers
               PROVE  /\ Len(view[v].phases) <= Len(phases)
                      /\ \A i \in DOMAIN view[v].phases :
                          /\ view[v].phases[i].phase = phases[i].phase
                          /\ view[v].phases[i].ended => phases[i].ended
                          /\ i < Len(view[v].phases) => view[v].phases[i].ended
                      /\ UpToDate(v) => Len(view[v].phases) = Len(phases)
    BY DEF PhasesAgree
  <2>1. ServerTypeOK /\ ServerInv /\ ClientTypeOK /\ ViewInv(v)
    BY TypeParts DEF IInv
  <2>2. /\ Beginning(view[v].phases, phases) /\ Beginning(phases, phases)
        /\ view[v].phases \in Phases /\ phases \in Phases
    BY <2>1, ViewTypes, ServerTypes DEF ViewInv, ShownInv, ServerInv
  <2>3. PICK ps \in Phases, qs \in Phases : ps = view[v].phases /\ qs = phases
    BY <2>2
  <2>4. /\ Len(ps) <= Len(qs) /\ Len(ps) \in Nat /\ Len(qs) \in Nat
        /\ DOMAIN ps = 1..Len(ps)
        /\ \A i \in 1..Len(ps) : ps[i].phase = i /\ (ps[i].ended => qs[i].ended)
                                   /\ (i < Len(ps) => ps[i].ended)
        /\ \A i \in 1..Len(qs) : qs[i].phase = i
    BY <2>2, <2>3 DEF Beginning, Phases
  <2>5. \A i \in DOMAIN ps : /\ ps[i].phase = qs[i].phase
                             /\ ps[i].ended => qs[i].ended
                             /\ i < Len(ps) => ps[i].ended
    BY <2>4
  <2>6. UpToDate(v) => Len(ps) = Len(qs)
    BY <2>1, <2>3, HistoryFacts DEF UpToDate, ViewInv, LiveInv
  <2> QED BY <2>3, <2>4, <2>5, <2>6
<1> QED BY <1>1, LiveInvariance, PTL

LEMMA StatusOnward ==
  ASSUME IInv, [Next]_vars, NEW v \in Viewers
  PROVE  Before(view[v].status, view'[v].status)
<1>1. ServerTypeOK /\ ServerInv /\ ClientTypeOK /\ \A w \in Viewers : ViewInv(w)
  BY TypeParts DEF IInv
<1>2. CASE view'[v] = view[v]
  BY <1>2 DEF Before
<1>3. CASE UNCHANGED vars
  BY <1>2, <1>3 DEF vars, client
<1>4. CASE Build
  BY <1>2, <1>4, BuildFrame
<1>5. ASSUME NEW w \in Viewers, Connection(w) PROVE Before(view[v].status, view'[v].status)
  <2>1. CASE w # v
    BY <1>1, <1>2, <1>5, <2>1, ConnectionFrame
  <2>2. CASE w = v /\ (GetSnapshot(w) \/ GetMessage(w))
    BY <1>1, <2>2, GetSnapshotStep, GetMessageStep
  <2>3. CASE Accept(w) \/ Breaks(w)
    BY <1>2, <2>3 DEF Accept, Breaks
  <2> QED BY <1>5, <2>1, <2>2, <2>3 DEF Connection
<1> QED BY <1>3, <1>4, <1>5 DEF Next

\* The status a viewer shows never goes back, on whatever connection.
THEOREM ShownStatusNeverGoesBack == Spec => StatusNeverGoesBack
<1> DEFINE Forward == \A v \in Viewers : view'[v].status = view[v].status
                                \/ Rank(view[v].status) < Rank(view'[v].status)
<1>1. IInv /\ [Next]_vars => [Forward]_vars
  BY StatusOnward DEF Before
<1> QED BY <1>1, LiveInvariance, PTL DEF Spec, StatusNeverGoesBack

-----------------------------------------------------------------------------
(* The row moves on BuildManager's board.                                  *)

LEMMA EmptyBoard == Board!Cardinality({}) = 0
<1>1. Board!Cardinality({}) = Cardinality({})
  BY Zenon DEF Board!Cardinality, Cardinality
<1> QED BY <1>1, FS_EmptySet

\* One move of the only build.
LEMMA BoardMoves ==
  ASSUME NEW from, status \in from, NEW to, status' = to
  PROVE  Board!Move(0, from, to)
<1> QED BY DEF Board!Move

LEMMA BoardStays ==
  ASSUME status' = status, at' = at
  PROVE  [Board!Next]_(Board!boardVars)
BY DEF Board!boardVars

LEMMA BoardConcludes ==
  ASSUME status = "running", at \notin {"queued", "forgotten"},
         at' \notin {"queued", "forgotten"}, status' \in Terminal
  PROVE  [Board!Next]_(Board!boardVars)
<1>1. CASE status' = "failed"
  <2>1. Board!Fail(0)
    BY <1>1, BoardMoves DEF Board!Fail
  <2> QED BY <2>1 DEF Board!Next
<1>2. CASE status' # "failed"
  <2>1. Board!Finish(0, status') /\ status' \in {"success", "cancelled"}
    BY <1>2, BoardMoves DEF Board!Finish, Terminal
  <2> QED BY <2>1 DEF Board!Next
<1> QED BY <1>1, <1>2

LEMMA BoardStep ==
  ASSUME IInv, [Next]_vars
  PROVE  [Board!Next]_(Board!boardVars)
<1>1. LaunchInv /\ ServerTypeOK
  BY TypeParts DEF IInv, ServerInv
<1>2. CASE CancelQueued
  <2>1. Board!Withdraw(0)
    BY <1>2, BoardMoves DEF CancelQueued, Becomes, BecomesAfter, Board!Withdraw
  <2> QED BY <2>1 DEF Board!Next
<1>3. CASE Launch
  <2>1. at = "queued" /\ at' = "creating" /\ status = "queued" /\ status' = "starting"
    BY <1>3 DEF Launch, Becomes, BecomesAfter
  <2>2. Board!TakeSlot(0, "starting")
    BY <2>1, BoardMoves, EmptyBoard DEF Board!TakeSlot
  <2> QED BY <2>2 DEF Board!Next
<1>4. CASE CreateFails
  <2>1. at = "creating" /\ at' = "uncreated" /\ status = "starting" /\ status' = "failed"
    BY <1>1, <1>4 DEF CreateFails, Becomes, BecomesAfter, LaunchInv
  <2>2. Board!Fail(0)
    BY <2>1, BoardMoves DEF Board!Fail
  <2> QED BY <2>2 DEF Board!Next
<1>5. CASE Created
  <2>1. at = "creating" /\ at' = "running" /\ status = "starting" /\ status' = "running"
    BY <1>1, <1>5 DEF Created, Becomes, BecomesAfter, LaunchInv
  <2>2. Board!Run(0)
    BY <2>1, BoardMoves DEF Board!Run
  <2> QED BY <2>2 DEF Board!Next
<1>6. ASSUME NEW begins \in BOOLEAN, NEW verdict \in Terminal,
             WaitAnswers(begins, verdict)
      PROVE  [Board!Next]_(Board!boardVars)
  <2>1. at = "running" /\ status = "running"
    BY <1>1, <1>6 DEF WaitAnswers, LaunchInv
  <2>2. CASE verdict = "success"
    <3>1. status' = status /\ at' = "measuring"
      BY <1>6, <2>2 DEF WaitAnswers
    <3> QED BY <2>1, <3>1 DEF Board!boardVars
  <2>3. CASE verdict # "success"
    <3>1. status' = verdict /\ at' = "over"
      BY <1>6, <2>3 DEF WaitAnswers, BecomesAfter
    <3> QED BY <2>1, <3>1, BoardConcludes
  <2> QED BY <2>2, <2>3
<1>7. ASSUME NEW verdict \in {"success", "failed"}, Conclude(verdict),
             at \in {"running", "measuring"}
      PROVE  [Board!Next]_(Board!boardVars)
  <2>1. status = "running" /\ status' = verdict /\ at' = "over"
    BY <1>1, <1>7 DEF Conclude, Becomes, BecomesAfter, LaunchInv
  <2> QED BY <1>7, <2>1, BoardConcludes DEF Terminal
<1>8. CASE Reboot
  <2>1. Board!Crash
    BY <1>8 DEF Reboot, row, Board!Crash
  <2> QED BY <2>1 DEF Board!Next
<1>9. CASE CancelLaunched \/ Flush \/ CloseStream \/ UNCHANGED vars
  <2>1. status' = status /\ at' = at
    BY <1>9 DEF CancelLaunched, Flush, CloseStream, vars, server, row, process
  <2> QED BY <2>1, BoardStays
<1>10. ASSUME NEW begins \in BOOLEAN, Output(begins)
       PROVE  [Board!Next]_(Board!boardVars)
  BY <1>10, BoardStays DEF Output
<1>11. CASE Build
  BY <1>2, <1>3, <1>4, <1>5, <1>6, <1>7, <1>8, <1>9, <1>10, <1>11
  DEF Build, DockerCallFails, MetricsAnswer, Restart, Dies
<1>12. ASSUME NEW v \in Viewers, Connection(v) PROVE [Board!Next]_(Board!boardVars)
  <2>1. UNCHANGED server
    BY <1>12, ConnectionFrame, TypeParts DEF IInv
  <2> QED BY <2>1, BoardStays DEF server, row, process
<1> QED BY <1>9, <1>11, <1>12 DEF Next

\* What LiveView assumes of the build is what BuildManager promises.
THEOREM RowMovesOnTheBoard == Spec => MovesOnTheBoard
<1>1. IInv /\ [Next]_vars => [Board!Next]_(Board!boardVars)
  BY BoardStep
<1> QED BY <1>1, LiveInvariance, PTL DEF Spec, MovesOnTheBoard


-----------------------------------------------------------------------------
(* The terminal.                                                           *)

StartOf(s, t) == Len(s) <= Len(t) /\ \A i \in 1..Len(s) : s[i] = t[i]

\* The log only grows until a second snapshot comes.
GrowingInv(v) ==
    /\ snapshots[v] = 0 => view[v].log = <<>> /\ link[v] # "live"
    /\ pane[v].state # "ready" => pane[v].screen = <<>> /\ pane[v].written = 0

\* Until then the texts of the terminal follow one another.
TextsInv(v) ==
    /\ StartOf(pane[v].first, pane[v].text)
    /\ StartOf(pane[v].text, view[v].log)
    /\ StartOf(pane[v].screen, pane[v].text)
    /\ pane[v].written = Len(pane[v].screen)

PaneInv(v) == GrowingInv(v) /\ (snapshots[v] <= 1 => TextsInv(v))

PaneIInv == IInv /\ PaneTypeOK /\ \A v \in Viewers : PaneInv(v)

LEMMA StartOfItself == ASSUME NEW s \in Seq(Nat) PROVE StartOf(s, s)
BY DEF StartOf

LEMMA EmptyStarts == ASSUME NEW s \in Seq(Nat) PROVE StartOf(<<>>, s)
BY DEF StartOf

LEMMA StartOfTransitive ==
  ASSUME NEW a \in Seq(Nat), NEW b \in Seq(Nat), NEW c \in Seq(Nat),
         StartOf(a, b), StartOf(b, c)
  PROVE  StartOf(a, c)
<1>1. /\ Len(a) \in Nat /\ Len(b) \in Nat /\ Len(c) \in Nat
      /\ Len(a) <= Len(b) /\ Len(b) <= Len(c)
  BY DEF StartOf
<1>2. ASSUME NEW i \in 1..Len(a) PROVE a[i] = c[i]
  <2>1. i \in 1..Len(b)
    BY <1>1
  <2>2. a[i] = b[i] /\ b[i] = c[i]
    BY <2>1, Zenon DEF StartOf
  <2> QED BY <2>2
<1>3. Len(a) <= Len(c)
  BY <1>1
<1> QED BY <1>2, <1>3 DEF StartOf

LEMMA StartOfAppended ==
  ASSUME NEW a \in Seq(Nat), NEW b \in Seq(Nat), NEW n \in Nat, StartOf(a, b)
  PROVE  StartOf(a, Append(b, n))
BY DEF StartOf

\* Writing the rest of a text that begins with the screen leaves the text.
LEMMA RestWritten ==
  ASSUME NEW a \in Seq(Nat), NEW b \in Seq(Nat), StartOf(a, b)
  PROVE  a \o SubSeq(b, Len(a) + 1, Len(b)) = b
<1> DEFINE r == SubSeq(b, Len(a) + 1, Len(b))
<1>1. /\ Len(a) \in Nat /\ Len(b) \in Nat /\ Len(a) <= Len(b)
      /\ \A i \in 1..Len(a) : a[i] = b[i]
  BY DEF StartOf
<1>2. /\ r \in Seq(Nat) /\ Len(r) = Len(b) - Len(a)
      /\ \A i \in 1..(Len(b) - Len(a)) : r[i] = b[i + Len(a)]
  BY <1>1
<1> HIDE DEF r
<1>3. /\ a \o r \in Seq(Nat) /\ Len(a \o r) = Len(b)
      /\ \A i \in 1..Len(b) : (a \o r)[i] = IF i <= Len(a) THEN a[i] ELSE r[i - Len(a)]
  BY <1>1, <1>2
<1>4. ASSUME NEW i \in 1..Len(b) PROVE (a \o r)[i] = b[i]
  <2>1. CASE i <= Len(a)
    BY <1>1, <1>3, <2>1
  <2>2. CASE ~(i <= Len(a))
    <3>1. i - Len(a) \in 1..(Len(b) - Len(a)) /\ (i - Len(a)) + Len(a) = i
      BY <1>1, <2>2
    <3>2. r[i - Len(a)] = b[i]
      BY <1>2, <3>1
    <3> QED BY <1>3, <2>2, <3>2
  <2> QED BY <2>1, <2>2
<1>5. PICK c \in Seq(Nat) : c = a \o r
  BY <1>3
<1>6. Len(c) = Len(b) /\ \A i \in 1..Len(b) : c[i] = b[i]
  BY <1>3, <1>4, <1>5
<1>7. c = b
  BY <1>6, SameSequence
<1> QED BY <1>5, <1>7 DEF r

\* What a step of the connection can do to the log.
LEMMA LogStep ==
  ASSUME IInv, [Next]_vars, NEW v \in Viewers
  PROVE  \/ /\ view'[v].log = view[v].log /\ snapshots'[v] = snapshots[v]
            /\ link'[v] = "live" => link[v] = "live"
         \/ /\ link[v] = "live" /\ snapshots'[v] = snapshots[v]
            /\ \E n \in Nat : view'[v].log = Append(view[v].log, n)
         \/ snapshots'[v] = snapshots[v] + 1
<1>1. ServerTypeOK /\ ServerInv /\ ClientTypeOK
  BY TypeParts DEF IInv
<1>2. AfterClose(v) # "live"
  BY DEF AfterClose
<1>3. CASE UNCHANGED vars
  BY <1>3 DEF vars, client
<1>4. CASE Build
  BY <1>1, <1>2, <1>4, BuildFrame DEF ClientTypeOK
<1>5. ASSUME NEW w \in Viewers, Accept(w) \/ Breaks(w)
      PROVE  /\ view' = view /\ snapshots' = snapshots
             /\ link'[v] = "live" => link[v] = "live"
  <2>1. AfterClose(w) # "live"
    BY DEF AfterClose
  <2> QED BY <1>1, <1>5, <2>1 DEF Accept, Breaks, ClientTypeOK
<1>6. ASSUME NEW w \in Viewers, GetSnapshot(w)
      PROVE  IF w = v THEN snapshots'[v] = snapshots[v] + 1
             ELSE view'[v] = view[v] /\ snapshots'[v] = snapshots[v] /\ link'[v] = link[v]
  BY <1>1, <1>6 DEF GetSnapshot, ClientTypeOK
<1>7. ASSUME NEW w \in Viewers, GetMessage(w)
      PROVE  /\ snapshots' = snapshots /\ link' = link
             /\ w # v => view'[v] = view[v]
             /\ w = v => /\ link[v] = "live"
                         /\ \/ view'[v].log = view[v].log
                            \/ \E n \in Nat : view'[v].log = Append(view[v].log, n)
  <2>1. /\ link[w] = "live" /\ seen[w] < Len(published)
        /\ view' = [view EXCEPT ![w] = Reduce(view[w], published[seen[w] + 1])]
        /\ UNCHANGED <<link, snapshots>>
    BY <1>7 DEF GetMessage
  <2>2. CASE w = v
    <3> DEFINE m == published[seen[v] + 1]
    <3>1. seen[v] + 1 \in 1..Len(published)
      BY <1>1, <2>1, <2>2, ServerTypes, ViewTypes
    <3>2. m \in Messages
      BY <1>1, <3>1, ServerTypes, SeqElement
    <3>3. view'[v] = Reduce(view[v], m)
      BY <1>1, <2>1, <2>2 DEF ClientTypeOK
    <3> HIDE DEF m
    <3>4. m.type \in {"log", "phase", "status"} /\ m.chunk \in Nat
      BY <3>2 DEF Messages
    <3>5. view[v] \in Views
      BY <1>1 DEF ClientTypeOK
    <3>6. \/ view'[v].log = view[v].log
          \/ view'[v].log = Append(view[v].log, m.chunk)
      <4>1. CASE m.type = "log"
        BY <3>3, <3>5, <4>1 DEF Reduce, Views
      <4>2. CASE m.type = "phase"
        BY <3>3, <3>5, <4>2 DEF Reduce, Views
      <4>3. CASE m.type = "status"
        BY <3>3, <3>5, <4>3 DEF Reduce, Views
      <4> QED BY <3>4, <4>1, <4>2, <4>3
    <3> QED BY <2>1, <2>2, <3>4, <3>6
  <2>3. CASE w # v
    BY <1>1, <2>1, <2>3 DEF ClientTypeOK
  <2> QED BY <2>1, <2>2, <2>3
<1>8. ASSUME NEW w \in Viewers, Connection(w)
      PROVE  \/ /\ view'[v].log = view[v].log /\ snapshots'[v] = snapshots[v]
                /\ link'[v] = "live" => link[v] = "live"
             \/ /\ link[v] = "live" /\ snapshots'[v] = snapshots[v]
                /\ \E n \in Nat : view'[v].log = Append(view[v].log, n)
             \/ snapshots'[v] = snapshots[v] + 1
  BY <1>5, <1>6, <1>7, <1>8 DEF Connection
<1> QED BY <1>3, <1>4, <1>8 DEF Next

LEMMA PaneTypes ==
  ASSUME PaneTypeOK, NEW v \in Viewers
  PROVE  /\ pane[v] \in Panes
         /\ pane[v].state \in {"absent", "loading", "ready"}
         /\ pane[v].first \in Seq(Nat) /\ pane[v].text \in Seq(Nat)
         /\ pane[v].screen \in Seq(Nat) /\ pane[v].written \in Nat
<1>1. pane[v] \in Panes
  BY DEF PaneTypeOK
<1> QED BY <1>1 DEF Panes

\* The connection leaves the terminal, and finds its text a beginning of the
\* new log.
LEMMA ConnectionUnderPane ==
  ASSUME PaneIInv, [Next]_vars, UNCHANGED pane, NEW v \in Viewers
  PROVE  PaneInv(v)'
<1>1. /\ view[v].log \in Seq(Nat) /\ snapshots[v] \in Nat
      /\ pane[v].text \in Seq(Nat) /\ pane'[v] = pane[v]
  BY ViewTypes, TypeParts, PaneTypes DEF PaneIInv, IInv, ClientTypeOK
<1>2. IInv' /\ PaneInv(v)
  BY NextIInv DEF PaneIInv
<1>3. view'[v].log \in Seq(Nat)
  <2>1. view'[v] \in Views
    BY <1>2 DEF IInv, TypeOK
  <2> QED BY <2>1 DEF Views
<1>4. CASE /\ view'[v].log = view[v].log /\ snapshots'[v] = snapshots[v]
           /\ link'[v] = "live" => link[v] = "live"
  BY <1>1, <1>2, <1>4 DEF PaneInv, GrowingInv, TextsInv
<1>5. CASE /\ link[v] = "live" /\ snapshots'[v] = snapshots[v]
           /\ \E n \in Nat : view'[v].log = Append(view[v].log, n)
  <2>1. PICK n \in Nat : view'[v].log = Append(view[v].log, n)
    BY <1>5
  <2>2. snapshots'[v] # 0
    BY <1>2, <1>5 DEF PaneInv, GrowingInv
  <2>3. snapshots'[v] <= 1 => TextsInv(v)'
    BY <1>1, <1>2, <1>5, <2>1, StartOfAppended DEF PaneInv, TextsInv
  <2> QED BY <1>1, <1>2, <2>2, <2>3 DEF PaneInv, GrowingInv
<1>6. CASE snapshots'[v] = snapshots[v] + 1
  <2>1. snapshots'[v] # 0
    BY <1>1, <1>6
  <2>2. ASSUME snapshots'[v] <= 1 PROVE TextsInv(v)'
    <3>1. snapshots[v] = 0
      BY <1>1, <1>6, <2>2
    <3>2. TextsInv(v) /\ view[v].log = <<>>
      BY <1>2, <3>1 DEF PaneInv, GrowingInv
    <3>3. pane[v].text = <<>>
      BY <1>1, <3>2 DEF TextsInv, StartOf
    <3>4. StartOf(pane[v].text, view'[v].log)
      BY <1>3, <3>3, EmptyStarts
    <3> QED BY <1>1, <3>2, <3>4 DEF TextsInv
  <2> QED BY <1>1, <1>2, <2>1, <2>2 DEF PaneInv, GrowingInv
<1> QED BY <1>4, <1>5, <1>6, LogStep DEF PaneIInv

LEMMA PageStep ==
  ASSUME PaneIInv, NEW v \in Viewers, Page(v)
  PROVE  UNCHANGED vars /\ PaneTypeOK' /\ \A w \in Viewers : PaneInv(w)'
<1>1. UNCHANGED vars /\ UNCHANGED <<view, link, snapshots>>
  BY DEF Page, Mount, Render, Loads, vars, client
<1>2. /\ view[v].log \in Seq(Nat) /\ snapshots[v] \in Nat
      /\ PaneInv(v) /\ PaneTypeOK
  BY ViewTypes, TypeParts DEF PaneIInv, IInv, ClientTypeOK
<1>3. PICK f \in Seq(Nat), t \in Seq(Nat), s \in Seq(Nat), w \in Nat, l \in Seq(Nat) :
        f = pane[v].first /\ t = pane[v].text /\ s = pane[v].screen
          /\ w = pane[v].written /\ l = view[v].log
  BY <1>2, PaneTypes
<1>4. pane[v] \in Panes
  BY <1>2, PaneTypes
<1>5. /\ pane[v].state # "ready" => s = <<>> /\ w = 0
      /\ snapshots[v] <= 1 => StartOf(f, t) /\ StartOf(t, l) /\ StartOf(s, t) /\ w = Len(s)
      /\ snapshots[v] = 0 => view[v].log = <<>> /\ link[v] # "live"
  BY <1>2, <1>3 DEF PaneInv, GrowingInv, TextsInv
<1>6. ASSUME NEW q \in Panes, pane' = [pane EXCEPT ![v] = q],
             q.state # "ready" => q.screen = <<>> /\ q.written = 0,
             snapshots[v] <= 1 => /\ StartOf(q.first, q.text) /\ StartOf(q.text, l)
                                  /\ StartOf(q.screen, q.text) /\ q.written = Len(q.screen)
      PROVE  PaneTypeOK' /\ \A u \in Viewers : PaneInv(u)'
  <2>1. PaneTypeOK' /\ pane'[v] = q
    BY <1>2, <1>6 DEF PaneTypeOK
  <2>2. PaneInv(v)'
    BY <1>1, <1>3, <1>5, <1>6, <2>1 DEF PaneInv, GrowingInv, TextsInv
  <2>3. ASSUME NEW u \in Viewers, u # v PROVE PaneInv(u)'
    <3>1. pane'[u] = pane[u] /\ PaneInv(u)
      BY <1>2, <1>6, <2>3 DEF PaneTypeOK, PaneIInv
    <3> QED BY <1>1, <3>1 DEF PaneInv, GrowingInv, TextsInv
  <2> QED BY <2>1, <2>2, <2>3
<1>7. CASE Mount(v)
  <2>1. PICK q : q = [pane[v] EXCEPT !.state = "loading", !.first = l, !.text = l]
    OBVIOUS
  <2>2. pane[v].state = "absent" /\ pane' = [pane EXCEPT ![v] = q]
    BY <1>3, <1>7, <2>1 DEF Mount
  <2>3. /\ q \in Panes /\ q.state = "loading" /\ q.first = l /\ q.text = l
        /\ q.written = w /\ q.screen = s
    BY <1>3, <1>4, <2>1 DEF Panes
  <2>4. s = <<>> /\ w = 0 /\ Len(s) = 0 /\ StartOf(s, l) /\ StartOf(l, l)
    BY <1>5, <2>2, StartOfItself, EmptyStarts
  <2> QED BY <1>1, <1>6, <2>2, <2>3, <2>4
<1>8. CASE Render(v) /\ pane[v].state = "ready"
  <2>1. PICK r \in Seq(Nat) : r = s \o SubSeq(l, w + 1, Len(l))
    <3>1. SubSeq(l, w + 1, Len(l)) \in Seq(Nat)
      BY SMT
    <3>2. s \o SubSeq(l, w + 1, Len(l)) \in Seq(Nat)
      BY <3>1
    <3> QED BY <3>2
  <2>2. PICK q : q = [WriteRest(pane[v], l) EXCEPT !.text = l]
    OBVIOUS
  <2>3. pane' = [pane EXCEPT ![v] = q]
    BY <1>3, <1>8, <2>2 DEF Render
  <2>4. /\ q \in Panes /\ q.state = "ready" /\ q.first = f /\ q.text = l
        /\ q.written = Len(l) /\ q.screen = r
    <3>1. WriteRest(pane[v], l) = [pane[v] EXCEPT !.screen = r, !.written = Len(l)]
      BY <1>3, <2>1 DEF WriteRest
    <3>2. PICK z : z = WriteRest(pane[v], l)
      OBVIOUS
    <3>3. /\ z \in Panes /\ z.state = "ready" /\ z.first = f
          /\ z.written = Len(l) /\ z.screen = r
      <4>1. PICK p \in Panes : p = pane[v] /\ p.first = f /\ p.state = "ready"
        BY <1>3, <1>4, <1>8
      <4>2. z = [p EXCEPT !.screen = r, !.written = Len(l)] /\ Len(l) \in Nat
        BY <3>1, <3>2, <4>1
      <4> QED BY <4>1, <4>2 DEF Panes
    <3>4. q = [z EXCEPT !.text = l]
      BY <2>2, <3>2
    <3> QED BY <3>3, <3>4 DEF Panes
  <2>5. ASSUME snapshots[v] <= 1
        PROVE  StartOf(f, l) /\ StartOf(r, l) /\ StartOf(l, l) /\ Len(l) = Len(r)
    <3>1. StartOf(f, l) /\ StartOf(s, l) /\ w = Len(s)
      BY <1>5, <2>5, StartOfTransitive
    <3>2. r = l
      BY <2>1, <3>1, RestWritten
    <3> QED BY <3>1, <3>2, StartOfItself
  <2> QED BY <1>1, <1>6, <2>3, <2>4, <2>5
<1>9. CASE Render(v) /\ pane[v].state # "ready"
  <2>1. PICK q : q = [pane[v] EXCEPT !.text = l]
    OBVIOUS
  <2>2. pane' = [pane EXCEPT ![v] = q]
    BY <1>3, <1>9, <2>1 DEF Render
  <2>3. /\ q \in Panes /\ q.state # "ready" /\ q.first = f /\ q.text = l
        /\ q.written = w /\ q.screen = s
    BY <1>3, <1>4, <1>9, <2>1 DEF Panes
  <2>4. s = <<>> /\ w = 0 /\ Len(s) = 0 /\ StartOf(s, l) /\ StartOf(l, l)
    BY <1>5, <1>9, StartOfItself, EmptyStarts
  <2>5. snapshots[v] <= 1 => StartOf(f, l)
    BY <1>5, StartOfTransitive
  <2> QED BY <1>1, <1>6, <2>2, <2>3, <2>4, <2>5
<1>10. CASE Loads(v)
  <2>1. pane[v].state = "loading" /\ s = <<>> /\ w = 0
    BY <1>5, <1>10 DEF Loads
  <2>2. s \o SubSeq(f, w + 1, Len(f)) = f
    BY <2>1, EmptyStarts, RestWritten
  <2>3. PICK q : q = [WriteRest(pane[v], f) EXCEPT !.state = "ready"]
    OBVIOUS
  <2>4. pane' = [pane EXCEPT ![v] = q]
    BY <1>3, <1>10, <2>3 DEF Loads
  <2>5. /\ q \in Panes /\ q.state = "ready" /\ q.first = f /\ q.text = t
        /\ q.written = Len(f) /\ q.screen = f
    <3>1. WriteRest(pane[v], f) = [pane[v] EXCEPT !.screen = f, !.written = Len(f)]
      BY <1>3, <2>2 DEF WriteRest
    <3>2. PICK z : z = WriteRest(pane[v], f)
      OBVIOUS
    <3>3. /\ z \in Panes /\ z.text = t /\ z.first = f
          /\ z.written = Len(f) /\ z.screen = f
      <4>1. PICK p \in Panes : p = pane[v] /\ p.first = f /\ p.text = t
        BY <1>3, <1>4
      <4>2. z = [p EXCEPT !.screen = f, !.written = Len(f)] /\ Len(f) \in Nat
        BY <3>1, <3>2, <4>1
      <4> QED BY <4>1, <4>2 DEF Panes
    <3>4. q = [z EXCEPT !.state = "ready"]
      BY <2>3, <3>2
    <3> QED BY <3>3, <3>4 DEF Panes
  <2> QED BY <1>1, <1>5, <1>6, <2>4, <2>5
<1> QED BY <1>1, <1>7, <1>8, <1>9, <1>10 DEF Page

LEMMA PaneInitIInv == PaneInit => PaneIInv
<1> SUFFICES ASSUME PaneInit PROVE PaneIInv
  OBVIOUS
<1>1. IInv
  BY InitIInv DEF PaneInit
<1>2. PaneTypeOK
  BY DEF PaneInit, PaneTypeOK, Panes
<1>3. ASSUME NEW v \in Viewers PROVE PaneInv(v)
  <2>1. /\ view[v].log = <<>> /\ link[v] = "waiting"
        /\ pane[v].state = "absent" /\ pane[v].first = <<>> /\ pane[v].text = <<>>
        /\ pane[v].written = 0 /\ pane[v].screen = <<>>
    BY DEF PaneInit, Init
  <2>2. StartOf(<<>>, <<>>) /\ Len(<<>>) = 0
    BY DEF StartOf
  <2> QED BY <2>1, <2>2 DEF PaneInv, GrowingInv, TextsInv
<1> QED BY <1>1, <1>2, <1>3 DEF PaneIInv

LEMMA PaneNextIInv == PaneIInv /\ [PaneNext]_<<vars, pane>> => PaneIInv'
<1> SUFFICES ASSUME PaneIInv, [PaneNext]_<<vars, pane>> PROVE PaneIInv'
  OBVIOUS
<1>1. ASSUME [Next]_vars, UNCHANGED pane PROVE PaneIInv'
  <2>1. IInv' /\ PaneTypeOK'
    BY <1>1, NextIInv DEF PaneIInv, PaneTypeOK
  <2>2. ASSUME NEW v \in Viewers PROVE PaneInv(v)'
    BY <1>1, ConnectionUnderPane
  <2> QED BY <2>1, <2>2 DEF PaneIInv
<1>2. ASSUME NEW v \in Viewers, Page(v) PROVE PaneIInv'
  <2>1. UNCHANGED vars /\ PaneTypeOK' /\ \A w \in Viewers : PaneInv(w)'
    BY <1>2, PageStep
  <2>2. IInv'
    BY <2>1, NextIInv DEF PaneIInv
  <2> QED BY <2>1, <2>2 DEF PaneIInv
<1>3. CASE UNCHANGED <<vars, pane>>
  BY <1>1, <1>3
<1> QED BY <1>1, <1>2, <1>3 DEF PaneNext

THEOREM PaneInvariance == PaneSpec => []PaneIInv
BY PaneInitIInv, PaneNextIInv, PTL DEF PaneSpec

\* Every variable of the terminal keeps its type.
THEOREM PaneKeepsItsType == PaneSpec => []PaneTypeOK
<1>1. PaneIInv => PaneTypeOK
  BY DEF PaneIInv
<1> QED BY <1>1, PaneInvariance, PTL

\* Whenever the terminal finishes loading, and whatever is rendered before, it
\* shows a beginning of the log until a second snapshot comes.
THEOREM FirstScreenIsABeginning == PaneSpec => []ScreenIsABeginning
<1>1. PaneIInv => ScreenIsABeginning
  <2> SUFFICES ASSUME PaneIInv, NEW v \in Viewers, snapshots[v] <= 1
               PROVE  /\ Len(pane[v].screen) <= Len(view[v].log)
                      /\ \A i \in DOMAIN pane[v].screen :
                           pane[v].screen[i] = view[v].log[i]
    BY DEF ScreenIsABeginning
  <2>1. /\ StartOf(pane[v].screen, pane[v].text) /\ StartOf(pane[v].text, view[v].log)
    BY DEF PaneIInv, PaneInv, TextsInv
  <2>2. /\ pane[v].screen \in Seq(Nat) /\ pane[v].text \in Seq(Nat)
        /\ view[v].log \in Seq(Nat) /\ DOMAIN pane[v].screen = 1..Len(pane[v].screen)
    BY PaneTypes, ViewTypes, TypeParts DEF PaneIInv, IInv
  <2>3. StartOf(pane[v].screen, view[v].log)
    BY <2>1, <2>2, StartOfTransitive
  <2> QED BY <2>2, <2>3 DEF StartOf
<1> QED BY <1>1, PaneInvariance, PTL

\* The page runs on the connection as LiveView has it: what is proved of Spec
\* is proved of the page, too.
THEOREM PaneRunsOnTheConnection == PaneSpec => Spec
<1>1. PaneInit => Init
  BY DEF PaneInit
<1>2. [PaneNext]_<<vars, pane>> => [Next]_vars
  <2>1. ASSUME NEW v \in Viewers, Page(v) PROVE UNCHANGED vars
    BY <2>1 DEF Page, Mount, Render, Loads
  <2> QED BY <2>1 DEF PaneNext
<1> QED BY <1>1, <1>2, PTL DEF PaneSpec, Spec
=============================================================================
