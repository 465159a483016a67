-------------------------- MODULE InvocationProofs --------------------------
(***************************************************************************)
(* What `ebl build` promises before it talks to Docker, for any number of  *)
(* invocations, any command lines, any checkout and anything typed: the    *)
(* inductive invariant is the conjunction of the parts below.              *)
(***************************************************************************)
EXTENDS Invocation, Extremes, TLAPS

Fields == {"path", "prod", "artifact", "profile", "engine", "release", "keystore", "keyAlias",
           "expoToken", "other", "json", "logs", "tui"}
Bytes == {"ESC", "[", "A", "B", "O", "P", "3", "~", "ETX", "newline"} \cup Words
GitLines == Seq(STRING) \cup {Entry, <<>>}
Asking == Menus \cup (Prompts \ {"token", "save"})
Places == {"idle", "validate", "started"} \cup Menus \cup Prompts \cup Saving

\* Types.
TerminalTypes ==
    /\ queue \in [Invocations -> Seq(Bytes)] /\ arriving \in [Invocations -> Seq(Bytes)]
    /\ stdio \in [Invocations -> Seq(Bytes)]
    /\ reading \in [Invocations -> {"no", "first", "escape", "bracket"}]

Types ==
    /\ place \in DOMAIN Worlds
    /\ main \in [Invocations -> Places]
    /\ DOMAIN opts = Invocations /\ \A i \in Invocations : DOMAIN opts[i] = Fields
    /\ DOMAIN exit = Invocations /\ DOMAIN selected = Invocations
    /\ DOMAIN token = Invocations /\ DOMAIN append = Invocations
    /\ gitignore.lines \in Seq(GitLines)

\* The wizard: at question p with the options o and the choice s of a menu.
Placed(p, o, s) ==
    /\ p \in Asking => o.tui
    /\ p \in Menus => s \in 1..Len(Options(p))
    /\ p = "profile name" => Detect.profiles = <<>>
    /\ o.tui /\ p \notin {"idle", "artifact", "profile", "profile name"} /\ Detect.profiles # <<>> =>
          o.profile \in Range(Detect.profiles)

\* --json passes no question; e is the exit code, and said that it was printed.
Silent(p, o, e, said) ==
    /\ o.json => p \in {"idle", "validate", "started"}
    /\ p = "idle" /\ e = "none" => ~o.json
    /\ o.json /\ e = "2" => said

\* What was found valid is still valid when the token t has been saved.
Accepted(p, o, t) ==
    /\ p \in {"token", "save"} \cup Saving => ~Invalid(o)
    /\ p \in {"save"} \cup Saving => t # ""

WellFormed(o, t) ==
    /\ ArtifactOf(o) \in {"apk", "aab"}
    /\ o.engine \in {"auto", "gradle", "eas"}
    /\ o.release => o.keystore \in world.keystores
    /\ NeedsToken(o) => t # ""
    /\ (o.tui \/ (o.profile = "none" /\ ~o.prod)) /\ Detect.profiles # <<>> =>
          Profile(o) \in Range(Detect.profiles)

SafeAs(p, o, s, t, e, said) ==
    /\ Placed(p, o, s) /\ Silent(p, o, e, said) /\ Accepted(p, o, t)
    /\ p = "started" => WellFormed(o, t)

Safe(i) == SafeAs(main[i], opts[i], selected[i], token[i], exit[i], i \in answered)

\* An ESC that waits or arrives is followed by its bracket.
Bracketed(waiting, coming) ==
    \A n \in 1..Len(waiting) : waiting[n] = "ESC" =>
        IF n < Len(waiting) THEN waiting[n + 1] = "[" ELSE coming # <<>> /\ coming[1] = "["
Complete(coming) == \A n \in 1..Len(coming) : coming[n] = "ESC" => n < Len(coming) /\ coming[n + 1] = "["
BracketIsNext(waiting, coming) ==
    IF waiting # <<>> THEN waiting[1] = "[" ELSE coming # <<>> /\ coming[1] = "["

SequencesAreWhole(i) ==
    /\ Bracketed(queue[i], arriving[i])
    /\ Complete(arriving[i])
    /\ reading[i] = "escape" => BracketIsNext(queue[i], arriving[i])

\* Where no Escape was pressed and every sequence came in time, none is taken for Escape.
Heard(i) ==
    \/ i \in escaped \cup split
    \/ /\ exit[i] = "none" => SequencesAreWhole(i)
       /\ exit[i] = "130" => main[i] \notin Menus

\* The token file, and what stands in .gitignore or is going to.
Ignored ==
    /\ tokenFile # "absent" =>
          \/ Entry \in Range(gitignore.lines)
          \/ world.ignoreReadOnly
          \/ \E i \in Invocations : main[i] \in Saving \ {"opening"}
    /\ \A i \in Invocations : main[i] = "appending" =>
          /\ append[i] \in {"entry", "newline and entry"}
          /\ append[i] = "entry" => gitignore.ended \/ gitignore.lines = <<>>
    /\ Range(world.gitignore.lines) \subseteq Range(gitignore.lines)

IInv == TerminalTypes /\ Types /\ Ignored /\ \A i \in Invocations : Safe(i) /\ Heard(i)

\* What one invocation, its terminal or its user does.
StepOf(i) == (\E argv \in world.argvs[i] : Invoke(i, argv)) \/ Step(i) \/ Type(i) \/ Interrupt(i)

-----------------------------------------------------------------------------
(* The arguments.                                                          *)

\* The recursion of ParsedUpTo has a solution: by the least number up to which
\* it had none.
LEMMA ParseIsDefined ==
    ASSUME NEW argv, Len(argv) \in Nat
    PROVE  ParsedUpTo(argv) = [n \in 0..Len(argv) |->
             IF n = 0 THEN NothingParsed ELSE ParseArg(argv[n], ParsedUpTo(argv)[n - 1])]
<1> DEFINE Is(f, k) == f = [n \in 0..k |-> IF n = 0 THEN NothingParsed ELSE ParseArg(argv[n], f[n - 1])]
<1>1. \A k \in 0..Len(argv) : \E f : Is(f, k)
  <2> DEFINE Without == {k \in 0..Len(argv) : ~\E f : Is(f, k)}
  <2>1. SUFFICES ASSUME Without # {} PROVE FALSE
    OBVIOUS
  <2>2. PICK k \in Without : \A m \in Without : k <= m
    <3>1. Without \subseteq Nat
      OBVIOUS
    <3> HIDE DEF Without
    <3>2. QED
      BY <2>1, <3>1, LeastExists
  <2>3. CASE k = 0
    <3>1. Is([n \in 0..0 |-> NothingParsed], 0)
      OBVIOUS
    <3>2. QED
      BY <2>3, <3>1
  <2>4. CASE k # 0
    <3>1. k - 1 \in 0..Len(argv) /\ ~(k <= k - 1)
      BY <2>4
    <3>2. PICK f : Is(f, k - 1)
      BY <2>2, <3>1
    <3> DEFINE g == [n \in 0..k |-> IF n = k THEN ParseArg(argv[k], f[k - 1]) ELSE f[n]]
    <3>3. Is(g, k)
      BY <2>4, <3>2
    <3>4. QED
      BY <3>3
  <2>5. QED
    BY <2>3, <2>4
<1>2. ParsedUpTo(argv) = CHOOSE f : Is(f, Len(argv))
  BY DEF ParsedUpTo
<1> HIDE DEF Is
<1>3. PICK f : Is(f, Len(argv))
  <2>1. Len(argv) \in 0..Len(argv)
    OBVIOUS
  <2>2. QED
    BY <1>1, <2>1
<1>4. Is(ParsedUpTo(argv), Len(argv))
  BY <1>2, <1>3
<1>5. QED
  BY <1>4 DEF Is

\* An argument changes the value of an option and leaves all the others there.
LEMMA ArgIsParsed ==
    ASSUME NEW s, DOMAIN s = {"opts", "end", "wants", "positional"}, DOMAIN s.opts = Fields, NEW arg
    PROVE  LET u == ParseArg(arg, s) IN DOMAIN u = {"opts", "end", "wants", "positional"} /\ DOMAIN u.opts = Fields
<1> DEFINE Good(u) == DOMAIN u = {"opts", "end", "wants", "positional"} /\ DOMAIN u.opts = Fields
<1>1. Good(s)
  OBVIOUS
<1>2. \A v : /\ Good([s EXCEPT !.end = v]) /\ Good([s EXCEPT !.wants = v])
             /\ \A w : Good([s EXCEPT !.opts[w] = v])
             /\ Good([s EXCEPT !.opts[s.wants] = v, !.wants = "none"])
             /\ Good([s EXCEPT !.opts.path = v, !.positional = TRUE])
  OBVIOUS
<1> HIDE DEF Good
<1>3. Good(ParseArg(arg, s))
  BY <1>1, <1>2 DEF ParseArg
<1>4. QED
  BY <1>3 DEF Good

LEMMA ArgumentsAreParsed ==
    ASSUME NEW argv, Len(argv) \in Nat
    PROVE  DOMAIN ParseArgs(argv).opts = Fields
<1> DEFINE Good(u) == DOMAIN u = {"opts", "end", "wants", "positional"} /\ DOMAIN u.opts = Fields
<1>1. \A n \in 0..Len(argv) :
         ParsedUpTo(argv)[n] = IF n = 0 THEN NothingParsed ELSE ParseArg(argv[n], ParsedUpTo(argv)[n - 1])
  BY ParseIsDefined
<1>2. Good(NothingParsed)
  BY DEF NothingParsed, Defaults, Fields
<1>3. \A s, arg : Good(s) => Good(ParseArg(arg, s))
  BY ArgIsParsed
<1>4. \A s, v : Good(s) => Good([s EXCEPT !.end = v])
  OBVIOUS
<1>5. \A s : Good(s) => DOMAIN s.opts = Fields
  OBVIOUS
<1> HIDE DEF Good
<1>6. \A n \in 0..Len(argv) : Good(ParsedUpTo(argv)[n])
  <2> DEFINE Without == {n \in 0..Len(argv) : ~Good(ParsedUpTo(argv)[n])}
  <2>1. SUFFICES ASSUME Without # {} PROVE FALSE
    OBVIOUS
  <2>2. PICK n \in Without : \A m \in Without : n <= m
    <3>1. Without \subseteq Nat
      OBVIOUS
    <3> HIDE DEF Without
    <3>2. QED
      BY <2>1, <3>1, LeastExists
  <2>3. n # 0
    BY <1>1, <1>2
  <2>4. n - 1 \in 0..Len(argv) /\ ~(n <= n - 1)
    BY <2>3
  <2>5. Good(ParsedUpTo(argv)[n - 1])
    BY <2>2, <2>4
  <2>6. QED
    BY <1>1, <1>3, <2>3, <2>5
<1>7. Good(ParsedUpTo(argv)[Len(argv)])
  <2>1. Len(argv) \in 0..Len(argv)
    OBVIOUS
  <2>2. QED
    BY <1>6, <2>1
<1>8. QED
  BY <1>4, <1>5, <1>7 DEF ParseArgs

-----------------------------------------------------------------------------
(* The bytes of the keys, and what is left of them.                        *)

LEMMA KeyBytes ==
    ASSUME NEW key \in DOMAIN BytesOf
    PROVE  /\ BytesOf[key] \in Seq(Bytes)
           /\ key \notin {"escape", "f1"} => Complete(BytesOf[key])
<1>1. DOMAIN Keys = {"up", "down", "delete", "escape", "f1", "ctrlC", "enter"}
  BY DEF Keys
<1>2. ASSUME key \in {"up", "down", "delete"} PROVE Keys[key] \in Seq(Bytes) /\ Complete(Keys[key])
  <2>1. CASE key = "up"
    BY <2>1 DEF Keys, Bytes, Complete
  <2>2. CASE key = "down"
    BY <2>2 DEF Keys, Bytes, Complete
  <2>3. CASE key = "delete"
    BY <2>3 DEF Keys, Bytes, Complete
  <2>4. QED
    BY <1>2, <2>1, <2>2, <2>3
<1>3. ASSUME key \in {"ctrlC", "enter"} PROVE Keys[key] \in Seq(Bytes) /\ Complete(Keys[key])
  <2>1. CASE key = "ctrlC"
    BY <2>1 DEF Keys, Bytes, Complete
  <2>2. CASE key = "enter"
    BY <2>2 DEF Keys, Bytes, Complete
  <2>3. QED
    BY <1>3, <2>1, <2>2
<1>4. ASSUME key \in {"escape", "f1"} PROVE Keys[key] \in Seq(Bytes)
  <2>1. CASE key = "escape"
    BY <2>1 DEF Keys, Bytes
  <2>2. CASE key = "f1"
    BY <2>2 DEF Keys, Bytes
  <2>3. QED
    BY <1>4, <2>1, <2>2
<1>5. ASSUME key \in Words, key \notin DOMAIN Keys PROVE BytesOf[key] \in Seq(Bytes) /\ Complete(BytesOf[key])
  <2>1. BytesOf[key] = <<key>> /\ key # "ESC" /\ key \in Bytes
    BY <1>5, TerminalAssumption DEF BytesOf, Bytes
  <2>2. QED
    BY <2>1 DEF Complete
<1>6. key \in DOMAIN Keys => BytesOf[key] = Keys[key]
  BY DEF BytesOf
<1>7. key \in DOMAIN Keys \/ key \in Words
  BY DEF BytesOf
<1>8. QED
  BY <1>1, <1>2, <1>3, <1>4, <1>5, <1>6, <1>7

\* Reading from the front of what waits parts no ESC from its bracket.
LEMMA Dropped ==
    ASSUME NEW q \in Seq(Bytes), NEW a, NEW k \in 0..Len(q), Bracketed(q, a)
    PROVE  SubSeq(q, k + 1, Len(q)) \in Seq(Bytes) /\ Bracketed(SubSeq(q, k + 1, Len(q)), a)
<1> DEFINE rest == SubSeq(q, k + 1, Len(q))
<1>1. Len(q) \in Nat
  OBVIOUS
<1>2. rest \in Seq(Bytes) /\ Len(rest) = Len(q) - k /\ \A n \in 1..Len(rest) : rest[n] = q[n + k]
  <2>1. \A n \in (k + 1)..Len(q) : n \in 1..Len(q)
    OBVIOUS
  <2>2. QED
    BY <1>1, <2>1
<1> HIDE DEF rest
<1>3. ASSUME NEW n \in 1..Len(rest), rest[n] = "ESC"
      PROVE  IF n < Len(rest) THEN rest[n + 1] = "[" ELSE a # <<>> /\ a[1] = "["
  <2>1. n + k \in 1..Len(q) /\ q[n + k] = "ESC"
    BY <1>1, <1>2, <1>3
  <2>2. CASE n < Len(rest)
    <3>1. n + k < Len(q) /\ n + 1 \in 1..Len(rest) /\ (n + 1) + k = (n + k) + 1
      BY <1>1, <1>2, <2>2
    <3>2. QED
      BY <1>2, <2>1, <2>2, <3>1 DEF Bracketed
  <2>3. CASE ~(n < Len(rest))
    <3>1. ~(n + k < Len(q))
      BY <1>1, <1>2, <2>3
    <3>2. QED
      BY <2>1, <2>3, <3>1 DEF Bracketed
  <2>4. QED
    BY <2>2, <2>3
<1>4. QED
  BY <1>2, <1>3 DEF Bracketed, rest

LEMMA FirstDropped ==
    ASSUME NEW q \in Seq(Bytes), NEW a, q # <<>>, Bracketed(q, a)
    PROVE  /\ Tail(q) \in Seq(Bytes) /\ Bracketed(Tail(q), a)
           /\ Head(q) = "ESC" => BracketIsNext(Tail(q), a)
<1>1. 1 \in 0..Len(q) /\ 1 \in 1..Len(q) /\ Head(q) = q[1] /\ Len(q) \in Nat
  OBVIOUS
<1>2. Tail(q) \in Seq(Bytes) /\ Len(Tail(q)) = Len(q) - 1 /\ \A n \in 1..Len(Tail(q)) : Tail(q)[n] = q[n + 1]
  OBVIOUS
<1>3. Bracketed(Tail(q), a)
  <2>1. 1 + 1 = 2 /\ Tail(q) = SubSeq(q, 2, Len(q))
    OBVIOUS
  <2>2. Bracketed(SubSeq(q, 1 + 1, Len(q)), a)
    BY <1>1, Dropped
  <2>3. QED
    BY <2>1, <2>2
<1>4. ASSUME Head(q) = "ESC" PROVE BracketIsNext(Tail(q), a)
  <2>1. CASE 1 < Len(q)
    <3>1. 1 \in 1..Len(Tail(q)) /\ Len(Tail(q)) # 0
      BY <1>1, <1>2, <2>1
    <3>2. Tail(q) # <<>>
      <4> DEFINE t == Tail(q)
      <4>1. Len(t) # 0
        BY <3>1
      <4> HIDE DEF t
      <4>2. t # <<>>
        BY <4>1
      <4>3. QED
        BY <4>2 DEF t
    <3>3. QED
      BY <1>1, <1>2, <1>4, <2>1, <3>1, <3>2 DEF Bracketed, BracketIsNext
  <2>2. CASE ~(1 < Len(q))
    <3>1. Tail(q) = <<>>
      BY <1>1, <1>2, <2>2
    <3>2. QED
      BY <1>1, <1>4, <2>2, <3>1 DEF Bracketed, BracketIsNext
  <2>3. QED
    BY <2>1, <2>2
<1>5. QED
  BY <1>2, <1>3, <1>4

\* A byte that arrives waits behind the others.
LEMMA Arrived ==
    ASSUME NEW q \in Seq(Bytes), NEW a \in Seq(Bytes), a # <<>>, Bracketed(q, a), Complete(a)
    PROVE  /\ Bracketed(Append(q, Head(a)), Tail(a)) /\ Complete(Tail(a))
           /\ BracketIsNext(q, a) => BracketIsNext(Append(q, Head(a)), Tail(a))
<1> DEFINE r == Append(q, Head(a))
           b == Tail(a)
<1>1. Len(q) \in Nat /\ Len(a) \in Nat \ {0} /\ Head(a) = a[1]
  OBVIOUS
<1>2. Len(r) = Len(q) + 1 /\ r[Len(q) + 1] = a[1] /\ \A n \in 1..Len(q) : r[n] = q[n]
  OBVIOUS
<1>3. Len(b) = Len(a) - 1 /\ \A n \in 1..Len(b) : b[n] = a[n + 1]
  OBVIOUS
<1>4. q = <<>> <=> Len(q) = 0
  OBVIOUS
<1> HIDE DEF r, b
<1>5. (Len(a) # 1 => b # <<>>) /\ r # <<>>
  <2>1. (Len(a) # 1 => Len(b) # 0) /\ Len(r) # 0
    BY <1>1, <1>2, <1>3
  <2>2. QED
    BY <2>1
<1>6. ASSUME NEW n \in 1..Len(r), r[n] = "ESC"
      PROVE  IF n < Len(r) THEN r[n + 1] = "[" ELSE b # <<>> /\ b[1] = "["
  <2>1. CASE n < Len(q)
    <3>1. n \in 1..Len(q) /\ n + 1 \in 1..Len(q) /\ n < Len(r)
      BY <1>1, <1>2, <2>1
    <3>2. QED
      BY <1>2, <1>6, <2>1, <3>1 DEF Bracketed
  <2>2. CASE n = Len(q)
    <3>1. n \in 1..Len(q) /\ ~(n < Len(q)) /\ n < Len(r)
      BY <1>1, <1>2, <2>2
    <3>2. QED
      BY <1>2, <1>6, <2>2, <3>1 DEF Bracketed
  <2>3. CASE n = Len(q) + 1
    <3>1. a[1] = "ESC" /\ 1 \in 1..Len(a)
      BY <1>1, <1>2, <1>6, <2>3
    <3>2. 1 < Len(a) /\ a[2] = "["
      BY <3>1 DEF Complete
    <3>3. 1 \in 1..Len(b)
      BY <1>1, <1>3, <3>2
    <3>4. b[1] = a[1 + 1] /\ 1 + 1 = 2
      BY <1>3, <3>3
    <3>5. ~(n < Len(r)) /\ Len(a) # 1
      BY <1>1, <1>2, <2>3, <3>2
    <3>6. QED
      BY <1>5, <3>2, <3>4, <3>5
  <2>4. QED
    BY <1>1, <1>2, <2>1, <2>2, <2>3
<1>7. ASSUME NEW n \in 1..Len(b), b[n] = "ESC" PROVE n < Len(b) /\ b[n + 1] = "["
  <2>1. n + 1 \in 1..Len(a) /\ a[n + 1] = "ESC"
    BY <1>1, <1>3, <1>7
  <2>2. n + 1 < Len(a) /\ a[(n + 1) + 1] = "["
    BY <2>1 DEF Complete
  <2>3. n + 1 \in 1..Len(b)
    BY <1>1, <1>3, <2>2
  <2>4. QED
    BY <1>1, <1>3, <2>2, <2>3
<1>8. ASSUME BracketIsNext(q, a) PROVE BracketIsNext(r, b)
  <2>1. CASE q = <<>>
    <3>1. r[1] = a[1]
      BY <1>2, <1>4, <2>1
    <3>2. QED
      BY <1>5, <1>8, <2>1, <3>1 DEF BracketIsNext
  <2>2. CASE q # <<>>
    <3>1. 1 \in 1..Len(q)
      BY <1>1, <1>4, <2>2
    <3>2. QED
      BY <1>2, <1>5, <1>8, <2>2, <3>1 DEF BracketIsNext
  <2>3. QED
    BY <2>1, <2>2
<1>9. QED
  BY <1>6, <1>7, <1>8 DEF Bracketed, Complete, r, b

-----------------------------------------------------------------------------
(* What the steps do to the terminal.                                      *)

\* The terminal of i alone changes, its history grows, and if i is still waited
\* for and nothing happened on it that is history, no ESC was parted.
KeepsWhole(i) ==
    /\ TerminalTypes'
    /\ escaped \cup split \subseteq escaped' \cup split'
    /\ (i \notin escaped' \cup split' /\ exit'[i] = "none" /\ SequencesAreWhole(i)) => SequencesAreWhole(i)'
    /\ \A q \in Invocations \ {i} :
          queue'[q] = queue[q] /\ arriving'[q] = arriving[q] /\ reading'[q] = reading[q]

LEMMA ReadByteTypes ==
    ASSUME TerminalTypes, NEW i \in Invocations, ReadByte(i)
    PROVE  /\ queue' \in [Invocations -> Seq(Bytes)]
           /\ queue'[i] = Tail(queue[i]) /\ queue[i] \in Seq(Bytes) /\ queue[i] # <<>>
           /\ \A q \in Invocations \ {i} : queue'[q] = queue[q]
<1>1. queue[i] \in Seq(Bytes) /\ queue[i] # <<>> /\ queue \in [Invocations -> Seq(Bytes)]
  BY DEF TerminalTypes, ReadByte
<1>2. Tail(queue[i]) \in Seq(Bytes)
  BY <1>1
<1>3. queue' = [queue EXCEPT ![i] = Tail(queue[i])]
  BY DEF ReadByte
<1>4. QED
  BY <1>1, <1>2, <1>3

LEMMA PressKeepsWhole ==
    ASSUME TerminalTypes, NEW i \in Invocations, NEW key \in DOMAIN BytesOf, Press(i, key)
    PROVE  KeepsWhole(i)
<1>1. BytesOf[key] \in Seq(Bytes) /\ (key \notin {"escape", "f1"} => Complete(BytesOf[key]))
  BY KeyBytes
<1>2. /\ arriving' = [arriving EXCEPT ![i] = BytesOf[key]] /\ arriving[i] = <<>>
      /\ queue' = queue /\ stdio' = stdio /\ reading' = reading /\ split' = split
      /\ escaped' = IF key \in {"escape", "f1"} THEN escaped \cup {i} ELSE escaped
  BY DEF Press
<1>3. TerminalTypes'
  BY <1>1, <1>2 DEF TerminalTypes
<1>4. /\ arriving'[i] = BytesOf[key]
      /\ \A q \in Invocations \ {i} :
            queue'[q] = queue[q] /\ arriving'[q] = arriving[q] /\ reading'[q] = reading[q]
  BY <1>2 DEF TerminalTypes
<1>5. escaped \cup split \subseteq escaped' \cup split'
  BY <1>2
<1>6. ASSUME i \notin escaped' \cup split', SequencesAreWhole(i) PROVE SequencesAreWhole(i)'
  <2>1. key \notin {"escape", "f1"}
    BY <1>2, <1>6
  <2>2. Complete(arriving[i])'
    BY <1>1, <1>4, <2>1 DEF Complete
  <2>3. Bracketed(queue[i], arriving[i])'
    BY <1>2, <1>6 DEF SequencesAreWhole, Bracketed
  <2>4. (reading[i] = "escape")' => BracketIsNext(queue[i], arriving[i])'
    BY <1>2, <1>6 DEF SequencesAreWhole, BracketIsNext
  <2>5. QED
    BY <2>2, <2>3, <2>4 DEF SequencesAreWhole
<1>7. QED
  BY <1>3, <1>4, <1>5, <1>6 DEF KeepsWhole

LEMMA ArrivalKeepsWhole ==
    ASSUME TerminalTypes, NEW i \in Invocations, ByteArrives(i)
    PROVE  KeepsWhole(i)
<1>1. /\ queue[i] \in Seq(Bytes) /\ arriving[i] \in Seq(Bytes) /\ arriving[i] # <<>>
      /\ queue \in [Invocations -> Seq(Bytes)] /\ arriving \in [Invocations -> Seq(Bytes)]
  BY DEF TerminalTypes, ByteArrives
<1>2. /\ queue' = [queue EXCEPT ![i] = Append(queue[i], Head(arriving[i]))]
      /\ arriving' = [arriving EXCEPT ![i] = Tail(arriving[i])]
      /\ stdio' = stdio /\ reading' = reading /\ split' = split /\ escaped' = escaped
  BY DEF ByteArrives
<1>3. Append(queue[i], Head(arriving[i])) \in Seq(Bytes) /\ Tail(arriving[i]) \in Seq(Bytes)
  BY <1>1
<1>4. /\ queue'[i] = Append(queue[i], Head(arriving[i])) /\ arriving'[i] = Tail(arriving[i])
      /\ \A q \in Invocations \ {i} :
            queue'[q] = queue[q] /\ arriving'[q] = arriving[q] /\ reading'[q] = reading[q]
      /\ queue' \in [Invocations -> Seq(Bytes)] /\ arriving' \in [Invocations -> Seq(Bytes)]
  BY <1>1, <1>2, <1>3
<1>5. TerminalTypes'
  BY <1>2, <1>4 DEF TerminalTypes
<1>6. ASSUME SequencesAreWhole(i) PROVE SequencesAreWhole(i)'
  <2>1. /\ Bracketed(Append(queue[i], Head(arriving[i])), Tail(arriving[i])) /\ Complete(Tail(arriving[i]))
        /\ BracketIsNext(queue[i], arriving[i]) =>
              BracketIsNext(Append(queue[i], Head(arriving[i])), Tail(arriving[i]))
    BY <1>1, <1>6, Arrived DEF SequencesAreWhole
  <2>2. Bracketed(queue'[i], arriving'[i]) /\ Complete(arriving'[i])
        /\ (BracketIsNext(queue[i], arriving[i]) => BracketIsNext(queue'[i], arriving'[i]))
    BY <1>4, <2>1
  <2>3. Bracketed(queue[i], arriving[i])' /\ Complete(arriving[i])'
        /\ (BracketIsNext(queue[i], arriving[i]) => BracketIsNext(queue[i], arriving[i])')
    BY <2>2 DEF Bracketed, Complete, BracketIsNext
  <2>4. QED
    BY <1>2, <1>6, <2>3 DEF SequencesAreWhole
<1>7. QED
  BY <1>2, <1>4, <1>5, <1>6 DEF KeepsWhole

LEMMA RawKeepsWhole ==
    ASSUME TerminalTypes, NEW i \in Invocations, EnterRaw(i)
    PROVE  KeepsWhole(i)
<1>1. /\ reading' = [reading EXCEPT ![i] = "first"]
      /\ queue' = queue /\ arriving' = arriving /\ stdio' = stdio /\ split' = split /\ escaped' = escaped
  BY DEF EnterRaw, typedVars
<1>2. TerminalTypes' /\ reading'[i] = "first" /\ \A q \in Invocations \ {i} : reading'[q] = reading[q]
  BY <1>1 DEF TerminalTypes
<1>3. SequencesAreWhole(i) => SequencesAreWhole(i)'
  BY <1>1, <1>2 DEF SequencesAreWhole, Bracketed, Complete
<1>4. QED
  BY <1>1, <1>2, <1>3 DEF KeepsWhole

LEMMA ReadMoreKeepsWhole ==
    ASSUME TerminalTypes, NEW i \in Invocations, ReadMore(i)
    PROVE  KeepsWhole(i)
<1>1. ReadByte(i) /\ stdio' = stdio /\ split' = split
      /\ \/ Head(queue[i]) = "ESC" /\ reading' = [reading EXCEPT ![i] = "escape"]
         \/ reading' = [reading EXCEPT ![i] = "bracket"]
  BY DEF ReadMore
<1>2. arriving' = arriving /\ escaped' = escaped
  BY <1>1 DEF ReadByte
<1>3. /\ queue' \in [Invocations -> Seq(Bytes)]
      /\ queue'[i] = Tail(queue[i]) /\ queue[i] \in Seq(Bytes) /\ queue[i] # <<>>
      /\ \A q \in Invocations \ {i} : queue'[q] = queue[q]
  BY <1>1, ReadByteTypes
<1>4. /\ TerminalTypes' /\ \A q \in Invocations \ {i} : reading'[q] = reading[q]
      /\ reading'[i] = "bracket" \/ (reading'[i] = "escape" /\ Head(queue[i]) = "ESC")
  BY <1>1, <1>2, <1>3 DEF TerminalTypes
<1>5. ASSUME SequencesAreWhole(i) PROVE SequencesAreWhole(i)'
  <2>1. /\ Bracketed(Tail(queue[i]), arriving[i])
        /\ Head(queue[i]) = "ESC" => BracketIsNext(Tail(queue[i]), arriving[i])
    BY <1>3, <1>5, FirstDropped DEF SequencesAreWhole
  <2>2. Bracketed(queue'[i], arriving'[i]) /\ (reading'[i] = "escape" => BracketIsNext(queue'[i], arriving'[i]))
    BY <1>2, <1>3, <1>4, <2>1
  <2>3. Bracketed(queue[i], arriving[i])' /\ ((reading[i] = "escape")' => BracketIsNext(queue[i], arriving[i])')
    BY <2>2 DEF Bracketed, BracketIsNext
  <2>4. Complete(arriving[i])'
    BY <1>2, <1>5 DEF SequencesAreWhole, Complete
  <2>5. QED
    BY <2>3, <2>4 DEF SequencesAreWhole
<1>6. QED
  BY <1>1, <1>2, <1>3, <1>4, <1>5 DEF KeepsWhole

\* A key has been read; Escape, where no ESC was parted, only if nothing came in
\* time of what still is to come.
LEMMA ReadKeyKeepsWhole ==
    ASSUME TerminalTypes, NEW i \in Invocations, NEW key, ReadKey(i, key)
    PROVE  KeepsWhole(i) /\ (key = "escape" /\ SequencesAreWhole(i) => i \in split')
<1>1. /\ reading' = [reading EXCEPT ![i] = "no"] /\ stdio' = stdio
      /\ arriving' = arriving /\ escaped' = escaped
  BY DEF ReadKey, LeaveRaw, TimesOut, BytesMakeKey, ReadByte, typedVars
<1>2. reading'[i] = "no" /\ (\A q \in Invocations \ {i} : reading'[q] = reading[q])
      /\ reading' \in [Invocations -> {"no", "first", "escape", "bracket"}]
  BY <1>1 DEF TerminalTypes
<1>3. CASE TimesOut(i, key)
  <2>1. /\ queue' = queue /\ queue[i] = <<>> /\ split \subseteq split'
        /\ (arriving[i] # <<>> => i \in split') /\ (key = "escape" => reading[i] = "escape")
    BY <1>3 DEF TimesOut, NothingMore, typedVars
  <2>2. TerminalTypes'
    BY <1>1, <1>2, <2>1 DEF TerminalTypes
  <2>3. SequencesAreWhole(i) => SequencesAreWhole(i)'
    BY <1>1, <1>2, <2>1 DEF SequencesAreWhole, Bracketed, Complete
  <2>4. key = "escape" /\ SequencesAreWhole(i) => i \in split'
    BY <2>1 DEF SequencesAreWhole, BracketIsNext
  <2>5. QED
    BY <1>1, <1>2, <2>1, <2>2, <2>3, <2>4 DEF KeepsWhole
<1>4. CASE BytesMakeKey(i, key)
  <2>1. /\ ReadByte(i) /\ split' = split /\ reading[i] # "no" /\ key = KeyOfByte(i, Head(queue[i]))
        /\ ~(reading[i] = "escape" /\ Head(queue[i]) = "[")
    BY <1>4 DEF BytesMakeKey
  <2>2. /\ queue' \in [Invocations -> Seq(Bytes)]
        /\ queue'[i] = Tail(queue[i]) /\ queue[i] \in Seq(Bytes) /\ queue[i] # <<>>
        /\ \A q \in Invocations \ {i} : queue'[q] = queue[q]
    BY <2>1, ReadByteTypes
  <2>3. TerminalTypes'
    BY <1>1, <1>2, <2>2 DEF TerminalTypes
  <2>4. ASSUME SequencesAreWhole(i) PROVE SequencesAreWhole(i)'
    <3>1. Bracketed(Tail(queue[i]), arriving[i])
      BY <2>2, <2>4, FirstDropped DEF SequencesAreWhole
    <3>2. Bracketed(queue'[i], arriving'[i])
      BY <1>1, <2>2, <3>1
    <3>3. Bracketed(queue[i], arriving[i])'
      BY <3>2 DEF Bracketed
    <3>4. Complete(arriving[i])'
      BY <1>1, <2>4 DEF SequencesAreWhole, Complete
    <3>5. QED
      BY <1>2, <3>3, <3>4 DEF SequencesAreWhole
  <2>5. ASSUME key = "escape", SequencesAreWhole(i) PROVE FALSE
    <3>1. reading[i] \in {"first", "escape", "bracket"}
      BY <2>1 DEF TerminalTypes
    <3>2. reading[i] = "escape"
      BY <2>1, <2>5, <3>1 DEF KeyOfByte
    <3>3. queue[i][1] = "[" /\ Head(queue[i]) = queue[i][1]
      BY <2>2, <2>5, <3>2 DEF SequencesAreWhole, BracketIsNext
    <3>4. QED
      BY <2>1, <3>2, <3>3
  <2>6. QED
    BY <1>1, <1>2, <2>1, <2>2, <2>3, <2>4, <2>5 DEF KeepsWhole
<1>5. QED
  BY <1>3, <1>4 DEF ReadKey

LEMMA FillKeepsWhole ==
    ASSUME TerminalTypes, NEW i \in Invocations, FillStdin(i)
    PROVE  KeepsWhole(i)
<1>1. /\ queue[i] \in Seq(Bytes) /\ stdio[i] \in Seq(Bytes) /\ reading[i] = "no"
      /\ queue \in [Invocations -> Seq(Bytes)] /\ stdio \in [Invocations -> Seq(Bytes)]
      /\ arriving' = arriving /\ reading' = reading /\ split' = split /\ escaped' = escaped
  BY DEF TerminalTypes, FillStdin
<1>2. PICK n \in 1..Len(queue[i]) :
         /\ stdio' = [stdio EXCEPT ![i] = stdio[i] \o SubSeq(queue[i], 1, n)]
         /\ queue' = [queue EXCEPT ![i] = SubSeq(queue[i], n + 1, Len(queue[i]))]
  <2> DEFINE m == Min(LineEnds(i))
  <2>1. LineEnds(i) # {} /\ LineEnds(i) \subseteq 1..Len(queue[i])
    BY DEF FillStdin, LineEnds
  <2>2. LineEnds(i) \subseteq Nat
    BY <2>1
  <2>3. m \in LineEnds(i)
    BY <2>1, <2>2, MinIsLeast
  <2>4. /\ stdio' = [stdio EXCEPT ![i] = stdio[i] \o SubSeq(queue[i], 1, m)]
        /\ queue' = [queue EXCEPT ![i] = SubSeq(queue[i], m + 1, Len(queue[i]))]
    BY DEF FillStdin
  <2> HIDE DEF m
  <2>5. QED
    BY <2>1, <2>3, <2>4
<1>3. n \in 0..Len(queue[i]) /\ SubSeq(queue[i], 1, n) \in Seq(Bytes)
  BY <1>1
<1>4. SubSeq(queue[i], n + 1, Len(queue[i])) \in Seq(Bytes)
  BY <1>1
<1>5. stdio[i] \o SubSeq(queue[i], 1, n) \in Seq(Bytes)
  BY <1>1, <1>3
<1>6. /\ queue'[i] = SubSeq(queue[i], n + 1, Len(queue[i]))
      /\ (\A q \in Invocations \ {i} : queue'[q] = queue[q])
      /\ queue' \in [Invocations -> Seq(Bytes)] /\ stdio' \in [Invocations -> Seq(Bytes)]
  BY <1>1, <1>2, <1>4, <1>5
<1>7. TerminalTypes'
  BY <1>1, <1>6 DEF TerminalTypes
<1>8. ASSUME SequencesAreWhole(i) PROVE SequencesAreWhole(i)'
  <2>1. Bracketed(SubSeq(queue[i], n + 1, Len(queue[i])), arriving[i])
    BY <1>1, <1>3, <1>8, Dropped DEF SequencesAreWhole
  <2>2. Bracketed(queue'[i], arriving'[i])
    BY <1>1, <1>6, <2>1
  <2>3. Bracketed(queue[i], arriving[i])'
    BY <2>2 DEF Bracketed
  <2>4. Complete(arriving[i])'
    BY <1>1, <1>8 DEF SequencesAreWhole, Complete
  <2>5. QED
    BY <1>1, <2>3, <2>4 DEF SequencesAreWhole
<1>9. QED
  BY <1>1, <1>6, <1>7, <1>8 DEF KeepsWhole

\* What is left of stdin when a line is taken from it is still what was typed.
LEMMA LineKeepsWhole ==
    ASSUME TerminalTypes, NEW i \in Invocations, NEW line, Line(i, line)
    PROVE  KeepsWhole(i)
<1>1. /\ queue' = queue /\ arriving' = arriving /\ reading' = reading /\ split' = split /\ escaped' = escaped
      /\ stdio' = stdio \/ GetLine(i, line)
  BY DEF Line, GetLine, typedVars
<1>2. stdio' \in [Invocations -> Seq(Bytes)]
  <2>1. CASE stdio' = stdio
    BY <2>1 DEF TerminalTypes
  <2>2. CASE GetLine(i, line)
    <3> DEFINE ends == {m \in DOMAIN stdio[i] : stdio[i][m] = "newline"}
               n == Min(ends)
    <3>1. stdio[i] \in Seq(Bytes) /\ stdio \in [Invocations -> Seq(Bytes)]
      BY DEF TerminalTypes
    <3>2. DOMAIN stdio[i] = 1..Len(stdio[i]) /\ Len(stdio[i]) \in Nat
      BY <3>1
    <3>3. ends # {} /\ ends \subseteq Nat
      BY <2>2, <3>2 DEF GetLine
    <3>4. stdio' = [stdio EXCEPT ![i] = SubSeq(stdio[i], n + 1, Len(stdio[i]))]
      BY <2>2 DEF GetLine
    <3>5. ends \subseteq 1..Len(stdio[i])
      BY <3>2
    <3> HIDE DEF ends
    <3>6. n \in ends
      BY <3>3, MinIsLeast
    <3> HIDE DEF n
    <3>7. SubSeq(stdio[i], n + 1, Len(stdio[i])) \in Seq(Bytes)
      BY <3>1, <3>5, <3>6
    <3>8. QED
      BY <3>1, <3>4, <3>7
  <2>3. QED
    BY <1>1, <2>1, <2>2
<1>3. TerminalTypes'
  BY <1>1, <1>2 DEF TerminalTypes
<1>4. SequencesAreWhole(i) => SequencesAreWhole(i)'
  BY <1>1 DEF SequencesAreWhole, Bracketed, Complete, BracketIsNext
<1>5. QED
  BY <1>1, <1>3, <1>4 DEF KeepsWhole

\* The terminal is as it was, but for its mode.
LEMMA QuietKeepsWhole ==
    ASSUME TerminalTypes, NEW i \in Invocations, UNCHANGED <<queue, arriving, stdio, reading, escaped, split>>
    PROVE  KeepsWhole(i)
<1>1. TerminalTypes'
  BY DEF TerminalTypes
<1>2. SequencesAreWhole(i) => SequencesAreWhole(i)'
  BY DEF SequencesAreWhole, Bracketed, Complete, BracketIsNext
<1>3. QED
  BY <1>1, <1>2 DEF KeepsWhole

LEMMA InterruptKeepsWhole ==
    ASSUME TerminalTypes, NEW i \in Invocations, InterruptArrives(i), exit'[i] # "none"
    PROVE  KeepsWhole(i)
<1>1. /\ arriving' = [arriving EXCEPT ![i] = <<>>] /\ queue' = [queue EXCEPT ![i] = <<>>]
      /\ stdio' = stdio /\ reading' = reading /\ split' = split /\ escaped' = escaped
  BY DEF InterruptArrives
<1>2. TerminalTypes'
  BY <1>1 DEF TerminalTypes
<1>3. QED
  BY <1>1, <1>2 DEF KeepsWhole, TerminalTypes

\* An invocation that is cancelled in a menu has read Escape; what it heard so far
\* is as it was.
LEMMA HeardStays ==
    ASSUME NEW i \in Invocations, \A q \in Invocations : Heard(q), KeepsWhole(i),
           \A q \in Invocations \ {i} : exit'[q] = exit[q] /\ main'[q] = main[q],
           exit'[i] = "none" => exit[i] = "none",
           (exit'[i] = "130" /\ main'[i] \in Menus) =>
              \/ exit[i] = "130" /\ main[i] \in Menus
              \/ exit[i] = "none" /\ (SequencesAreWhole(i) => i \in split')
    PROVE  \A q \in Invocations : Heard(q)'
<1>1. SUFFICES ASSUME NEW q \in Invocations, q \notin escaped' \cup split'
               PROVE  ((exit[q] = "none")' => SequencesAreWhole(q)')
                      /\ ((exit[q] = "130")' => (main[q] \notin Menus)')
  BY DEF Heard
<1>2. q \notin escaped \cup split /\ Heard(q)
  BY <1>1 DEF KeepsWhole
<1>3. (exit[q] = "none" => SequencesAreWhole(q)) /\ (exit[q] = "130" => main[q] \notin Menus)
  BY <1>2 DEF Heard
<1>4. CASE q = i
  <2>1. exit'[i] = "none" => SequencesAreWhole(i)'
    BY <1>1, <1>3, <1>4 DEF KeepsWhole
  <2>2. ~(exit'[i] = "130" /\ main'[i] \in Menus)
    BY <1>1, <1>3, <1>4
  <2>3. QED
    BY <1>4, <2>1, <2>2 DEF Menus
<1>5. CASE q # i
  <2>1. queue'[q] = queue[q] /\ arriving'[q] = arriving[q] /\ reading'[q] = reading[q]
        /\ exit'[q] = exit[q] /\ main'[q] = main[q]
    BY <1>5 DEF KeepsWhole
  <2>2. SequencesAreWhole(q) => SequencesAreWhole(q)'
    BY <2>1 DEF SequencesAreWhole, Bracketed, Complete, BracketIsNext
  <2>3. QED
    BY <1>3, <2>1, <2>2 DEF Menus
<1>6. QED
  BY <1>4, <1>5

-----------------------------------------------------------------------------
(* The program: what one invocation does leaves the others as they were.   *)

Only(old, new, i) == DOMAIN new = DOMAIN old /\ \A q \in DOMAIN old \ {i} : new[q] = old[q]

Alone(i) ==
    /\ place' = place
    /\ main' \in [Invocations -> Places] /\ Only(main, main', i)
    /\ Only(opts, opts', i) /\ DOMAIN opts'[i] = Fields
    /\ Only(exit, exit', i) /\ Only(selected, selected', i) /\ Only(token, token', i) /\ Only(append, append', i)
    /\ answered \subseteq answered' /\ answered' \subseteq answered \cup {i}

\* A step of i, its files apart, keeps what the invariant says.
Kept(i) ==
    /\ Alone(i) /\ KeepsWhole(i) /\ Safe(i)'
    /\ exit'[i] = "none" => exit[i] = "none"
    /\ (exit'[i] = "130" /\ main'[i] \in Menus) =>
          \/ exit[i] = "130" /\ main[i] \in Menus
          \/ exit[i] = "none" /\ (SequencesAreWhole(i) => i \in split')

LEMMA SameWorld ==
    ASSUME place' = place
    PROVE  /\ \A p, o, s, t, e, said : SafeAs(p, o, s, t, e, said)' <=> SafeAs(p, o, s, t, e, said)
           /\ world' = world /\ Detect' = Detect
BY DEF SafeAs, Placed, Silent, Accepted, WellFormed, Asking, Menus, Prompts, Hidden, Saving, Options, Detect, Read,
       world, Invalid, ArtifactOf, Profile, DefaultProfile, NeedsToken

LEMMA SafeNext ==
    ASSUME place' = place, NEW i
    PROVE  Safe(i)' <=> SafeAs(main'[i], opts'[i], selected'[i], token'[i], exit'[i], i \in answered')
<1>1. Safe(i)' <=> SafeAs(main[i], opts[i], selected[i], token[i], exit[i], i \in answered)'
  BY DEF Safe
<1>2. \A p, o, s, t, e, said : SafeAs(p, o, s, t, e, said)' <=> SafeAs(p, o, s, t, e, said)
  BY SameWorld
<1>3. QED
  BY <1>1, <1>2

LEMMA StepKeeps ==
    ASSUME IInv, NEW i \in Invocations, Kept(i), Ignored', gitignore'.lines \in Seq(GitLines)
    PROVE  IInv'
<1>1. TerminalTypes'
  BY DEF Kept, KeepsWhole
<1>2. Types'
  BY DEF IInv, Types, Kept, Alone, Only
<1>3. ASSUME NEW q \in Invocations PROVE Safe(q)'
  <2>1. CASE q = i
    BY <2>1 DEF Kept
  <2>2. CASE q # i
    <3>1. /\ main'[q] = main[q] /\ opts'[q] = opts[q] /\ selected'[q] = selected[q] /\ token'[q] = token[q]
          /\ exit'[q] = exit[q] /\ place' = place
      BY <2>2 DEF IInv, Types, Kept, Alone, Only
    <3>2. q \in answered' <=> q \in answered
      BY <2>2 DEF Kept, Alone
    <3>3. SafeAs(main[q], opts[q], selected[q], token[q], exit[q], q \in answered)
      BY DEF IInv, Safe
    <3>4. SafeAs(main'[q], opts'[q], selected'[q], token'[q], exit'[q], q \in answered')
      BY <3>1, <3>2, <3>3 DEF SafeAs, Silent
    <3>5. QED
      BY <3>1, <3>4, SafeNext
  <2>3. QED
    BY <2>1, <2>2
<1>4. \A q \in Invocations : Heard(q)'
  <2>1. \A q \in Invocations \ {i} : exit'[q] = exit[q] /\ main'[q] = main[q]
    BY DEF IInv, Types, Kept, Alone, Only
  <2>2. QED
    BY <2>1, HeardStays DEF IInv, Kept
<1>5. QED
  BY <1>1, <1>2, <1>3, <1>4 DEF IInv

\* Before the token is saved and after, nothing happens to the files.
LEMMA FilesStay ==
    ASSUME IInv, NEW i \in Invocations, Alone(i), UNCHANGED files,
           \/ main' = main /\ append' = append
           \/ main[i] \notin Saving \ {"opening"} /\ main'[i] # "appending"
    PROVE  Ignored' /\ gitignore'.lines \in Seq(GitLines)
<1>1. /\ tokenFile' = tokenFile /\ gitignore' = gitignore /\ world' = world
      /\ gitignore.lines \in Seq(GitLines) /\ Ignored
  BY SameWorld DEF IInv, Types, files, Alone
<1>2. \A q \in Invocations \ {i} : main'[q] = main[q] /\ append'[q] = append[q]
  BY DEF IInv, Types, Alone, Only
<1>3. (\E q \in Invocations : main[q] \in Saving \ {"opening"}) =>
         \E q \in Invocations : main'[q] \in Saving \ {"opening"}
  BY <1>2
<1>4. \A q \in Invocations : main'[q] = "appending" => main[q] = "appending" /\ append'[q] = append[q]
  BY <1>2
<1>5. (tokenFile # "absent")' => (\/ Entry \in Range(gitignore.lines)
                                  \/ world.ignoreReadOnly
                                  \/ \E q \in Invocations : main[q] \in Saving \ {"opening"})'
  BY <1>1, <1>3 DEF Ignored, Saving, Entry
<1>6. (\A q \in Invocations : main[q] = "appending" =>
          /\ append[q] \in {"entry", "newline and entry"}
          /\ append[q] = "entry" => gitignore.ended \/ gitignore.lines = <<>>)'
  BY <1>1, <1>4 DEF Ignored
<1>7. (Range(world.gitignore.lines) \subseteq Range(gitignore.lines))'
  BY <1>1 DEF Ignored
<1>8. Ignored'
  BY <1>5, <1>6, <1>7 DEF Ignored
<1>9. QED
  BY <1>1, <1>8

-----------------------------------------------------------------------------
(* The wizard.                                                             *)

LEMMA ProfilesAreThere ==
    ASSUME place \in DOMAIN Worlds
    PROVE  Detect.profiles \in Seq(STRING) /\ "none" \notin Range(Detect.profiles)
<1>1. world.profiles \in Seq(STRING) /\ "none" \notin Range(world.profiles)
  BY WorldsAssumption DEF world
<1>2. Detect.profiles = world.profiles \/ Detect.profiles = <<>>
  BY DEF Detect, Read
<1>3. Range(<<>>) = {}
  BY DEF Range
<1>4. CASE Detect.profiles = world.profiles
  BY <1>1, <1>4
<1>5. CASE Detect.profiles = <<>>
  <2>1. <<>> \in Seq(STRING) /\ "none" \notin Range(<<>>)
    BY <1>3
  <2>2. QED
    BY <1>5, <2>1
<1>6. QED
  BY <1>2, <1>4, <1>5

LEMMA MenusAreThere ==
    ASSUME place \in DOMAIN Worlds, NEW menu \in Menus, menu = "profile" => Detect.profiles # <<>>
    PROVE  Len(Options(menu)) \in Nat \ {0} /\ DOMAIN Options(menu) = 1..Len(Options(menu))
<1>1. CASE menu = "profile"
  <2>1. Options(menu) = Detect.profiles
    BY <1>1 DEF Options
  <2>2. Detect.profiles \in Seq(STRING) /\ Detect.profiles # <<>>
    BY <1>1, ProfilesAreThere
  <2>3. QED
    BY <2>1, <2>2
<1>2. CASE menu = "artifact"
  BY <1>2 DEF Options
<1>3. CASE menu = "engine"
  BY <1>3 DEF Options
<1>4. CASE menu = "signing"
  BY <1>4 DEF Options
<1>5. QED
  BY <1>1, <1>2, <1>3, <1>4 DEF Menus

LEMMA DefaultIsShown ==
    ASSUME place \in DOMAIN Worlds, NEW menu \in Menus, menu = "profile" => Detect.profiles # <<>>, NEW o
    PROVE  DefaultChoice(menu, o) \in 1..Len(Options(menu))
<1> DEFINE top == Len(Options(menu))
           at == {n \in DOMAIN Options(menu) : Options(menu)[n] = Preferred(menu, o)}
<1>1. top \in Nat \ {0} /\ DOMAIN Options(menu) = 1..top
  BY MenusAreThere
<1>2. at \subseteq 1..top
  BY <1>1
<1>3. DefaultChoice(menu, o) = IF at = {} THEN 1 ELSE Max(at)
  BY DEF DefaultChoice
<1> HIDE DEF at, top
<1>4. at # {} => Max(at) \in at
  <2>1. at \subseteq 0..top /\ top \in Nat
    BY <1>1, <1>2
  <2>2. QED
    BY <2>1, MaxIsGreatest
<1>5. 1 \in 1..top
  BY <1>1
<1>6. DefaultChoice(menu, o) \in 1..top
  BY <1>2, <1>3, <1>4, <1>5
<1>7. QED
  BY <1>6 DEF top

Answered ==
    {"begin"} \cup Menus \cup {"profile name", "keystore path", "store password", "key alias", "key password"}

\* Whatever is answered, the next question is one that may be asked.
LEMMA NextIsSafe ==
    ASSUME place \in DOMAIN Worlds, NEW from \in Answered, NEW o, o.tui, ~o.json,
           from \notin {"begin", "artifact"} /\ Detect.profiles # <<>> => o.profile \in Range(Detect.profiles),
           NEW t, NEW said, NEW s,
           s = IF NextQuestion(from, o) \in Menus THEN DefaultChoice(NextQuestion(from, o), o) ELSE 1
    PROVE  NextQuestion(from, o) \in Asking /\ SafeAs(NextQuestion(from, o), o, s, t, "none", said)
<1> DEFINE next == NextQuestion(from, o)
<1>1. next \in Asking /\ (next \in {"profile", "profile name"} <=> from = "artifact")
      /\ (next = "profile" => Detect.profiles # <<>>) /\ (next = "profile name" => Detect.profiles = <<>>)
      /\ (next = "artifact" => from = "begin") /\ (from = "begin" => next = "artifact")
  <2>1. CASE from = "begin"
    BY <2>1 DEF NextQuestion, Asking, Menus, Prompts, Hidden
  <2>2. CASE from = "artifact"
    BY <2>2 DEF NextQuestion, Asking, Menus, Prompts, Hidden
  <2>3. CASE from \in {"profile", "profile name"}
    BY <2>3 DEF NextQuestion, Asking, Menus, Prompts, Hidden
  <2>4. CASE from = "engine"
    BY <2>4 DEF NextQuestion, Asking, Menus, Prompts, Hidden
  <2>5. CASE from = "signing"
    BY <2>5 DEF NextQuestion, Asking, Menus, Prompts, Hidden
  <2>6. CASE from = "keystore path"
    BY <2>6 DEF NextQuestion, Asking, Menus, Prompts, Hidden
  <2>7. CASE from = "store password"
    BY <2>7 DEF NextQuestion, Asking, Menus, Prompts, Hidden
  <2>8. CASE from = "key alias"
    BY <2>8 DEF NextQuestion, Asking, Menus, Prompts, Hidden
  <2>9. CASE from = "key password"
    BY <2>9 DEF NextQuestion, Asking, Menus, Prompts, Hidden
  <2>10. QED
    BY <2>1, <2>2, <2>3, <2>4, <2>5, <2>6, <2>7, <2>8, <2>9 DEF Answered, Menus
<1>2. next \in Menus => s \in 1..Len(Options(next))
  BY <1>1, DefaultIsShown
<1> HIDE DEF next
<1>3. Placed(next, o, s)
  BY <1>1, <1>2 DEF Placed
<1>4. Silent(next, o, "none", said) /\ Accepted(next, o, t) /\ next # "started"
  BY <1>1 DEF Silent, Accepted, Asking, Menus, Prompts, Hidden, Saving
<1>5. QED
  BY <1>1, <1>3, <1>4 DEF SafeAs, next

\* The function keeps its values, but i's becomes x.
Becoming(old, new, i, x) == (new = old /\ x = old[i]) \/ new = [old EXCEPT ![i] = x]

\* One step of an invocation that goes to place p with the options o.
LEMMA Becomes ==
    ASSUME IInv, NEW i \in Invocations, NEW p \in Places, NEW o, DOMAIN o = Fields, place' = place,
           NEW s, NEW t, NEW e, NEW a,
           Becoming(main, main', i, p), Becoming(opts, opts', i, o), Becoming(selected, selected', i, s),
           Becoming(token, token', i, t), Becoming(exit, exit', i, e), Becoming(append, append', i, a),
           answered' \in {answered, answered \cup {i}},
           SafeAs(p, o, s, t, e, i \in answered')
    PROVE  /\ Alone(i) /\ Safe(i)'
           /\ main'[i] = p /\ exit'[i] = e
<1>1. /\ main \in [Invocations -> Places] /\ DOMAIN opts = Invocations /\ DOMAIN selected = Invocations
      /\ DOMAIN token = Invocations /\ DOMAIN exit = Invocations /\ DOMAIN append = Invocations
  BY DEF IInv, Types
<1>2. main' \in [Invocations -> Places] /\ Only(main, main', i) /\ main'[i] = p
  BY <1>1 DEF Only, Becoming
<1>3. Only(opts, opts', i) /\ opts'[i] = o
  BY <1>1 DEF Only, Becoming
<1>4. Only(selected, selected', i) /\ selected'[i] = s
  BY <1>1 DEF Only, Becoming
<1>5. Only(token, token', i) /\ token'[i] = t
  BY <1>1 DEF Only, Becoming
<1>6. Only(exit, exit', i) /\ exit'[i] = e
  BY <1>1 DEF Only, Becoming
<1>7. Only(append, append', i)
  BY <1>1 DEF Only, Becoming
<1>8. answered \subseteq answered' /\ answered' \subseteq answered \cup {i}
  OBVIOUS
<1>9. Alone(i)
  BY <1>2, <1>3, <1>4, <1>5, <1>6, <1>7, <1>8 DEF Alone
<1>10. Safe(i)'
  BY <1>2, <1>3, <1>4, <1>5, <1>6, SafeNext
<1>11. QED
  BY <1>2, <1>6, <1>9, <1>10

-----------------------------------------------------------------------------
(* The steps.                                                              *)

LEMMA OwnTypes ==
    ASSUME IInv, NEW i \in Invocations
    PROVE  /\ place \in DOMAIN Worlds /\ main[i] \in Places /\ DOMAIN opts[i] = Fields /\ TerminalTypes
           /\ SafeAs(main[i], opts[i], selected[i], token[i], exit[i], i \in answered)
BY DEF IInv, Types, Safe

LEMMA InvokeKeeps ==
    ASSUME IInv, NEW i \in Invocations, NEW argv \in world.argvs[i], Invoke(i, argv)
    PROVE  Kept(i) /\ Ignored' /\ gitignore'.lines \in Seq(GitLines)
<1> DEFINE s == ParseArgs(argv)
           o == s.opts
<1>1. DOMAIN o = Fields
  <2>1. argv \in Seq(STRING)
    BY OwnTypes, WorldsAssumption DEF world
  <2>2. Len(argv) \in Nat
    BY <2>1
  <2>3. QED
    BY <2>2, ArgumentsAreParsed
<1>2. /\ place' = place /\ tokenFile' = tokenFile /\ gitignore' = gitignore /\ token' = token /\ append' = append
      /\ UNCHANGED <<queue, arriving, stdio, reading, escaped, split>>
      /\ exit[i] = "none" /\ main[i] = "idle"
  BY DEF Invoke, terminalVars, typedVars, files
<1>3. KeepsWhole(i)
  BY <1>2, OwnTypes, QuietKeepsWhole
<1>4. ~opts[i].json
  BY <1>2, OwnTypes DEF SafeAs, Silent
<1>5. \/ \E code \in {"0", "2"} :
            /\ exit' = [exit EXCEPT ![i] = code] /\ main' = main /\ answered' = answered
            /\ opts' = opts /\ selected' = selected
      \/ /\ opts' = [opts EXCEPT ![i] = o] /\ selected' = selected /\ exit' = [exit EXCEPT ![i] = "2"]
         /\ answered' = (IF o.json THEN answered \cup {i} ELSE answered) /\ main' = main
      \/ /\ opts' = [opts EXCEPT ![i] = o] /\ selected' = selected /\ exit' = [exit EXCEPT ![i] = "134"]
         /\ answered' = answered /\ main' = main
      \/ o.tui /\ ~o.json /\ Proceeds(i, "begin", o)
      \/ /\ opts' = [opts EXCEPT ![i] = o] /\ selected' = selected /\ exit' = exit /\ ~o.tui
         /\ answered' = answered /\ main' = [main EXCEPT ![i] = "validate"]
  BY DEF Invoke, Exits, Fails, Remembers, Goes, Refused
<1> HIDE DEF o
<1>6. Becoming(token, token', i, token[i]) /\ Becoming(append, append', i, append[i])
  BY <1>2 DEF Becoming
<1>7. /\ Alone(i) /\ Safe(i)' /\ exit'[i] # "130" /\ main'[i] # "appending"
  <2>1. ASSUME NEW code \in {"0", "2"}, exit' = [exit EXCEPT ![i] = code], main' = main, answered' = answered,
               opts' = opts, selected' = selected
        PROVE  Alone(i) /\ Safe(i)' /\ main'[i] = main[i] /\ exit'[i] = code
    <3>1. SafeAs(main[i], opts[i], selected[i], token[i], code, i \in answered')
      BY <1>2, <1>4, OwnTypes DEF SafeAs, Silent
    <3>2. /\ Becoming(main, main', i, main[i]) /\ Becoming(opts, opts', i, opts[i])
          /\ Becoming(selected, selected', i, selected[i]) /\ Becoming(exit, exit', i, code)
      BY <2>1 DEF Becoming
    <3>3. main[i] \in Places /\ DOMAIN opts[i] = Fields
      BY OwnTypes
    <3>4. place' = place /\ answered' \in {answered, answered \cup {i}}
      BY <1>2, <2>1
    <3>5. QED
      BY <1>6, <3>1, <3>2, <3>3, <3>4, Becomes
  <2>2. ASSUME opts' = [opts EXCEPT ![i] = o], selected' = selected, exit' = [exit EXCEPT ![i] = "2"],
               answered' = (IF o.json THEN answered \cup {i} ELSE answered), main' = main
        PROVE  Alone(i) /\ Safe(i)' /\ main'[i] = main[i] /\ exit'[i] = "2"
    <3>1. SafeAs(main[i], o, selected[i], token[i], "2", i \in answered')
      BY <1>2, <2>2 DEF SafeAs, Placed, Silent, Accepted, Asking, Menus, Prompts, Hidden, Saving
    <3>2. answered' \in {answered, answered \cup {i}}
      BY <2>2
    <3>3. /\ Becoming(main, main', i, main[i]) /\ Becoming(opts, opts', i, o)
          /\ Becoming(selected, selected', i, selected[i]) /\ Becoming(exit, exit', i, "2")
      BY <2>2 DEF Becoming
    <3>4. QED
      BY <1>1, <1>2, <1>6, <3>1, <3>2, <3>3, OwnTypes, Becomes
  <2>3. ASSUME opts' = [opts EXCEPT ![i] = o], selected' = selected, exit' = [exit EXCEPT ![i] = "134"],
               answered' = answered, main' = main
        PROVE  Alone(i) /\ Safe(i)' /\ main'[i] = main[i] /\ exit'[i] = "134"
    <3>1. SafeAs(main[i], o, selected[i], token[i], "134", i \in answered')
      BY <1>2 DEF SafeAs, Placed, Silent, Accepted, Asking, Menus, Prompts, Hidden, Saving
    <3>2. /\ Becoming(main, main', i, main[i]) /\ Becoming(opts, opts', i, o)
          /\ Becoming(selected, selected', i, selected[i]) /\ Becoming(exit, exit', i, "134")
      BY <2>3 DEF Becoming
    <3>3. main[i] \in Places
      BY OwnTypes
    <3>4. place' = place /\ answered' \in {answered, answered \cup {i}}
      BY <1>2, <2>3
    <3>5. QED
      BY <1>1, <1>6, <3>1, <3>2, <3>3, <3>4, Becomes
  <2>4. ASSUME o.tui, ~o.json, Proceeds(i, "begin", o)
        PROVE  Alone(i) /\ Safe(i)' /\ main'[i] \in Asking /\ exit'[i] = "none"
    <3> DEFINE next == NextQuestion("begin", o)
               sel == IF next \in Menus THEN DefaultChoice(next, o) ELSE 1
    <3>1. next \in Asking /\ SafeAs(next, o, sel, token[i], "none", i \in answered')
      BY <2>4, OwnTypes, NextIsSafe DEF Answered
    <3>2. /\ opts' = [opts EXCEPT ![i] = o] /\ main' = [main EXCEPT ![i] = next]
          /\ selected' = [selected EXCEPT ![i] = sel] /\ exit' = exit /\ answered' = answered
      BY <2>4 DEF Proceeds, Goes
    <3>3. next \in Places
      BY <3>1 DEF Asking, Places
    <3> HIDE DEF next, sel
    <3>4. /\ Becoming(main, main', i, next) /\ Becoming(opts, opts', i, o)
          /\ Becoming(selected, selected', i, sel) /\ Becoming(exit, exit', i, "none")
      BY <1>2, <3>2 DEF Becoming
    <3>5. QED
      BY <1>1, <1>2, <1>6, <3>1, <3>2, <3>3, <3>4, Becomes
  <2>5. ASSUME opts' = [opts EXCEPT ![i] = o], selected' = selected, exit' = exit, ~o.tui,
               answered' = answered, main' = [main EXCEPT ![i] = "validate"]
        PROVE  Alone(i) /\ Safe(i)' /\ main'[i] = "validate" /\ exit'[i] = "none"
    <3>1. SafeAs("validate", o, selected[i], token[i], "none", i \in answered')
      BY <2>5 DEF SafeAs, Placed, Silent, Accepted, Asking, Menus, Prompts, Hidden, Saving
    <3>2. "validate" \in Places
      BY DEF Places
    <3>3. /\ Becoming(main, main', i, "validate") /\ Becoming(opts, opts', i, o)
          /\ Becoming(selected, selected', i, selected[i]) /\ Becoming(exit, exit', i, "none")
      BY <1>2, <2>5 DEF Becoming
    <3>4. QED
      BY <1>1, <1>2, <1>6, <2>5, <3>1, <3>2, <3>3, Becomes
  <2>6. "appending" \notin Asking \cup {"idle", "validate"}
    BY DEF Asking, Menus, Prompts, Hidden
  <2>7. QED
    BY <1>2, <1>5, <2>1, <2>2, <2>3, <2>4, <2>5, <2>6
<1>8. Ignored' /\ gitignore'.lines \in Seq(GitLines)
  <2>1. UNCHANGED files /\ main[i] \notin Saving
    BY <1>2 DEF files, Saving
  <2>2. QED
    BY <1>7, <2>1, FilesStay
<1>9. QED
  BY <1>2, <1>3, <1>7, <1>8 DEF Kept

\* A step that only the terminal knows of.
LEMMA TerminalKeeps ==
    ASSUME IInv, NEW i \in Invocations, KeepsWhole(i), UNCHANGED <<files, main, own, exit, answered>>
    PROVE  Kept(i) /\ Ignored' /\ gitignore'.lines \in Seq(GitLines)
<1>1. /\ place' = place /\ opts' = opts /\ selected' = selected /\ token' = token /\ append' = append
      /\ main' = main /\ exit' = exit /\ answered' = answered /\ UNCHANGED files
  BY DEF own
<1>2. /\ Becoming(main, main', i, main[i]) /\ Becoming(opts, opts', i, opts[i])
      /\ Becoming(selected, selected', i, selected[i]) /\ Becoming(exit, exit', i, exit[i])
      /\ Becoming(token, token', i, token[i]) /\ Becoming(append, append', i, append[i])
  BY <1>1 DEF Becoming
<1>3. Alone(i) /\ Safe(i)' /\ main'[i] = main[i] /\ exit'[i] = exit[i]
  BY <1>1, <1>2, OwnTypes, Becomes
<1>4. QED
  BY <1>1, <1>3, FilesStay DEF Kept

LEMMA InterruptKeeps ==
    ASSUME IInv, NEW i \in Invocations, Interrupt(i)
    PROVE  Kept(i) /\ Ignored' /\ gitignore'.lines \in Seq(GitLines)
<1>1. /\ place' = place /\ opts' = opts /\ selected' = selected /\ token' = token /\ append' = append
      /\ main' = main /\ exit' = [exit EXCEPT ![i] = "signal"] /\ answered' = answered /\ UNCHANGED files
      /\ InterruptArrives(i)
  BY DEF Interrupt, own, Exits, files
<1>2. SafeAs(main[i], opts[i], selected[i], token[i], "signal", i \in answered')
  BY <1>1, OwnTypes DEF SafeAs, Silent
<1>3. /\ Becoming(main, main', i, main[i]) /\ Becoming(opts, opts', i, opts[i])
      /\ Becoming(selected, selected', i, selected[i]) /\ Becoming(exit, exit', i, "signal")
      /\ Becoming(token, token', i, token[i]) /\ Becoming(append, append', i, append[i])
  BY <1>1 DEF Becoming
<1>4. main[i] \in Places /\ DOMAIN opts[i] = Fields
  BY OwnTypes
<1>5. place' = place /\ answered' \in {answered, answered \cup {i}}
  BY <1>1
<1>6. Alone(i) /\ Safe(i)' /\ main'[i] = main[i] /\ exit'[i] = "signal"
  BY <1>2, <1>3, <1>4, <1>5, Becomes
<1>7. KeepsWhole(i)
  BY <1>1, <1>6, OwnTypes, InterruptKeepsWhole
<1>8. QED
  BY <1>1, <1>6, <1>7, FilesStay DEF Kept

LEMMA MenuKeyKeeps ==
    ASSUME IInv, NEW i \in Invocations, Runs(i), MenuKey(i)
    PROVE  Kept(i) /\ Ignored' /\ gitignore'.lines \in Seq(GitLines)
<1>1. /\ place' = place /\ tokenFile' = tokenFile /\ gitignore' = gitignore /\ token' = token /\ append' = append
      /\ main[i] \in Menus /\ exit[i] = "none"
  BY DEF MenuKey, files, Runs
<1>2. PICK key \in {"up", "down", "other", "enter", "escape"} : ReadKey(i, key) /\ Key(i, key)
  BY DEF MenuKey
<1>3. KeepsWhole(i) /\ (key = "escape" /\ SequencesAreWhole(i) => i \in split')
  BY <1>2, OwnTypes, ReadKeyKeepsWhole
<1>4. /\ opts[i].tui /\ ~opts[i].json /\ selected[i] \in 1..Len(Options(main[i]))
      /\ (main[i] = "profile" => Detect.profiles # <<>>)
  <2>1. Placed(main[i], opts[i], selected[i]) /\ Silent(main[i], opts[i], exit[i], i \in answered)
    BY OwnTypes DEF SafeAs
  <2>2. opts[i].tui /\ ~opts[i].json /\ selected[i] \in 1..Len(Options(main[i]))
    BY <1>1, <2>1 DEF Placed, Silent, Asking, Menus
  <2>3. main[i] = "profile" => Detect.profiles # <<>>
    <3>1. SUFFICES ASSUME main[i] = "profile", Detect.profiles = <<>> PROVE FALSE
      OBVIOUS
    <3>2. Len(Options(main[i])) = 0
      BY <3>1 DEF Options
    <3>3. QED
      BY <2>2, <3>2
  <2>4. QED
    BY <2>2, <2>3
<1>5. Len(Options(main[i])) \in Nat \ {0} /\ DOMAIN Options(main[i]) = 1..Len(Options(main[i]))
  BY <1>1, <1>4, OwnTypes, MenusAreThere
<1>6. Becoming(token, token', i, token[i]) /\ Becoming(append, append', i, append[i])
  BY <1>1 DEF Becoming
<1>7. main[i] \in Places /\ DOMAIN opts[i] = Fields
  BY OwnTypes
<1>8. ASSUME NEW to \in 1..Len(Options(main[i])), Moves(i, to)
      PROVE  Alone(i) /\ Safe(i)' /\ main'[i] = main[i] /\ exit'[i] = "none"
  <2>1. SafeAs(main[i], opts[i], to, token[i], "none", i \in answered')
    BY <1>1, <1>8, OwnTypes DEF SafeAs, Placed, Moves, Menus
  <2>2. /\ Becoming(main, main', i, main[i]) /\ Becoming(opts, opts', i, opts[i])
        /\ Becoming(selected, selected', i, to) /\ Becoming(exit, exit', i, "none")
    BY <1>1, <1>8 DEF Moves, Becoming
  <2>3. place' = place /\ answered' \in {answered, answered \cup {i}}
    BY <1>1, <1>8 DEF Moves
  <2>4. QED
    BY <1>6, <1>7, <2>1, <2>2, <2>3, Becomes
<1>9. ASSUME key = "enter" PROVE Alone(i) /\ Safe(i)' /\ main'[i] \in Asking /\ exit'[i] = "none"
  <2> DEFINE value == Options(main[i])[selected[i]]
             o == Choose(main[i], opts[i], selected[i])
             next == NextQuestion(main[i], o)
             sel == IF next \in Menus THEN DefaultChoice(next, o) ELSE 1
  <2>1. DOMAIN o = Fields /\ o.tui = opts[i].tui /\ o.json = opts[i].json
        /\ (main[i] = "profile" => o.profile = Options(main[i])[selected[i]])
        /\ (main[i] # "profile" => o.profile = opts[i].profile)
    <3>1. CASE main[i] = "artifact"
      BY <1>7, <3>1 DEF Choose, Fields
    <3>2. CASE main[i] = "profile"
      BY <1>7, <3>2 DEF Choose, Fields
    <3>3. CASE main[i] = "engine"
      BY <1>7, <3>3 DEF Choose, Fields
    <3>4. CASE main[i] = "signing"
      BY <1>7, <3>4 DEF Choose, Fields
    <3>5. QED
      BY <1>1, <3>1, <3>2, <3>3, <3>4 DEF Menus
  <2>2. main[i] \notin {"begin", "artifact"} /\ Detect.profiles # <<>> => o.profile \in Range(Detect.profiles)
    <3>1. CASE main[i] = "profile"
      <4>1. Options(main[i]) = Detect.profiles
        BY <3>1 DEF Options
      <4>2. QED
        BY <1>4, <1>5, <2>1, <3>1, <4>1 DEF Range
    <3>2. CASE main[i] # "profile"
      BY <1>1, <2>1, <3>2, <1>4, OwnTypes DEF SafeAs, Placed, Menus
    <3>3. QED
      BY <3>1, <3>2
  <2>3. /\ opts' = [opts EXCEPT ![i] = o] /\ main' = [main EXCEPT ![i] = next]
        /\ selected' = [selected EXCEPT ![i] = sel] /\ exit' = exit /\ answered' = answered
    BY <1>2, <1>9 DEF Key, Proceeds, Goes
  <2>4. main[i] \in Answered
    BY <1>1 DEF Answered
  <2> HIDE DEF o
  <2>5. next \in Asking /\ SafeAs(next, o, sel, token[i], "none", i \in answered')
    BY <1>4, <2>1, <2>2, <2>4, OwnTypes, NextIsSafe
  <2>6. next \in Places
    BY <2>5 DEF Asking, Places
  <2> HIDE DEF next, sel
  <2>7. /\ Becoming(main, main', i, next) /\ Becoming(opts, opts', i, o)
        /\ Becoming(selected, selected', i, sel) /\ Becoming(exit, exit', i, "none")
    BY <1>1, <2>3 DEF Becoming
  <2>8. place' = place /\ answered' \in {answered, answered \cup {i}}
    BY <1>1, <2>3
  <2>9. QED
    BY <1>6, <2>1, <2>5, <2>6, <2>7, <2>8, Becomes
<1>10. ASSUME key = "escape" PROVE Alone(i) /\ Safe(i)' /\ main'[i] = main[i] /\ exit'[i] = "130"
  <2>1. /\ exit' = [exit EXCEPT ![i] = "130"] /\ main' = main /\ answered' = answered
        /\ opts' = opts /\ selected' = selected
    BY <1>2, <1>10 DEF Key, Exits
  <2>2. SafeAs(main[i], opts[i], selected[i], token[i], "130", i \in answered')
    BY <1>1, <2>1, OwnTypes DEF SafeAs, Silent, Menus
  <2>3. /\ Becoming(main, main', i, main[i]) /\ Becoming(opts, opts', i, opts[i])
        /\ Becoming(selected, selected', i, selected[i]) /\ Becoming(exit, exit', i, "130")
    BY <2>1 DEF Becoming
  <2>4. place' = place /\ answered' \in {answered, answered \cup {i}}
    BY <1>1, <2>1
  <2>5. QED
    BY <1>6, <1>7, <2>2, <2>3, <2>4, Becomes
<1>11. ASSUME key \in {"up", "down", "other"} PROVE \E to \in 1..Len(Options(main[i])) : Moves(i, to)
  <2> DEFINE n == Len(Options(main[i]))
             up == IF selected[i] = 1 THEN n ELSE selected[i] - 1
             down == (selected[i] % n) + 1
  <2>1. n \in Nat \ {0} /\ selected[i] \in 1..n
    BY <1>4, <1>5
  <2>2. Moves(i, up) \/ Moves(i, down) \/ Moves(i, selected[i])
    BY <1>2, <1>11 DEF Key
  <2> HIDE DEF n
  <2>3. up \in 1..n /\ down \in 1..n
    BY <2>1
  <2> HIDE DEF up, down
  <2>4. QED
    BY <2>1, <2>2, <2>3 DEF n
<1>12. /\ Alone(i) /\ Safe(i)' /\ main'[i] \in Asking /\ exit'[i] \in {"none", "130"}
       /\ (exit'[i] = "130" => key = "escape")
  BY <1>1, <1>8, <1>9, <1>10, <1>11 DEF Asking
<1>13. Ignored' /\ gitignore'.lines \in Seq(GitLines)
  <2>1. UNCHANGED files /\ main[i] \notin Saving /\ main'[i] # "appending"
    BY <1>1, <1>12 DEF files, Saving, Asking, Menus, Prompts, Hidden
  <2>2. QED
    BY <1>12, <2>1, FilesStay
<1>14. QED
  BY <1>1, <1>3, <1>12, <1>13 DEF Kept

\* The text of a line that was not empty is not empty.
LEMMA TextIsThere ==
    ASSUME NEW line \in Seq(Bytes), line # <<>>, NEW default
    PROVE  Text(line, default) # ""
<1>1. CASE Len(line) = 1
  <2>1. line[1] \in Bytes
    BY <1>1
  <2>2. line[1] # ""
    BY <2>1, TerminalAssumption DEF Bytes
  <2>3. Text(line, default) = line[1]
    BY <1>1 DEF Text
  <2>4. QED
    BY <2>2, <2>3
<1>2. CASE Len(line) # 1
  <2>1. Text(line, default) = "junk"
    BY <1>2 DEF Text
  <2>2. QED
    BY <2>1
<1>3. QED
  BY <1>1, <1>2

LEMMA LineIsTyped ==
    ASSUME TerminalTypes, NEW i \in Invocations, NEW line \in Lines(i)
    PROVE  line \in Seq(Bytes)
<1>1. stdio[i] \in Seq(Bytes)
  BY DEF TerminalTypes
<1>2. CASE line = <<>>
  BY <1>2
<1>3. ASSUME NEW word \in Words, line = <<word>> PROVE line \in Seq(Bytes)
  BY <1>3 DEF Bytes
<1>4. ASSUME NEW n \in 0..Len(stdio[i]), line = SubSeq(stdio[i], 1, n) PROVE line \in Seq(Bytes)
  BY <1>1, <1>4
<1>5. QED
  BY <1>2, <1>3, <1>4 DEF Lines

LEMMA AnswerWizardKeeps ==
    ASSUME IInv, NEW i \in Invocations, Runs(i), AnswerWizard(i)
    PROVE  Kept(i) /\ Ignored' /\ gitignore'.lines \in Seq(GitLines)
<1>1. PICK line \in Lines(i) : Line(i, line) /\ WizardPrompt(i, line)
  BY DEF AnswerWizard
<1>2. /\ place' = place /\ tokenFile' = tokenFile /\ gitignore' = gitignore /\ token' = token /\ append' = append
      /\ exit[i] = "none"
  BY DEF AnswerWizard, files, Runs
<1>3. KeepsWhole(i)
  BY <1>1, OwnTypes, LineKeepsWhole
<1>4. Becoming(token, token', i, token[i]) /\ Becoming(append, append', i, append[i])
  BY <1>2 DEF Becoming
<1>5. main[i] \in Places /\ DOMAIN opts[i] = Fields
  BY OwnTypes
<1>6. main[i] \in {"profile name", "keystore path", "store password", "key alias", "key password", "confirm"}
  BY <1>1 DEF WizardPrompt
<1>7. Placed(main[i], opts[i], selected[i]) /\ Silent(main[i], opts[i], exit[i], i \in answered)
  BY OwnTypes DEF SafeAs
<1>8. opts[i].tui /\ ~opts[i].json
  BY <1>6, <1>7 DEF Placed, Silent, Asking, Menus, Prompts, Hidden
<1>9. Detect.profiles # <<>> => main[i] # "profile name" /\ opts[i].profile \in Range(Detect.profiles)
  BY <1>6, <1>7, <1>8 DEF Placed
<1>10. ASSUME NEW o, DOMAIN o = Fields, o.tui = opts[i].tui, o.json = opts[i].json,
              main[i] # "profile name" => o.profile = opts[i].profile,
              main[i] # "confirm", Proceeds(i, main[i], o)
       PROVE  Alone(i) /\ Safe(i)' /\ main'[i] \in Asking /\ exit'[i] = "none"
  <2> DEFINE next == NextQuestion(main[i], o)
             sel == IF next \in Menus THEN DefaultChoice(next, o) ELSE 1
  <2>1. main[i] \in Answered /\ (Detect.profiles # <<>> => o.profile \in Range(Detect.profiles))
    BY <1>6, <1>9, <1>10 DEF Answered
  <2>2. /\ opts' = [opts EXCEPT ![i] = o] /\ main' = [main EXCEPT ![i] = next]
        /\ selected' = [selected EXCEPT ![i] = sel] /\ exit' = exit /\ answered' = answered
    BY <1>10 DEF Proceeds, Goes
  <2>3. next \in Asking /\ SafeAs(next, o, sel, token[i], "none", i \in answered')
    BY <1>8, <1>10, <2>1, OwnTypes, NextIsSafe
  <2>4. next \in Places
    BY <2>3 DEF Asking, Places
  <2> HIDE DEF next, sel
  <2>5. /\ Becoming(main, main', i, next) /\ Becoming(opts, opts', i, o)
        /\ Becoming(selected, selected', i, sel) /\ Becoming(exit, exit', i, "none")
    BY <1>2, <2>2 DEF Becoming
  <2>6. place' = place /\ answered' \in {answered, answered \cup {i}}
    BY <1>2, <2>2
  <2>7. QED
    BY <1>4, <1>10, <2>3, <2>4, <2>5, <2>6, Becomes
<1>11. ASSUME main[i] = "confirm", Goes(i, "validate"), UNCHANGED <<opts, selected, exit, answered>>
       PROVE  Alone(i) /\ Safe(i)' /\ main'[i] = "validate" /\ exit'[i] = "none"
  <2>1. SafeAs("validate", opts[i], selected[i], token[i], "none", i \in answered')
    BY <1>8, <1>9 DEF SafeAs, Placed, Silent, Accepted, Asking, Menus, Prompts, Hidden, Saving
  <2>2. /\ Becoming(main, main', i, "validate") /\ Becoming(opts, opts', i, opts[i])
        /\ Becoming(selected, selected', i, selected[i]) /\ Becoming(exit, exit', i, "none")
    BY <1>2, <1>11 DEF Becoming, Goes
  <2>3. place' = place /\ answered' \in {answered, answered \cup {i}}
    BY <1>2, <1>11
  <2>4. "validate" \in Places
    BY DEF Places
  <2>5. QED
    BY <1>4, <1>5, <2>1, <2>2, <2>3, <2>4, Becomes
<1>12. ASSUME Exits(i, "130"), UNCHANGED <<opts, selected>>
       PROVE  Alone(i) /\ Safe(i)' /\ main'[i] = main[i] /\ exit'[i] = "130"
  <2>1. exit' = [exit EXCEPT ![i] = "130"] /\ main' = main /\ answered' = answered
    BY <1>12 DEF Exits
  <2>2. SafeAs(main[i], opts[i], selected[i], token[i], "130", i \in answered')
    BY <1>6, <1>8, OwnTypes DEF SafeAs, Silent
  <2>3. /\ Becoming(main, main', i, main[i]) /\ Becoming(opts, opts', i, opts[i])
        /\ Becoming(selected, selected', i, selected[i]) /\ Becoming(exit, exit', i, "130")
    BY <1>12, <2>1 DEF Becoming
  <2>4. place' = place /\ answered' \in {answered, answered \cup {i}}
    BY <1>2, <2>1
  <2>5. QED
    BY <1>4, <1>5, <2>2, <2>3, <2>4, Becomes
<1>13. /\ Alone(i) /\ Safe(i)' /\ main'[i] \in Asking \cup {"validate"} /\ exit'[i] \in {"none", "130"}
       /\ (exit'[i] = "130" => main'[i] \notin Menus)
  <2>1. DOMAIN [opts[i] EXCEPT !.profile = Text(line, DefaultProfile(opts[i]))] = Fields
        /\ [opts[i] EXCEPT !.profile = Text(line, DefaultProfile(opts[i]))].tui = opts[i].tui
        /\ [opts[i] EXCEPT !.profile = Text(line, DefaultProfile(opts[i]))].json = opts[i].json
    BY <1>5 DEF Fields
  <2>2. \A k : /\ DOMAIN [opts[i] EXCEPT !.keystore = k] = Fields
               /\ [opts[i] EXCEPT !.keystore = k].tui = opts[i].tui
               /\ [opts[i] EXCEPT !.keystore = k].json = opts[i].json
               /\ [opts[i] EXCEPT !.keystore = k].profile = opts[i].profile
               /\ DOMAIN [opts[i] EXCEPT !.keyAlias = k] = Fields
               /\ [opts[i] EXCEPT !.keyAlias = k].tui = opts[i].tui
               /\ [opts[i] EXCEPT !.keyAlias = k].json = opts[i].json
               /\ [opts[i] EXCEPT !.keyAlias = k].profile = opts[i].profile
    BY <1>5 DEF Fields
  <2>3. CASE main[i] = "profile name"
    <3>1. Proceeds(i, main[i], [opts[i] EXCEPT !.profile = Text(line, DefaultProfile(opts[i]))])
      BY <1>1, <2>3 DEF WizardPrompt
    <3>2. Alone(i) /\ Safe(i)' /\ main'[i] \in Asking /\ exit'[i] = "none"
      BY <1>10, <2>1, <2>3, <3>1
    <3>3. QED
      BY <3>2
  <2>4. CASE main[i] = "keystore path"
    <3>1. \/ Proceeds(i, main[i], [opts[i] EXCEPT !.keystore = Text(line, opts[i].keystore)])
          \/ Exits(i, "130") /\ UNCHANGED <<opts, selected>>
      BY <1>1, <2>4 DEF WizardPrompt
    <3>2. main[i] \in Asking /\ main[i] \notin Menus
      BY <2>4 DEF Asking, Menus, Prompts, Hidden
    <3>3. ASSUME Proceeds(i, main[i], [opts[i] EXCEPT !.keystore = Text(line, opts[i].keystore)])
          PROVE  Alone(i) /\ Safe(i)' /\ main'[i] \in Asking /\ exit'[i] = "none"
      BY <1>10, <2>2, <2>4, <3>3
    <3>4. QED
      BY <1>12, <3>1, <3>2, <3>3
  <2>5. CASE main[i] \in {"store password", "key password"}
    <3>1. Proceeds(i, main[i], opts[i])
      BY <1>1, <2>5 DEF WizardPrompt
    <3>2. QED
      BY <1>5, <1>10, <2>5, <3>1
  <2>6. CASE main[i] = "key alias"
    <3>1. Proceeds(i, main[i], [opts[i] EXCEPT !.keyAlias = Text(line, opts[i].keyAlias)])
      BY <1>1, <2>6 DEF WizardPrompt
    <3>2. Alone(i) /\ Safe(i)' /\ main'[i] \in Asking /\ exit'[i] = "none"
      BY <1>10, <2>2, <2>6, <3>1
    <3>3. QED
      BY <3>2
  <2>7. CASE main[i] = "confirm"
    <3>1. \/ Goes(i, "validate") /\ UNCHANGED <<opts, selected, exit, answered>>
          \/ Exits(i, "130") /\ UNCHANGED <<opts, selected>>
      BY <1>1, <2>7 DEF WizardPrompt
    <3>2. main[i] \in Asking /\ main[i] \notin Menus
      BY <2>7 DEF Asking, Menus, Prompts, Hidden
    <3>3. QED
      BY <1>11, <1>12, <2>7, <3>1, <3>2
  <2>8. QED
    BY <1>6, <2>3, <2>4, <2>5, <2>6, <2>7
<1>14. Ignored' /\ gitignore'.lines \in Seq(GitLines)
  <2>1. UNCHANGED files /\ main[i] \notin Saving /\ main'[i] # "appending"
    BY <1>2, <1>6, <1>13 DEF files, Saving, Asking, Menus, Prompts, Hidden
  <2>2. QED
    BY <1>13, <2>1, FilesStay
<1>15. QED
  BY <1>2, <1>3, <1>13, <1>14 DEF Kept

\* Where no profile is given, the default is one that the project declares.
LEMMA DefaultIsDeclared ==
    ASSUME place \in DOMAIN Worlds, NEW o, o.profile = "none", ~o.prod, Detect.profiles # <<>>
    PROVE  Profile(o) \in Range(Detect.profiles)
<1> DEFINE p == Detect.profiles
<1>1. p \in Seq(STRING) /\ p # <<>>
  BY ProfilesAreThere
<1>2. Profile(o) = IF "preview" \in Range(p) THEN "preview" ELSE p[1]
  BY DEF Profile, DefaultProfile
<1> HIDE DEF p
<1>3. 1 \in DOMAIN p
  BY <1>1
<1>4. p[1] \in Range(p)
  BY <1>3 DEF Range
<1>5. QED
  BY <1>2, <1>4 DEF p

\* What is accepted, and has the token that it needs, starts well formed.
LEMMA AcceptedStarts ==
    ASSUME IInv, NEW i \in Invocations, Starts(i), place' = place, exit[i] = "none",
           Becoming(selected, selected', i, selected[i]),
           ~Invalid(opts[i]),
           opts[i].tui /\ Detect.profiles # <<>> => opts[i].profile \in Range(Detect.profiles),
           NEW t, NEW a, Becoming(token, token', i, t), Becoming(append, append', i, a),
           NeedsToken(opts[i]) => t # ""
    PROVE  Alone(i) /\ Safe(i)' /\ main'[i] = "started" /\ exit'[i] = "none"
<1> DEFINE o == opts[i]
<1>1. /\ opts' = opts /\ main' = [main EXCEPT ![i] = "started"]
      /\ exit' = exit /\ answered' = answered
  BY DEF Starts, Goes
<1>2. DOMAIN o = Fields
  BY OwnTypes
<1>3. (o.tui \/ (o.profile = "none" /\ ~o.prod)) /\ Detect.profiles # <<>> => Profile(o) \in Range(Detect.profiles)
  <2>1. CASE o.profile = "none" /\ ~o.prod /\ Detect.profiles # <<>>
    <3>1. o.profile = "none" /\ ~o.prod /\ Detect.profiles # <<>> /\ place \in DOMAIN Worlds
      BY <2>1, OwnTypes
    <3> HIDE DEF o
    <3>2. QED
      BY <3>1, DefaultIsDeclared
  <2>2. CASE o.tui /\ Detect.profiles # <<>>
    <3>1. o.profile \in Range(Detect.profiles) /\ "none" \notin Range(Detect.profiles)
      BY <2>2, OwnTypes, ProfilesAreThere
    <3>2. Profile(o) = o.profile
      BY <3>1 DEF Profile, DefaultProfile
    <3>3. QED
      BY <3>1, <3>2
  <2>3. QED
    BY <2>1, <2>2
<1>4. WellFormed(o, t)
  <2>1. /\ ArtifactOf(o) \in {"apk", "aab"} /\ o.engine \in {"auto", "gradle", "eas"}
        /\ (o.release => o.keystore \in world.keystores)
    BY DEF Invalid
  <2>2. NeedsToken(o) => t # ""
    OBVIOUS
  <2>3. QED
    BY <1>3, <2>1, <2>2 DEF WellFormed
<1>5. o.tui /\ Detect.profiles # <<>> => o.profile \in Range(Detect.profiles)
  OBVIOUS
<1>6. Becoming(opts, opts', i, o)
  BY <1>1 DEF Becoming
<1> HIDE DEF o
<1>7. SafeAs("started", o, selected[i], t, "none", i \in answered')
  BY <1>4, <1>5 DEF SafeAs, Placed, Silent, Accepted, Asking, Menus, Prompts, Hidden, Saving
<1>8. Becoming(main, main', i, "started") /\ Becoming(exit, exit', i, "none")
  BY <1>1 DEF Becoming
<1>9. place' = place /\ answered' \in {answered, answered \cup {i}} /\ "started" \in Places
  BY <1>1 DEF Places
<1>10. /\ Becoming(selected, selected', i, selected[i])
       /\ Becoming(token, token', i, t) /\ Becoming(append, append', i, a)
  OBVIOUS
<1>11. QED
  BY <1>2, <1>6, <1>7, <1>8, <1>9, <1>10, Becomes

LEMMA ValidateKeeps ==
    ASSUME IInv, NEW i \in Invocations, Validate(i)
    PROVE  Kept(i) /\ Ignored' /\ gitignore'.lines \in Seq(GitLines)
<1> DEFINE o == opts[i]
           found == FindToken(o)
<1>1. /\ place' = place /\ tokenFile' = tokenFile /\ gitignore' = gitignore /\ append' = append
      /\ UNCHANGED <<queue, arriving, stdio, reading, escaped, split>> /\ selected' = selected
      /\ token' = [token EXCEPT ![i] = found] /\ exit[i] = "none" /\ main[i] = "validate"
  BY DEF Validate, Runs, files, typedVars
<1>2. \/ Fails(i, o) /\ opts' = opts
      \/ Exits(i, "134") /\ opts' = opts
      \/ ~Invalid(o) /\ Starts(i) /\ (found # "" \/ ~NeedsToken(o))
      \/ ~Invalid(o) /\ ~o.json /\ Asks(i, "token") /\ UNCHANGED <<opts, exit, answered>>
  BY DEF Validate, MayAsk
<1> HIDE DEF found
<1>3. KeepsWhole(i)
  BY <1>1, OwnTypes, QuietKeepsWhole
<1>4. Becoming(token, token', i, found) /\ Becoming(append, append', i, append[i])
      /\ Becoming(selected, selected', i, selected[i])
  BY <1>1 DEF Becoming
<1>5. main[i] \in Places /\ DOMAIN opts[i] = Fields
  BY OwnTypes
<1>6. /\ Placed("validate", o, selected[i]) /\ Silent("validate", o, "none", i \in answered)
  BY <1>1, OwnTypes DEF SafeAs
<1>7. o.tui /\ Detect.profiles # <<>> => o.profile \in Range(Detect.profiles)
  BY <1>6 DEF Placed
<1>8. ASSUME Fails(i, o), opts' = opts
      PROVE  Alone(i) /\ Safe(i)' /\ main'[i] = main[i] /\ exit'[i] = "2"
  <2>1. /\ exit' = [exit EXCEPT ![i] = "2"] /\ main' = main
        /\ answered' = IF o.json THEN answered \cup {i} ELSE answered
    BY <1>8 DEF Fails
  <2>2. SafeAs(main[i], opts[i], selected[i], found, "2", i \in answered')
    BY <1>1, <1>6, <2>1 DEF SafeAs, Silent, Accepted, Saving
  <2>3. /\ Becoming(main, main', i, main[i]) /\ Becoming(opts, opts', i, opts[i])
        /\ Becoming(exit, exit', i, "2")
    BY <1>8, <2>1 DEF Becoming
  <2>4. place' = place /\ answered' \in {answered, answered \cup {i}}
    BY <1>1, <2>1
  <2>5. QED
    BY <1>4, <1>5, <2>2, <2>3, <2>4, Becomes
<1>9. ASSUME Exits(i, "134"), opts' = opts
      PROVE  Alone(i) /\ Safe(i)' /\ main'[i] = main[i] /\ exit'[i] = "134"
  <2>1. exit' = [exit EXCEPT ![i] = "134"] /\ main' = main /\ answered' = answered
    BY <1>9 DEF Exits
  <2>2. SafeAs(main[i], opts[i], selected[i], found, "134", i \in answered')
    BY <1>1, <1>6, <2>1 DEF SafeAs, Silent, Accepted, Saving
  <2>3. /\ Becoming(main, main', i, main[i]) /\ Becoming(opts, opts', i, opts[i])
        /\ Becoming(exit, exit', i, "134")
    BY <1>9, <2>1 DEF Becoming
  <2>4. place' = place /\ answered' \in {answered, answered \cup {i}}
    BY <1>1, <2>1
  <2>5. QED
    BY <1>4, <1>5, <2>2, <2>3, <2>4, Becomes
<1>10. ASSUME ~Invalid(o), Starts(i), found # "" \/ ~NeedsToken(o)
       PROVE  Alone(i) /\ Safe(i)' /\ main'[i] = "started" /\ exit'[i] = "none"
  BY <1>1, <1>4, <1>7, <1>10, AcceptedStarts
<1>11. ASSUME ~Invalid(o), ~o.json, Asks(i, "token"), UNCHANGED <<opts, exit, answered>>
       PROVE  Alone(i) /\ Safe(i)' /\ main'[i] = "token" /\ exit'[i] = "none"
  <2>1. SafeAs("token", opts[i], selected[i], found, "none", i \in answered')
    BY <1>7, <1>11 DEF SafeAs, Placed, Silent, Accepted, Asking, Menus, Prompts, Hidden, Saving
  <2>2. /\ Becoming(main, main', i, "token") /\ Becoming(opts, opts', i, opts[i])
        /\ Becoming(exit, exit', i, "none")
    BY <1>1, <1>11 DEF Becoming, Asks, Goes
  <2>3. place' = place /\ answered' \in {answered, answered \cup {i}} /\ "token" \in Places
    BY <1>1, <1>11 DEF Places, Prompts, Hidden
  <2>4. QED
    BY <1>4, <1>5, <2>1, <2>2, <2>3, Becomes
<1>12. Alone(i) /\ Safe(i)' /\ main'[i] \in {"validate", "started", "token"} /\ exit'[i] # "130"
  BY <1>1, <1>2, <1>8, <1>9, <1>10, <1>11
<1>13. Ignored' /\ gitignore'.lines \in Seq(GitLines)
  <2>1. UNCHANGED files /\ main[i] \notin Saving /\ main'[i] # "appending"
    BY <1>1, <1>12 DEF files, Saving
  <2>2. QED
    BY <1>12, <2>1, FilesStay
<1>14. QED
  BY <1>1, <1>3, <1>12, <1>13 DEF Kept

LEMMA AnswerTokenKeeps ==
    ASSUME IInv, NEW i \in Invocations, Runs(i), AnswerAboutToken(i)
    PROVE  Kept(i) /\ Ignored' /\ gitignore'.lines \in Seq(GitLines)
<1>1. PICK line \in Lines(i) : Line(i, line) /\ (AnswerToken(i, line) \/ AnswerSave(i, line))
  BY DEF AnswerAboutToken
<1>2. /\ place' = place /\ tokenFile' = tokenFile /\ gitignore' = gitignore /\ selected' = selected
      /\ append' = append /\ exit[i] = "none" /\ main[i] \in {"token", "save"}
  BY <1>1 DEF AnswerAboutToken, AnswerToken, AnswerSave, files, Runs
<1>3. KeepsWhole(i)
  BY <1>1, OwnTypes, LineKeepsWhole
<1>4. Becoming(append, append', i, append[i]) /\ Becoming(selected, selected', i, selected[i])
  BY <1>2 DEF Becoming
<1>5. main[i] \in Places /\ DOMAIN opts[i] = Fields
  BY OwnTypes
<1>6. /\ Placed(main[i], opts[i], selected[i]) /\ Silent(main[i], opts[i], exit[i], i \in answered)
      /\ Accepted(main[i], opts[i], token[i])
  BY OwnTypes DEF SafeAs
<1>7. /\ ~opts[i].json /\ ~Invalid(opts[i]) /\ (main[i] = "save" => token[i] # "")
      /\ (opts[i].tui /\ Detect.profiles # <<>> => opts[i].profile \in Range(Detect.profiles))
  BY <1>2, <1>6 DEF Silent, Accepted, Placed
<1>8. line \in Seq(Bytes)
  BY <1>1, OwnTypes, LineIsTyped
<1>9. CASE AnswerToken(i, line) /\ line = <<>>
  <2> DEFINE text == Text(line, "")
  <2>1. /\ exit' = [exit EXCEPT ![i] = "2"] /\ main' = main /\ answered' = answered /\ opts' = opts
        /\ token' = [token EXCEPT ![i] = text] /\ main[i] = "token"
    BY <1>9 DEF AnswerToken, Exits
  <2> HIDE DEF text
  <2>2. SafeAs(main[i], opts[i], selected[i], text, "2", i \in answered')
    BY <1>6, <1>7, <2>1 DEF SafeAs, Silent, Accepted, Saving
  <2>3. /\ Becoming(main, main', i, main[i]) /\ Becoming(opts, opts', i, opts[i])
        /\ Becoming(exit, exit', i, "2")
        /\ Becoming(token, token', i, text)
    BY <2>1 DEF Becoming
  <2>4. place' = place /\ answered' \in {answered, answered \cup {i}}
    BY <1>2, <2>1
  <2>5. Alone(i) /\ Safe(i)' /\ main'[i] = main[i] /\ exit'[i] = "2"
    BY <1>4, <1>5, <2>2, <2>3, <2>4, Becomes
  <2>6. UNCHANGED files /\ main[i] \notin Saving /\ main'[i] # "appending"
    BY <1>2, <2>1, <2>5 DEF files, Saving
  <2>7. QED
    BY <1>2, <1>3, <2>5, <2>6, FilesStay DEF Kept
<1>10. CASE AnswerToken(i, line) /\ line # <<>>
  <2> DEFINE text == Text(line, "")
  <2>1. /\ exit' = exit /\ main' = [main EXCEPT ![i] = "save"] /\ answered' = answered /\ opts' = opts
        /\ token' = [token EXCEPT ![i] = text]
    BY <1>10 DEF AnswerToken, Goes
  <2>2. text # ""
    BY <1>8, <1>10, TextIsThere
  <2> HIDE DEF text
  <2>3. SafeAs("save", opts[i], selected[i], text, "none", i \in answered')
    BY <1>7, <2>2 DEF SafeAs, Placed, Silent, Accepted, Asking, Menus, Prompts, Hidden, Saving
  <2>4. /\ Becoming(main, main', i, "save") /\ Becoming(opts, opts', i, opts[i])
        /\ Becoming(exit, exit', i, "none")
        /\ Becoming(token, token', i, text)
    BY <1>2, <2>1 DEF Becoming
  <2>5. place' = place /\ answered' \in {answered, answered \cup {i}} /\ "save" \in Places
    BY <1>2, <2>1 DEF Places, Prompts
  <2>6. Alone(i) /\ Safe(i)' /\ main'[i] = "save" /\ exit'[i] = "none"
    BY <1>4, <1>5, <2>3, <2>4, <2>5, Becomes
  <2>7. UNCHANGED files /\ main[i] \notin Saving /\ main'[i] # "appending"
    BY <1>2, <2>6 DEF files, Saving
  <2>8. QED
    BY <1>2, <1>3, <2>6, <2>7, FilesStay DEF Kept
<1>11. CASE AnswerSave(i, line) /\ Yes(line)
  <2>1. /\ exit' = exit /\ main' = [main EXCEPT ![i] = "opening"] /\ answered' = answered /\ opts' = opts
        /\ token' = token /\ main[i] = "save"
    BY <1>11 DEF AnswerSave, Goes
  <2>2. SafeAs("opening", opts[i], selected[i], token[i], "none", i \in answered')
    BY <1>7, <2>1 DEF SafeAs, Placed, Silent, Accepted, Asking, Menus, Prompts, Hidden, Saving
  <2>3. /\ Becoming(main, main', i, "opening") /\ Becoming(opts, opts', i, opts[i])
        /\ Becoming(exit, exit', i, "none")
        /\ Becoming(token, token', i, token[i])
    BY <1>2, <2>1 DEF Becoming
  <2>4. place' = place /\ answered' \in {answered, answered \cup {i}} /\ "opening" \in Places
    BY <1>2, <2>1 DEF Places, Saving
  <2>5. Alone(i) /\ Safe(i)' /\ main'[i] = "opening" /\ exit'[i] = "none"
    BY <1>4, <1>5, <2>2, <2>3, <2>4, Becomes
  <2>6. UNCHANGED files /\ main[i] \notin Saving /\ main'[i] # "appending"
    BY <1>2, <2>5 DEF files, Saving
  <2>7. QED
    BY <1>2, <1>3, <2>5, <2>6, FilesStay DEF Kept
<1>12. CASE AnswerSave(i, line) /\ ~Yes(line)
  <2>1. Starts(i) /\ token' = token /\ main[i] = "save"
    BY <1>12 DEF AnswerSave
  <2>2. Becoming(token, token', i, token[i])
    BY <2>1 DEF Becoming
  <2>3. Alone(i) /\ Safe(i)' /\ main'[i] = "started" /\ exit'[i] = "none"
    BY <1>2, <1>4, <1>7, <2>1, <2>2, AcceptedStarts
  <2>4. UNCHANGED files /\ main[i] \notin Saving /\ main'[i] # "appending"
    BY <1>2, <2>3 DEF files, Saving
  <2>5. QED
    BY <1>2, <1>3, <2>3, <2>4, FilesStay DEF Kept
<1>13. QED
  BY <1>1, <1>9, <1>10, <1>11, <1>12

-----------------------------------------------------------------------------
(* The token file and .gitignore.                                          *)

\* One step of saving: the files apart.
LEMMA SavingKeeps ==
    ASSUME IInv, NEW i \in Invocations, NEW from \in Saving, NEW to \in Saving \cup {"started"},
           Saves(i, from, to), NEW a, Becoming(append, append', i, a)
    PROVE  /\ Kept(i) /\ main[i] = from /\ main'[i] = to /\ world' = world
           /\ \A q \in Invocations \ {i} : main'[q] = main[q] /\ append'[q] = append[q]
<1>1. /\ UNCHANGED <<queue, arriving, stdio, reading, escaped, split>> /\ place' = place
      /\ selected' = selected /\ token' = token /\ exit[i] = "none" /\ main[i] = from
  BY DEF Saves, Runs, terminalVars, typedVars
<1>2. KeepsWhole(i)
  BY <1>1, OwnTypes, QuietKeepsWhole
<1>3. Becoming(token, token', i, token[i]) /\ Becoming(selected, selected', i, selected[i])
  BY <1>1 DEF Becoming
<1>4. /\ Placed(from, opts[i], selected[i]) /\ Silent(from, opts[i], "none", i \in answered)
      /\ Accepted(from, opts[i], token[i])
  BY <1>1, OwnTypes DEF SafeAs
<1>5. /\ ~opts[i].json /\ ~Invalid(opts[i]) /\ token[i] # ""
      /\ (opts[i].tui /\ Detect.profiles # <<>> => opts[i].profile \in Range(Detect.profiles))
  BY <1>4 DEF Silent, Accepted, Placed, Saving
<1>6. ASSUME to = "started" PROVE Alone(i) /\ Safe(i)' /\ main'[i] = to /\ exit'[i] = "none"
  <2>1. Starts(i)
    BY <1>6 DEF Saves
  <2>2. QED
    BY <1>1, <1>3, <1>5, <1>6, <2>1, AcceptedStarts
<1>7. ASSUME to # "started" PROVE Alone(i) /\ Safe(i)' /\ main'[i] = to /\ exit'[i] = "none"
  <2>1. main' = [main EXCEPT ![i] = to] /\ opts' = opts /\ exit' = exit /\ answered' = answered
    BY <1>7 DEF Saves, Goes
  <2>2. SafeAs(to, opts[i], selected[i], token[i], "none", i \in answered')
    BY <1>5, <1>7 DEF SafeAs, Placed, Silent, Accepted, Asking, Menus, Prompts, Hidden, Saving
  <2>3. Becoming(main, main', i, to) /\ Becoming(opts, opts', i, opts[i]) /\ Becoming(exit, exit', i, "none")
    BY <1>1, <2>1 DEF Becoming
  <2>4. place' = place /\ answered' \in {answered, answered \cup {i}} /\ to \in Places
    BY <1>1, <1>7, <2>1 DEF Places
  <2>5. DOMAIN opts[i] = Fields /\ Becoming(append, append', i, a)
    BY OwnTypes
  <2>6. QED
    BY <1>3, <2>2, <2>3, <2>4, <2>5, Becomes
<1>8. Alone(i) /\ Safe(i)' /\ main'[i] = to /\ exit'[i] = "none"
  BY <1>6, <1>7
<1>9. \A q \in Invocations \ {i} : main'[q] = main[q] /\ append'[q] = append[q]
  BY <1>8 DEF IInv, Types, Alone, Only
<1>10. QED
  BY <1>1, <1>2, <1>8, <1>9, SameWorld DEF Kept

LEMMA OpenKeeps ==
    ASSUME IInv, NEW i \in Invocations, OpenTokenFile(i)
    PROVE  Kept(i) /\ Ignored' /\ gitignore'.lines \in Seq(GitLines)
<1>1. append' = append
  BY DEF OpenTokenFile
<1>2. Becoming(append, append', i, append[i])
  BY <1>1 DEF Becoming
<1>3. CASE Saves(i, "opening", "started") /\ UNCHANGED files
  <2>1. Kept(i) /\ main[i] = "opening" /\ main'[i] = "started"
    BY <1>2, <1>3, SavingKeeps DEF Saving
  <2>2. QED
    BY <1>3, <2>1, FilesStay DEF Kept
<1>4. CASE Saves(i, "opening", "writing") /\ gitignore' = gitignore
  <2>1. /\ Kept(i) /\ main[i] = "opening" /\ main'[i] = "writing" /\ world' = world
        /\ \A q \in Invocations \ {i} : main'[q] = main[q] /\ append'[q] = append[q]
    BY <1>2, <1>4, SavingKeeps DEF Saving
  <2>2. Ignored'
    BY <1>1, <1>4, <2>1 DEF IInv, Ignored, Saving
  <2>3. QED
    BY <1>4, <2>1, <2>2 DEF IInv, Types
<1>5. QED
  BY <1>3, <1>4 DEF OpenTokenFile

LEMMA WriteKeeps ==
    ASSUME IInv, NEW i \in Invocations, WriteTokenFile(i)
    PROVE  Kept(i) /\ Ignored' /\ gitignore'.lines \in Seq(GitLines)
<1>1. append' = append /\ gitignore' = gitignore /\ Saves(i, "writing", "ignoring")
  BY DEF WriteTokenFile
<1>2. Becoming(append, append', i, append[i])
  BY <1>1 DEF Becoming
<1>3. /\ Kept(i) /\ main[i] = "writing" /\ main'[i] = "ignoring" /\ world' = world
      /\ \A q \in Invocations \ {i} : main'[q] = main[q] /\ append'[q] = append[q]
  BY <1>1, <1>2, SavingKeeps DEF Saving
<1>4. Ignored'
  BY <1>1, <1>3 DEF IInv, Ignored, Saving
<1>5. QED
  BY <1>1, <1>3, <1>4 DEF IInv, Types

LEMMA ReadGitignoreKeeps ==
    ASSUME IInv, NEW i \in Invocations, ReadGitignore(i)
    PROVE  Kept(i) /\ Ignored' /\ gitignore'.lines \in Seq(GitLines)
<1>1. gitignore' = gitignore /\ tokenFile' = tokenFile
  BY DEF ReadGitignore, files
<1>2. CASE Saves(i, "ignoring", "started") /\ Entry \in Range(gitignore.lines) /\ append' = append
  <2>1. Becoming(append, append', i, append[i])
    BY <1>2 DEF Becoming
  <2>2. /\ Kept(i) /\ main[i] = "ignoring" /\ main'[i] = "started" /\ world' = world
        /\ \A q \in Invocations \ {i} : main'[q] = main[q] /\ append'[q] = append[q]
    BY <1>2, <2>1, SavingKeeps DEF Saving
  <2>3. Ignored'
    BY <1>1, <1>2, <2>2 DEF IInv, Ignored, Entry
  <2>4. QED
    BY <1>1, <2>2, <2>3 DEF IInv, Types
<1>3. CASE Saves(i, "ignoring", "appending")
           /\ append' = [append EXCEPT ![i] = IF NeedsNewline THEN "newline and entry" ELSE "entry"]
  <2> DEFINE a == IF NeedsNewline THEN "newline and entry" ELSE "entry"
  <2>1. Becoming(append, append', i, a) /\ append'[i] = a
    BY <1>3 DEF Becoming, IInv, Types
  <2>2. /\ Kept(i) /\ main[i] = "ignoring" /\ main'[i] = "appending" /\ world' = world
        /\ \A q \in Invocations \ {i} : main'[q] = main[q] /\ append'[q] = append[q]
    BY <1>3, <2>1, SavingKeeps DEF Saving
  <2>3. a \in {"entry", "newline and entry"} /\ (a = "entry" => gitignore.ended \/ gitignore.lines = <<>>)
    BY DEF NeedsNewline
  <2> HIDE DEF a
  <2>4. (\A q \in Invocations : main[q] = "appending" =>
            /\ append[q] \in {"entry", "newline and entry"}
            /\ append[q] = "entry" => gitignore.ended \/ gitignore.lines = <<>>)'
    BY <1>1, <2>1, <2>2, <2>3 DEF IInv, Ignored
  <2>5. (tokenFile # "absent")' => (\/ Entry \in Range(gitignore.lines)
                                    \/ world.ignoreReadOnly
                                    \/ \E q \in Invocations : main[q] \in Saving \ {"opening"})'
    BY <2>2 DEF Saving
  <2>6. (Range(world.gitignore.lines) \subseteq Range(gitignore.lines))'
    BY <1>1, <2>2 DEF IInv, Ignored
  <2>7. Ignored'
    BY <2>4, <2>5, <2>6 DEF Ignored
  <2>8. QED
    BY <1>1, <2>2, <2>7 DEF IInv, Types
<1>4. QED
  BY <1>2, <1>3 DEF ReadGitignore, files

LEMMA LineIsAppended ==
    ASSUME NEW l \in Seq(GitLines), NEW x \in GitLines
    PROVE  /\ Append(l, x) \in Seq(GitLines) /\ x \in Range(Append(l, x))
           /\ Range(l) \subseteq Range(Append(l, x))
<1> DEFINE m == Append(l, x)
<1>1. Len(l) \in Nat /\ DOMAIN l = 1..Len(l)
  OBVIOUS
<1>2. m \in Seq(GitLines) /\ Len(m) = Len(l) + 1
  OBVIOUS
<1>3. m[Len(l) + 1] = x
  OBVIOUS
<1>4. \A n \in 1..Len(l) : m[n] = l[n]
  OBVIOUS
<1> HIDE DEF m
<1>5. DOMAIN m = 1..(Len(l) + 1)
  BY <1>2
<1>6. Len(l) + 1 \in DOMAIN m /\ \A n \in DOMAIN l : n \in DOMAIN m
  BY <1>1, <1>5
<1>7. x \in Range(m)
  BY <1>3, <1>6 DEF Range
<1>8. Range(l) \subseteq Range(m)
  BY <1>1, <1>4, <1>6 DEF Range
<1>9. QED
  BY <1>2, <1>7, <1>8 DEF m

LEMMA FileIsMade ==
    ASSUME NEW l
    PROVE  [lines |-> l, ended |-> TRUE].lines = l /\ [lines |-> l, ended |-> TRUE].ended = TRUE
OBVIOUS

\* Appending loses no line, and ends the file with the entry.
LEMMA AppendedLines ==
    ASSUME NEW file, file.lines \in Seq(GitLines), NEW text \in {"entry", "newline and entry"},
           text = "entry" => file.ended \/ file.lines = <<>>
    PROVE  /\ Appended(file, text).lines \in Seq(GitLines) /\ Appended(file, text).ended
           /\ Entry \in Range(Appended(file, text).lines)
           /\ Range(file.lines) \subseteq Range(Appended(file, text).lines)
<1> DEFINE before == IF text = "newline and entry" /\ file.ended THEN Append(file.lines, <<>>) ELSE file.lines
           after == Append(before, Entry)
<1>1. Entry \in GitLines /\ <<>> \in GitLines
  BY DEF GitLines
<1>2. before \in Seq(GitLines) /\ Range(file.lines) \subseteq Range(before)
  BY <1>1, LineIsAppended
<1>3. file.ended \/ text = "newline and entry" \/ before = <<>>
  OBVIOUS
<1>4. Appended(file, text) = [lines |-> after, ended |-> TRUE]
  BY <1>3 DEF Appended
<1> HIDE DEF before
<1>5. after \in Seq(GitLines) /\ Entry \in Range(after) /\ Range(before) \subseteq Range(after)
  BY <1>1, <1>2, LineIsAppended
<1> HIDE DEF after
<1>6. Appended(file, text).lines = after /\ Appended(file, text).ended = TRUE
  BY <1>4, FileIsMade, Zenon
<1>7. QED
  BY <1>2, <1>5, <1>6

LEMMA AppendKeeps ==
    ASSUME IInv, NEW i \in Invocations, AppendGitignore(i)
    PROVE  Kept(i) /\ Ignored' /\ gitignore'.lines \in Seq(GitLines)
<1>1. append' = append /\ tokenFile' = tokenFile /\ Saves(i, "appending", "started")
      /\ gitignore' = IF world.ignoreReadOnly THEN gitignore ELSE Appended(gitignore, append[i])
  BY DEF AppendGitignore
<1>2. Becoming(append, append', i, append[i])
  BY <1>1 DEF Becoming
<1>3. /\ Kept(i) /\ main[i] = "appending" /\ main'[i] = "started" /\ world' = world
      /\ \A q \in Invocations \ {i} : main'[q] = main[q] /\ append'[q] = append[q]
  BY <1>1, <1>2, SavingKeeps DEF Saving
<1>4. Ignored /\ gitignore.lines \in Seq(GitLines)
  BY DEF IInv, Types
<1>5. /\ append[i] \in {"entry", "newline and entry"}
      /\ append[i] = "entry" => gitignore.ended \/ gitignore.lines = <<>>
  BY <1>3, <1>4 DEF Ignored
<1>6. CASE world.ignoreReadOnly
  <2>1. gitignore' = gitignore
    BY <1>1, <1>6
  <2>2. Ignored'
    BY <1>1, <1>3, <1>4, <1>6, <2>1 DEF Ignored
  <2>3. QED
    BY <1>3, <1>4, <2>1, <2>2
<1>7. CASE ~world.ignoreReadOnly
  <2>1. gitignore' = Appended(gitignore, append[i])
    BY <1>1, <1>7
  <2>2. /\ gitignore'.lines \in Seq(GitLines) /\ gitignore'.ended
        /\ Entry \in Range(gitignore'.lines) /\ Range(gitignore.lines) \subseteq Range(gitignore'.lines)
    BY <1>4, <1>5, <2>1, AppendedLines
  <2>3. (Entry \in Range(gitignore.lines))'
    BY <2>2 DEF Entry
  <2>4. (\A q \in Invocations : main[q] = "appending" =>
            /\ append[q] \in {"entry", "newline and entry"}
            /\ append[q] = "entry" => gitignore.ended \/ gitignore.lines = <<>>)'
    BY <1>3, <1>4, <2>2 DEF Ignored
  <2>5. (Range(world.gitignore.lines) \subseteq Range(gitignore.lines))'
    BY <1>3, <1>4, <2>2 DEF Ignored
  <2>6. Ignored'
    BY <2>3, <2>4, <2>5 DEF Ignored
  <2>7. QED
    BY <1>3, <2>2, <2>6
<1>8. QED
  BY <1>6, <1>7

-----------------------------------------------------------------------------
(* The invariant.                                                          *)

LEMMA InitIsSafe == Init => IInv
<1> SUFFICES ASSUME Init PROVE IInv
  OBVIOUS
<1>1. place \in DOMAIN Worlds /\ tokenFile = "absent" /\ gitignore = world.gitignore
  BY DEF Init
<1>2. TerminalTypes
  <2>1. <<>> \in Seq(Bytes)
    OBVIOUS
  <2>2. QED
    BY <2>1 DEF Init, TerminalInit, TerminalTypes
<1>3. gitignore.lines \in Seq(GitLines)
  <2>1. world.gitignore \in [lines : Seq(Seq(STRING)), ended : BOOLEAN]
    BY <1>1, WorldsAssumption DEF world
  <2>2. Seq(STRING) \subseteq GitLines
    BY DEF GitLines
  <2>3. \A l \in Seq(Seq(STRING)) : l \in Seq(GitLines)
    BY <2>2
  <2>4. QED
    BY <1>1, <2>1, <2>3
<1>4. Types
  <2>1. "idle" \in Places
    BY DEF Places
  <2>2. DOMAIN Defaults = Fields
    BY DEF Defaults, Fields
  <2>3. QED
    BY <1>1, <1>3, <2>1, <2>2 DEF Init, Types
<1>5. Ignored
  BY <1>1 DEF Init, Ignored
<1>6. ASSUME NEW i \in Invocations PROVE Safe(i) /\ Heard(i)
  <2>1. main[i] = "idle" /\ ~opts[i].json /\ exit[i] = "none"
    BY DEF Init, Defaults
  <2>2. Safe(i)
    BY <2>1 DEF Safe, SafeAs, Placed, Silent, Accepted, Asking, Menus, Prompts, Hidden, Saving
  <2>3. queue[i] = <<>> /\ arriving[i] = <<>> /\ reading[i] = "no"
    BY DEF Init, TerminalInit
  <2>4. SequencesAreWhole(i)
    BY <2>3 DEF SequencesAreWhole, Bracketed, Complete
  <2>5. QED
    BY <2>1, <2>2, <2>4 DEF Heard
<1>7. QED
  BY <1>2, <1>4, <1>5, <1>6 DEF IInv

LEMMA NextIsKept == IInv /\ [Next]_vars => IInv'
<1> SUFFICES ASSUME IInv, [Next]_vars PROVE IInv'
  OBVIOUS
<1>1. ASSUME NEW i \in Invocations, StepOf(i) PROVE IInv'
  <2>1. ASSUME NEW argv \in world.argvs[i], Invoke(i, argv)
        PROVE  Kept(i) /\ Ignored' /\ gitignore'.lines \in Seq(GitLines)
    BY <2>1, InvokeKeeps
  <2>2. ASSUME MenuWaits(i) PROVE Kept(i) /\ Ignored' /\ gitignore'.lines \in Seq(GitLines)
    <3>1. EnterRaw(i) /\ UNCHANGED <<files, main, own, exit, answered>>
      BY <2>2 DEF MenuWaits
    <3>2. QED
      BY <3>1, OwnTypes, RawKeepsWhole, TerminalKeeps
  <2>3. ASSUME MenuReads(i) PROVE Kept(i) /\ Ignored' /\ gitignore'.lines \in Seq(GitLines)
    <3>1. ReadMore(i) /\ UNCHANGED <<files, main, own, exit, answered>>
      BY <2>3 DEF MenuReads
    <3>2. QED
      BY <3>1, OwnTypes, ReadMoreKeepsWhole, TerminalKeeps
  <2>4. ASSUME Runs(i), MenuKey(i) PROVE Kept(i) /\ Ignored' /\ gitignore'.lines \in Seq(GitLines)
    BY <2>4, MenuKeyKeeps
  <2>5. ASSUME FillsStdin(i) PROVE Kept(i) /\ Ignored' /\ gitignore'.lines \in Seq(GitLines)
    <3>1. FillStdin(i) /\ UNCHANGED <<files, main, own, exit, answered>>
      BY <2>5 DEF FillsStdin
    <3>2. QED
      BY <3>1, OwnTypes, FillKeepsWhole, TerminalKeeps
  <2>6. ASSUME Runs(i), AnswerWizard(i) PROVE Kept(i) /\ Ignored' /\ gitignore'.lines \in Seq(GitLines)
    BY <2>6, AnswerWizardKeeps
  <2>7. ASSUME Runs(i), AnswerAboutToken(i) PROVE Kept(i) /\ Ignored' /\ gitignore'.lines \in Seq(GitLines)
    BY <2>7, AnswerTokenKeeps
  <2>8. ASSUME Validate(i) PROVE Kept(i) /\ Ignored' /\ gitignore'.lines \in Seq(GitLines)
    BY <2>8, ValidateKeeps
  <2>9. ASSUME OpenTokenFile(i) PROVE Kept(i) /\ Ignored' /\ gitignore'.lines \in Seq(GitLines)
    BY <2>9, OpenKeeps
  <2>10. ASSUME WriteTokenFile(i) PROVE Kept(i) /\ Ignored' /\ gitignore'.lines \in Seq(GitLines)
    BY <2>10, WriteKeeps
  <2>11. ASSUME ReadGitignore(i) PROVE Kept(i) /\ Ignored' /\ gitignore'.lines \in Seq(GitLines)
    BY <2>11, ReadGitignoreKeeps
  <2>12. ASSUME AppendGitignore(i) PROVE Kept(i) /\ Ignored' /\ gitignore'.lines \in Seq(GitLines)
    BY <2>12, AppendKeeps
  <2>13. ASSUME Type(i) PROVE Kept(i) /\ Ignored' /\ gitignore'.lines \in Seq(GitLines)
    <3>1. /\ UNCHANGED <<files, main, own, exit, answered>>
          /\ (ByteArrives(i) \/ \E key \in world.keyboard : Press(i, key))
      BY <2>13 DEF Type
    <3>2. world.keyboard \subseteq DOMAIN BytesOf
      BY OwnTypes, WorldsAssumption DEF world
    <3>3. KeepsWhole(i)
      BY <3>1, <3>2, OwnTypes, ArrivalKeepsWhole, PressKeepsWhole
    <3>4. QED
      BY <3>1, <3>3, TerminalKeeps
  <2>14. ASSUME Interrupt(i) PROVE Kept(i) /\ Ignored' /\ gitignore'.lines \in Seq(GitLines)
    BY <2>14, InterruptKeeps
  <2>15. Kept(i) /\ Ignored' /\ gitignore'.lines \in Seq(GitLines)
    BY <1>1, <2>1, <2>2, <2>3, <2>4, <2>5, <2>6, <2>7, <2>8, <2>9, <2>10, <2>11, <2>12, <2>13, <2>14
    DEF StepOf, Step
  <2>16. QED
    BY <2>15, StepKeeps
<1>2. CASE UNCHANGED vars
  <2>1. UNCHANGED <<queue, arriving, stdio, reading, escaped, split, place, tokenFile, gitignore, main, opts,
                    selected, token, append, exit, answered>>
    BY <1>2 DEF vars, terminalVars, typedVars, files, own
  <2>2. TerminalTypes' /\ Types' /\ Ignored'
    BY <2>1 DEF IInv, TerminalTypes, Types, Ignored, Entry, world, Saving, Places, Menus, Prompts, Hidden
  <2>3. ASSUME NEW q \in Invocations PROVE Safe(q)' /\ Heard(q)'
    <3>1. Safe(q)'
      BY <2>1, SafeNext DEF IInv, Safe
    <3>2. Heard(q)'
      BY <2>1 DEF IInv, Heard, SequencesAreWhole, Bracketed, Complete, BracketIsNext, Menus
    <3>3. QED
      BY <3>1, <3>2
  <2>4. QED
    BY <2>2, <2>3 DEF IInv
<1>3. Next => \E i \in Invocations : StepOf(i)
  BY DEF Next, StepOf
<1>4. QED
  BY <1>1, <1>2, <1>3

LEMMA Invariance == Spec => []IInv
BY InitIsSafe, NextIsKept, PTL DEF Spec

-----------------------------------------------------------------------------
(* What it means for who runs ebl.                                         *)

\* Whatever mixture of flags, menus and answers it came from, what goes on to
\* Docker has a known artifact and engine, for a release a keystore that exists,
\* for an engine that needs one a token, and, where the wizard or the default of
\* build.cpp:547-558 chose it, a profile that the project declares, if it declares
\* any; for every checkout and any number of invocations.  Nothing is said of the
\* alias and the passwords, which nobody checks.
THEOREM StartsAreWellFormed == Spec => []StartsWellFormed
<1>1. IInv => StartsWellFormed
  BY DEF IInv, Safe, SafeAs, WellFormed, StartsWellFormed
<1>2. QED
  BY <1>1, Invariance, PTL

\* A token that stands in the project is ignored by git, or is about to be, and no
\* line of .gitignore is lost, however many invocations append to it.
THEOREM TokenFilesAreIgnored == Spec => []TokenFileIsIgnored
<1>1. IInv => TokenFileIsIgnored
  BY DEF IInv, Ignored, TokenFileIsIgnored
<1>2. QED
  BY <1>1, Invariance, PTL

\* Whatever is typed, and however its bytes arrive, no key but Escape cancels a
\* menu, unless a sequence was not there in time.
THEOREM CancelledOnlyByEscape == Spec => []CancelledByEscape
<1>1. IInv => CancelledByEscape
  BY DEF IInv, Heard, CancelledByEscape
<1>2. QED
  BY <1>1, Invariance, PTL

\* An invocation with --json asks nothing and answers in JSON when it gives up.
THEOREM JsonIsAlwaysAnswered == Spec => []JsonIsAnswered
<1>1. IInv => JsonIsAnswered
  <2>1. {"idle", "validate", "started"} \cap (Menus \cup Prompts) = {}
    BY DEF Menus, Prompts, Hidden
  <2>2. QED
    BY <2>1 DEF IInv, Safe, SafeAs, Silent, JsonIsAnswered
<1>2. QED
  BY <1>1, Invariance, PTL

=============================================================================
