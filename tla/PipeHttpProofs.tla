--------------------------- MODULE PipeHttpProofs ---------------------------
(***************************************************************************)
(* Proofs about Json: what parses of a text that was cut inside a list, an *)
(* object or a string is what parses of the whole.  So a list that was cut *)
(* is no JSON, and no answer.                                              *)
(*                                                                         *)
(* Proofs about PipeHttp: what is shown is a beginning of what the daemon  *)
(* reported, and a call answers what it would answer to all of it, for any *)
(* answers, any division of them into chunks and reads, and a connection   *)
(* that is closed at any byte.                                             *)
(***************************************************************************)
EXTENDS PipeHttp, Extremes

-----------------------------------------------------------------------------
(* Places of a text.                                                       *)

LEMMA SkipWsIs ==
    ASSUME NEW s \in Seq(STRING), NEW i \in Places(s)
    PROVE  /\ SkipWs(s, i) \in i..Len(s) + 1
           /\ SkipWs(s, i) > Len(s) \/ s[SkipWs(s, i)] \notin Blank
           /\ \A h \in i..SkipWs(s, i) - 1 : s[h] \in Blank
<1> DEFINE T == {k \in i..Len(s) + 1 : k > Len(s) \/ s[k] \notin Blank}
<1>1. Len(s) \in Nat /\ i \in Nat /\ i <= Len(s) + 1
  BY DEF Places
<1>2. Len(s) + 1 \in T /\ T \subseteq Nat
  BY <1>1
<1>3. PICK k \in T : \A m \in T : k <= m
  <2> HIDE DEF T
  <2>1. QED
    BY <1>2, LeastExists
<1>4. \A h \in i..k - 1 : s[h] \in Blank
  <2> TAKE h \in i..k - 1
  <2>1. h \in i..Len(s) + 1 /\ ~(k <= h)
    BY <1>1, <1>3
  <2>2. h \notin T
    BY <1>3, <2>1
  <2>3. QED
    BY <2>1, <2>2
<1>5. \E m \in i..Len(s) + 1 : (m > Len(s) \/ s[m] \notin Blank) /\ \A h \in i..m - 1 : s[h] \in Blank
  BY <1>3, <1>4
<1>6. QED
  BY <1>5 DEF SkipWs

LEMMA RunOfIs ==
    ASSUME NEW kind, NEW s \in Seq(STRING), NEW i \in Places(s)
    PROVE  /\ RunOf(kind, s, i) \in i..Len(s) + 1
           /\ RunOf(kind, s, i) > Len(s) \/ s[RunOf(kind, s, i)] \notin kind
           /\ \A h \in i..RunOf(kind, s, i) - 1 : s[h] \in kind
<1> DEFINE T == {k \in i..Len(s) + 1 : k > Len(s) \/ s[k] \notin kind}
<1>1. Len(s) \in Nat /\ i \in Nat /\ i <= Len(s) + 1
  BY DEF Places
<1>2. Len(s) + 1 \in T /\ T \subseteq Nat
  BY <1>1
<1>3. PICK k \in T : \A m \in T : k <= m
  <2> HIDE DEF T
  <2>1. QED
    BY <1>2, LeastExists
<1>4. \A h \in i..k - 1 : s[h] \in kind
  <2> TAKE h \in i..k - 1
  <2>1. h \in i..Len(s) + 1 /\ ~(k <= h)
    BY <1>1, <1>3
  <2>2. h \notin T
    BY <1>3, <2>1
  <2>3. QED
    BY <2>1, <2>2
<1>5. \E m \in i..Len(s) + 1 : (m > Len(s) \/ s[m] \notin kind) /\ \A h \in i..m - 1 : s[h] \in kind
  BY <1>3, <1>4
<1>6. QED
  BY <1>5 DEF RunOf

\* t is s up to a cut.
Cut(s, t) ==
    /\ s \in Seq(STRING) /\ t \in Seq(STRING) /\ Len(t) <= Len(s)
    /\ \A i \in 1..Len(t) : t[i] = s[i]

LEMMA CutIs ==
    ASSUME NEW s, NEW t, Cut(s, t)
    PROVE  /\ s \in Seq(STRING) /\ t \in Seq(STRING) /\ Len(s) \in Nat /\ Len(t) \in Nat /\ Len(t) <= Len(s)
           /\ Places(t) \subseteq Places(s)
           /\ \A i \in 1..Len(t) : t[i] = s[i]
BY DEF Cut, Places

\* What is there before the cut is there in the whole text.
LEMMA SameSkip ==
    ASSUME NEW s, NEW t, Cut(s, t), NEW i \in Places(t), SkipWs(t, i) <= Len(t)
    PROVE  SkipWs(s, i) = SkipWs(t, i) /\ SkipWs(t, i) \in 1..Len(t)
<1> DEFINE k == SkipWs(t, i)
           m == SkipWs(s, i)
<1>1. Len(t) \in Nat /\ Len(s) \in Nat /\ Len(t) <= Len(s) /\ i \in Nat /\ i >= 1 /\ i \in Places(s)
  BY CutIs DEF Places
<1>2. k \in i..Len(t) + 1 /\ k <= Len(t) /\ (k > Len(t) \/ t[k] \notin Blank) /\ \A h \in i..k - 1 : t[h] \in Blank
  BY CutIs, SkipWsIs
<1>3. m \in i..Len(s) + 1 /\ (m > Len(s) \/ s[m] \notin Blank) /\ \A h \in i..m - 1 : s[h] \in Blank
  BY <1>1, CutIs, SkipWsIs
<1> HIDE DEF k, m
<1>4. k \in 1..Len(t) /\ t[k] \notin Blank /\ s[k] = t[k]
  BY <1>1, <1>2, CutIs
<1>5. ~(k < m)
  BY <1>1, <1>2, <1>3, <1>4
<1>6. ~(m < k)
  <2> SUFFICES ASSUME m < k PROVE FALSE
    OBVIOUS
  <2>1. m \in 1..Len(t) /\ m \in i..k - 1 /\ m <= Len(s)
    BY <1>1, <1>2, <1>3
  <2>2. t[m] = s[m]
    BY <2>1, CutIs
  <2>3. QED
    BY <1>1, <1>2, <1>3, <2>1, <2>2
<1>7. k = m
  BY <1>1, <1>2, <1>3, <1>5, <1>6
<1>8. QED
  BY <1>4, <1>7 DEF k, m

LEMMA SameRun ==
    ASSUME NEW kind, NEW s, NEW t, Cut(s, t), NEW i \in Places(t), RunOf(kind, t, i) <= Len(t)
    PROVE  RunOf(kind, s, i) = RunOf(kind, t, i)
<1> DEFINE k == RunOf(kind, t, i)
           m == RunOf(kind, s, i)
<1>1. Len(t) \in Nat /\ Len(s) \in Nat /\ Len(t) <= Len(s) /\ i \in Nat /\ i >= 1 /\ i \in Places(s)
  BY CutIs DEF Places
<1>2. k \in i..Len(t) + 1 /\ k <= Len(t) /\ (k > Len(t) \/ t[k] \notin kind) /\ \A h \in i..k - 1 : t[h] \in kind
  BY CutIs, RunOfIs
<1>3. m \in i..Len(s) + 1 /\ (m > Len(s) \/ s[m] \notin kind) /\ \A h \in i..m - 1 : s[h] \in kind
  BY <1>1, CutIs, RunOfIs
<1> HIDE DEF k, m
<1>4. k \in 1..Len(t) /\ t[k] \notin kind /\ s[k] = t[k]
  BY <1>1, <1>2, CutIs
<1>5. ~(k < m)
  BY <1>1, <1>2, <1>3, <1>4
<1>6. ~(m < k)
  <2> SUFFICES ASSUME m < k PROVE FALSE
    OBVIOUS
  <2>1. m \in 1..Len(t) /\ m \in i..k - 1 /\ m <= Len(s)
    BY <1>1, <1>2, <1>3
  <2>2. t[m] = s[m]
    BY <2>1, CutIs
  <2>3. QED
    BY <1>1, <1>2, <1>3, <2>1, <2>2
<1>7. k = m
  BY <1>1, <1>2, <1>3, <1>5, <1>6
<1>8. QED
  BY <1>7 DEF k, m

LEMMA SameIs ==
    ASSUME NEW s, NEW t, Cut(s, t), NEW k \in 1..Len(t), NEW c
    PROVE  Is(s, k, c) = Is(t, k, c) /\ Is(t, k, c) = (t[k] = c)
<1>1. k <= Len(t) /\ k <= Len(s) /\ t[k] = s[k]
  BY CutIs
<1>2. QED
  BY <1>1 DEF Is

-----------------------------------------------------------------------------
(* Strings.                                                                *)

\* What is right is read to a place that comes later.
Moves(s, p, i) == p.error = "none" => p.next \in i + 1..Len(s) + 1

LEMMA ThenMoves ==
    ASSUME NEW s \in Seq(STRING), NEW i \in Nat, NEW j \in Nat, i <= j, NEW item, NEW rest, Moves(s, rest, j)
    PROVE  Moves(s, Then(item, rest), i)
<1>1. CASE rest.error = "none"
  <2>1. Then(item, rest).next = rest.next
    BY <1>1 DEF Then, Done
  <2>2. rest.next \in j + 1..Len(s) + 1
    BY <1>1 DEF Moves
  <2>3. QED
    BY <2>1, <2>2 DEF Moves
<1>2. CASE rest.error # "none"
  BY <1>2 DEF Then, Moves
<1>3. QED
  BY <1>1, <1>2

LEMMA FailsMoves ==
    ASSUME NEW s, NEW i, NEW error, error # "none"
    PROVE  Moves(s, Fails(error), i)
BY DEF Moves, Fails

LEMMA DoneMoves ==
    ASSUME NEW s, NEW i, NEW value, NEW k \in i + 1..Len(s) + 1
    PROVE  Moves(s, Done(value, k), i)
BY DEF Moves, Done

\* Two functions of the places that agree beyond i.
Agree(s, f, g, i) == \A k \in Places(s) : k > i => f[k] = g[k]

\* A string that starts at i rests on those that start later.
LEMMA StringLocal ==
    ASSUME NEW s \in Seq(STRING), NEW i \in Places(s), NEW f, NEW g, Agree(s, f, g, i)
    PROVE  ParseString(s, f, i) = ParseString(s, g, i)
<1>1. Len(s) \in Nat /\ i \in Nat /\ i >= 1 /\ i <= Len(s) + 1
  BY DEF Places
<1>2. i <= Len(s) => f[i + 1] = g[i + 1]
  BY <1>1 DEF Agree, Places
<1>3. i < Len(s) => f[i + 2] = g[i + 2]
  BY <1>1 DEF Agree, Places
<1>4. i + 5 <= Len(s) => f[i + 6] = g[i + 6]
  BY <1>1 DEF Agree, Places
<1>5. QED
  BY <1>1, <1>2, <1>3, <1>4 DEF ParseString, Is

LEMMA StringMoves ==
    ASSUME NEW s \in Seq(STRING), NEW i \in Places(s), NEW f,
           \A k \in Places(s) : k > i => Moves(s, f[k], k)
    PROVE  Moves(s, ParseString(s, f, i), i)
<1>1. Len(s) \in Nat /\ i \in Nat /\ i >= 1 /\ i <= Len(s) + 1
  BY DEF Places
<1>2. i <= Len(s) => \A x : Moves(s, Then(x, f[i + 1]), i)
  <2> SUFFICES ASSUME i <= Len(s), NEW x PROVE Moves(s, Then(x, f[i + 1]), i)
    OBVIOUS
  <2>1. i + 1 \in Places(s) /\ i + 1 \in Nat /\ i + 1 > i /\ i <= i + 1
    BY <1>1 DEF Places
  <2>2. QED
    BY <1>1, <2>1, ThenMoves
<1>3. i < Len(s) => \A x : Moves(s, Then(x, f[i + 2]), i)
  <2> SUFFICES ASSUME i < Len(s), NEW x PROVE Moves(s, Then(x, f[i + 2]), i)
    OBVIOUS
  <2>1. i + 2 \in Places(s) /\ i + 2 \in Nat /\ i + 2 > i /\ i <= i + 2
    BY <1>1 DEF Places
  <2>2. QED
    BY <1>1, <2>1, ThenMoves
<1>4. i + 5 <= Len(s) => \A x : Moves(s, Then(x, f[i + 6]), i)
  <2> SUFFICES ASSUME i + 5 <= Len(s), NEW x PROVE Moves(s, Then(x, f[i + 6]), i)
    OBVIOUS
  <2>1. i + 6 \in Places(s) /\ i + 6 \in Nat /\ i + 6 > i /\ i <= i + 6
    BY <1>1 DEF Places
  <2>2. QED
    BY <1>1, <2>1, ThenMoves
<1>5. i <= Len(s) => Moves(s, Done(<<>>, i + 1), i)
  <2>1. i <= Len(s) => i + 1 \in i + 1..Len(s) + 1
    BY <1>1
  <2>2. QED
    BY <2>1, DoneMoves
<1>6. Moves(s, Fails("JsonError"), i) /\ Moves(s, Fails("stoul"), i)
  BY FailsMoves
<1>7. QED
  BY <1>1, <1>2, <1>3, <1>4, <1>5, <1>6 DEF ParseString, Is

\* The recursion of Strings.
LEMMA StringsAre ==
    ASSUME NEW s \in Seq(STRING)
    PROVE  \A i \in Places(s) : Strings(s)[i] = ParseString(s, Strings(s), i)
<1> DEFINE Right(f, i) == f[i] = ParseString(s, f, i)
           From(f, k) == \A i \in Places(s) : i >= k => Right(f, i)
           Bad == {k \in 1..Len(s) + 2 : ~ \E f : From(f, k)}
<1>1. Len(s) \in Nat /\ Places(s) = 1..Len(s) + 1
  BY DEF Places
<1>2. Bad = {}
  <2> SUFFICES ASSUME Bad # {} PROVE FALSE
    OBVIOUS
  <2>1. Len(s) + 2 \in Nat /\ Bad \subseteq 0..Len(s) + 2
    BY <1>1
  <2>2. PICK k \in Bad : \A m \in Bad : m <= k
    <3> HIDE DEF Bad
    <3>1. QED
      BY <2>1, GreatestExists
  <2>3. k # Len(s) + 2
    <3>1. From(<<>>, Len(s) + 2)
      BY <1>1
    <3>2. QED
      BY <2>2, <3>1
  <2>4. k \in Nat /\ k \in Places(s) /\ k + 1 \in 1..Len(s) + 2 /\ ~(k + 1 <= k)
    BY <1>1, <2>2, <2>3
  <2>5. k + 1 \notin Bad
    BY <2>2, <2>4
  <2>6. PICK f : From(f, k + 1)
    BY <2>4, <2>5
  <2> DEFINE g == [i \in Places(s) |-> IF i = k THEN ParseString(s, f, k) ELSE f[i]]
  <2>7. \A i \in Places(s) : i >= k => Agree(s, f, g, i)
    <3> SUFFICES ASSUME NEW i \in Places(s), i >= k, NEW h \in Places(s), h > i PROVE f[h] = g[h]
      BY DEF Agree
    <3>1. h # k
      BY <1>1, <2>4
    <3>2. QED
      BY <3>1
  <2>8. \A i \in Places(s) : i >= k => Right(g, i)
    <3> SUFFICES ASSUME NEW i \in Places(s), i >= k PROVE Right(g, i)
      OBVIOUS
    <3>1. g[i] = ParseString(s, f, i)
      <4>1. CASE i = k
        BY <4>1
      <4>2. CASE i # k
        <5>1. i >= k + 1
          BY <1>1, <2>4, <4>2
        <5>2. Right(f, i)
          <6> HIDE DEF Right
          <6>1. QED
            BY <2>6, <5>1
        <5>3. QED
          BY <4>2, <5>2
      <4>3. QED
        BY <4>1, <4>2
    <3>2. ParseString(s, f, i) = ParseString(s, g, i)
      <4> HIDE DEF g
      <4>1. QED
        BY <2>7, StringLocal
    <3>3. QED
      BY <3>1, <3>2
  <2>9. QED
    BY <2>2, <2>8
<1>3. PICK f : From(f, 1)
  <2>1. 1 \in 1..Len(s) + 2
    BY <1>1
  <2>2. QED
    BY <1>2, <2>1
<1> DEFINE g == [i \in Places(s) |-> f[i]]
<1>4. \A i \in Places(s) : g[i] = ParseString(s, g, i)
  <2> SUFFICES ASSUME NEW i \in Places(s) PROVE g[i] = ParseString(s, g, i)
    OBVIOUS
  <2>1. Agree(s, f, g, i)
    BY DEF Agree
  <2>2. g[i] = f[i] /\ f[i] = ParseString(s, f, i)
    BY <1>1, <1>3
  <2> HIDE DEF g
  <2>3. QED
    BY <2>1, <2>2, StringLocal
<1>5. g = [i \in Places(s) |-> ParseString(s, g, i)]
  BY <1>4
<1> HIDE DEF g
<1>6. Strings(s) = [i \in Places(s) |-> ParseString(s, Strings(s), i)]
  BY <1>5 DEF Strings
<1>7. QED
  BY <1>6

LEMMA StringsMove ==
    ASSUME NEW s \in Seq(STRING)
    PROVE  \A i \in Places(s) : Moves(s, Strings(s)[i], i)
<1> DEFINE Bad == {i \in Places(s) : ~Moves(s, Strings(s)[i], i)}
<1> SUFFICES ASSUME Bad # {} PROVE FALSE
  OBVIOUS
<1>1. Len(s) + 1 \in Nat /\ Bad \subseteq 0..Len(s) + 1 /\ Places(s) \subseteq Nat
  BY DEF Places
<1>2. PICK i \in Bad : \A m \in Bad : m <= i
  <2> HIDE DEF Bad
  <2>1. QED
    BY <1>1, GreatestExists
<1>3. \A k \in Places(s) : k > i => Moves(s, Strings(s)[k], k)
  <2> SUFFICES ASSUME NEW k \in Places(s), k > i, k \in Bad PROVE FALSE
    OBVIOUS
  <2>1. k <= i /\ k \in Nat /\ i \in Nat
    BY <1>1, <1>2
  <2>2. QED
    BY <2>1
<1>4. Moves(s, ParseString(s, Strings(s), i), i)
  BY <1>2, <1>3, StringMoves
<1>5. QED
  BY <1>2, <1>4, StringsAre

LEMMA SameSubSeq ==
    ASSUME NEW s, NEW t, Cut(s, t), NEW i \in 1..Len(t) + 1, NEW j \in 0..Len(t)
    PROVE  SubSeq(s, i, j) = SubSeq(t, i, j)
<1>1. Len(t) \in Nat /\ Len(s) \in Nat /\ Len(t) <= Len(s) /\ s \in Seq(STRING) /\ t \in Seq(STRING)
  BY CutIs
<1>2. SubSeq(s, i, j) = [h \in 1..(j - i + 1) |-> s[i + h - 1]] /\ SubSeq(t, i, j) = [h \in 1..(j - i + 1) |-> t[i + h - 1]]
  <2>1. SubSeq(t, i, j) = [h \in 1..(IF i <= j THEN j - i + 1 ELSE 0) |-> t[i + h - 1]]
    BY <1>1
  <2>2. SubSeq(s, i, j) = [h \in 1..(IF i <= j THEN j - i + 1 ELSE 0) |-> s[i + h - 1]]
    BY <1>1
  <2>3. (1..(IF i <= j THEN j - i + 1 ELSE 0)) = 1..(j - i + 1)
    BY <1>1
  <2>4. QED
    BY <2>1, <2>2, <2>3
<1>3. \A h \in 1..(j - i + 1) : s[i + h - 1] = t[i + h - 1]
  <2> TAKE h \in 1..(j - i + 1)
  <2>1. i + h - 1 \in 1..Len(t)
    BY <1>1
  <2>2. QED
    BY <2>1, CutIs
<1>4. QED
  BY <1>2, <1>3

\* The cases of ParseString.
LEMMA StringForms ==
    ASSUME NEW s \in Seq(STRING), NEW f, NEW i \in Places(s)
    PROVE  /\ i = Len(s) + 1 => ParseString(s, f, i).error # "none"
           /\ i <= Len(s) /\ s[i] = "quote" => ParseString(s, f, i) = Done(<<>>, i + 1)
           /\ i <= Len(s) /\ s[i] \notin {"quote", "backslash"} => ParseString(s, f, i) = Then(s[i], f[i + 1])
           /\ i = Len(s) /\ s[i] = "backslash" => ParseString(s, f, i).error # "none"
           /\ i < Len(s) /\ s[i] = "backslash" /\ s[i + 1] \in DOMAIN Unescaped =>
                ParseString(s, f, i) = Then(Unescaped[s[i + 1]], f[i + 2])
           /\ i < Len(s) /\ s[i] = "backslash" /\ s[i + 1] \notin DOMAIN Unescaped =>
                IF s[i + 1] = "u" /\ i + 5 <= Len(s) /\ IsHex(SubSeq(s, i + 2, i + 5))
                  THEN ParseString(s, f, i) = Then(CodePoint(SubSeq(s, i + 2, i + 5)), f[i + 6])
                  ELSE ParseString(s, f, i).error # "none"
<1>1. Len(s) \in Nat /\ i \in Nat /\ i >= 1 /\ i <= Len(s) + 1
  BY DEF Places
<1> DEFINE P == ParseString(s, f, i)
           E == DOMAIN Unescaped
<1> HIDE DEF E
<1>2. CASE i = Len(s) + 1
  <2>1. i > Len(s) /\ ~(i <= Len(s)) /\ ~(i < Len(s)) /\ ~(i + 5 <= Len(s))
    BY <1>1, <1>2
  <2>2. P = Fails("JsonError")
    BY <2>1 DEF ParseString, Is
  <2>3. QED
    BY <1>1, <1>2, <2>2 DEF Fails
<1>3. CASE i <= Len(s) /\ s[i] = "quote"
  <2>1. ~(i > Len(s)) /\ Is(s, i, "quote")
    BY <1>1, <1>3 DEF Is
  <2>2. P = Done(<<>>, i + 1)
    BY <1>3, <2>1 DEF ParseString, Is
  <2>3. QED
    BY <1>1, <1>3, <2>2
<1>4. CASE i <= Len(s) /\ s[i] \notin {"quote", "backslash"}
  <2>1. ~(i > Len(s))
    BY <1>1, <1>4
  <2>2. P = Then(s[i], f[i + 1])
    BY <1>4, <2>1 DEF ParseString, Is
  <2>3. QED
    BY <1>1, <1>4, <2>2
<1>5. CASE i = Len(s) /\ s[i] = "backslash"
  <2>1. ~(i > Len(s)) /\ ~(i < Len(s)) /\ ~(i + 5 <= Len(s))
    BY <1>1, <1>5
  <2>2. P = Fails("JsonError")
    BY <1>5, <2>1 DEF ParseString, Is
  <2>3. QED
    BY <1>1, <1>5, <2>2 DEF Fails
<1>6. CASE i < Len(s) /\ s[i] = "backslash" /\ s[i + 1] \in E
  <2>1. ~(i > Len(s)) /\ i < Len(s) /\ i <= Len(s)
    BY <1>1, <1>6
  <2>2. "u" \notin E
    BY DEF E, Unescaped
  <2>3. P = Then(Unescaped[s[i + 1]], f[i + 2])
    BY <1>6, <2>1, <2>2 DEF ParseString, Is, E
  <2>4. QED
    BY <1>1, <1>6, <2>3 DEF E
<1>7. CASE i < Len(s) /\ s[i] = "backslash" /\ s[i + 1] \notin E
  <2>1. ~(i > Len(s)) /\ i < Len(s) /\ i <= Len(s) /\ i + 1 <= Len(s)
    BY <1>1, <1>7
  <2>2. P = IF s[i + 1] = "u" /\ i + 5 <= Len(s)
              THEN IF IsHex(SubSeq(s, i + 2, i + 5)) THEN Then(CodePoint(SubSeq(s, i + 2, i + 5)), f[i + 6])
                                                 ELSE Fails("stoul")
              ELSE Fails("JsonError")
    BY <1>7, <2>1 DEF ParseString, Is, E
  <2>3. QED
    BY <1>1, <1>7, <2>2 DEF Fails, E
<1>8. QED
  BY <1>1, <1>2, <1>3, <1>4, <1>5, <1>6, <1>7 DEF E

\* A string that ends before the cut is the whole one.
LEMMA SameString ==
    ASSUME NEW s, NEW t, Cut(s, t)
    PROVE  \A i \in Places(t) : Strings(t)[i].error = "none" => Strings(s)[i] = Strings(t)[i]
<1> DEFINE Bad == {i \in Places(t) : Strings(t)[i].error = "none" /\ Strings(s)[i] # Strings(t)[i]}
<1> SUFFICES ASSUME Bad # {} PROVE FALSE
  OBVIOUS
<1>1. /\ Len(t) \in Nat /\ Len(s) \in Nat /\ Len(t) <= Len(s) /\ s \in Seq(STRING) /\ t \in Seq(STRING)
      /\ Places(t) = 1..Len(t) + 1 /\ Places(t) \subseteq Places(s) /\ Bad \subseteq 0..Len(t) + 1
  BY CutIs DEF Places
<1>2. PICK i \in Bad : \A m \in Bad : m <= i
  <2>1. Len(t) + 1 \in Nat
    BY <1>1
  <2> HIDE DEF Bad
  <2>2. QED
    BY <1>1, <2>1, GreatestExists
<1> DEFINE f == Strings(t)
           g == Strings(s)
<1>3. f[i] = ParseString(t, f, i) /\ g[i] = ParseString(s, g, i)
  BY <1>1, <1>2, StringsAre
<1>4. \A k \in Places(t) : k > i /\ f[k].error = "none" => g[k] = f[k]
  <2> SUFFICES ASSUME NEW k \in Places(t), k > i, k \in Bad PROVE FALSE
    OBVIOUS
  <2>1. k <= i
    BY <1>2
  <2>2. QED
    BY <1>1, <1>2, <2>1
<1>5. i \in Places(t) /\ f[i].error = "none" /\ g[i] # f[i]
  BY <1>2
<1> HIDE DEF Bad, f, g
<1>6. i <= Len(t)
  BY <1>1, <1>3, <1>5, StringForms
<1>7. i \in 1..Len(t) /\ i <= Len(s) /\ i \in Places(s) /\ s[i] = t[i]
  <2>1. i \in 1..Len(t)
    BY <1>1, <1>5, <1>6
  <2>2. QED
    BY <1>1, <1>5, <1>6, <2>1, CutIs
\* Where the string goes on, it goes on alike.
<1>8. \A x, k : k \in Places(t) /\ k > i /\ f[i] = Then(x, f[k]) => g[k] = f[k]
  <2> SUFFICES ASSUME NEW x, NEW k \in Places(t), k > i, f[i] = Then(x, f[k]) PROVE g[k] = f[k]
    OBVIOUS
  <2>1. f[k].error = "none"
    BY <1>5 DEF Then
  <2>2. QED
    BY <1>4, <2>1
<1>9. CASE t[i] = "quote"
  <2>1. f[i] = Done(<<>>, i + 1)
    BY <1>1, <1>3, <1>5, <1>6, <1>9, StringForms
  <2>2. g[i] = Done(<<>>, i + 1)
    BY <1>1, <1>3, <1>7, <1>9, StringForms
  <2>3. QED
    BY <1>5, <2>1, <2>2
<1>10. CASE t[i] \notin {"quote", "backslash"}
  <2>1. i + 1 \in Places(t) /\ i + 1 > i
    BY <1>1, <1>7
  <2>2. f[i] = Then(t[i], f[i + 1])
    BY <1>1, <1>3, <1>5, <1>6, <1>10, StringForms
  <2>3. g[i] = Then(t[i], g[i + 1])
    BY <1>1, <1>3, <1>7, <1>10, StringForms
  <2>4. QED
    BY <1>5, <1>8, <2>1, <2>2, <2>3
<1>11. CASE t[i] = "backslash"
  <2>1. i < Len(t)
    <3>1. i # Len(t)
      BY <1>1, <1>3, <1>5, <1>11, StringForms
    <3>2. QED
      BY <1>1, <1>7, <3>1
  <2>2. i + 1 \in 1..Len(t) /\ i < Len(s) /\ s[i + 1] = t[i + 1]
    <3>1. i + 1 \in 1..Len(t) /\ i < Len(s)
      BY <1>1, <1>7, <2>1
    <3>2. QED
      BY <3>1, CutIs
  <2>4. CASE t[i + 1] \in DOMAIN Unescaped
    <3>1. f[i] = Then(Unescaped[t[i + 1]], f[i + 2])
      BY <1>1, <1>3, <1>5, <1>11, <2>1, <2>4, StringForms
    <3>2. g[i] = Then(Unescaped[t[i + 1]], g[i + 2])
      BY <1>1, <1>3, <1>7, <1>11, <2>2, <2>4, StringForms
    <3>3. i + 2 \in Places(t) /\ i + 2 > i
      BY <1>1, <1>7, <2>1
    <3>4. QED
      BY <1>5, <1>8, <3>1, <3>2, <3>3
  <2>5. CASE t[i + 1] \notin DOMAIN Unescaped
    <3>1. /\ t[i + 1] = "u" /\ i + 5 <= Len(t) /\ IsHex(SubSeq(t, i + 2, i + 5))
          /\ f[i] = Then(CodePoint(SubSeq(t, i + 2, i + 5)), f[i + 6])
      BY <1>1, <1>3, <1>5, <1>11, <2>1, <2>5, StringForms, SMTT(40)
    <3>2. /\ i + 2 \in 1..Len(t) /\ i + 2 \in 1..Len(t) + 1 /\ i + 5 \in 0..Len(t)
          /\ i + 6 \in Places(t) /\ i + 6 > i /\ i + 5 <= Len(s)
      <4>1. i \in Nat /\ i >= 1 /\ i + 5 <= Len(t)
        BY <1>7, <3>1
      <4>2. QED
        BY <1>1, <4>1
    <3>3. SubSeq(s, i + 2, i + 5) = SubSeq(t, i + 2, i + 5)
      BY <3>2, SameSubSeq
    <3>4. g[i] = Then(CodePoint(SubSeq(s, i + 2, i + 5)), g[i + 6])
      <4>1. /\ i < Len(s) /\ s[i] = "backslash" /\ s[i + 1] = "u" /\ s[i + 1] \notin DOMAIN Unescaped
            /\ i + 5 <= Len(s) /\ i \in Places(s)
        BY <1>7, <1>11, <2>2, <2>5, <3>1, <3>2
      <4>2. IsHex(SubSeq(s, i + 2, i + 5))
        BY <3>1, <3>3
      <4>3. ParseString(s, g, i) = Then(CodePoint(SubSeq(s, i + 2, i + 5)), g[i + 6])
        BY <1>1, <4>1, <4>2, StringForms
      <4>4. QED
        BY <1>3, <4>3
    <3>5. QED
      BY <1>5, <1>8, <3>1, <3>2, <3>3, <3>4
  <2>6. QED
    BY <2>4, <2>5
<1>12. QED
  BY <1>9, <1>10, <1>11

-----------------------------------------------------------------------------
(* Values.  The items and the members at a place begin with a value, that  *)
(* is there or later; all else comes later.                                *)

Rank(kind, i) == 2 * i + (IF kind = "value" THEN 1 ELSE 0)

LEMMA RankIs ==
    ASSUME NEW i \in Nat, NEW kind
    PROVE  /\ Rank(kind, i) \in 2 * i..2 * i + 1
           /\ Rank("items", i) < Rank("value", i) /\ Rank("members", i) < Rank("value", i)
           /\ \A k \in Nat : i < k => \A other : Rank(kind, i) < Rank(other, k)
<1>1. Rank(kind, i) \in 2 * i..2 * i + 1
  BY DEF Rank
<1>2. Rank("items", i) < Rank("value", i) /\ Rank("members", i) < Rank("value", i)
  BY DEF Rank
<1>3. ASSUME NEW k \in Nat, NEW other, i < k PROVE Rank(kind, i) < Rank(other, k)
  <2>1. Rank(other, k) \in 2 * k..2 * k + 1
    BY DEF Rank
  <2>2. QED
    BY <1>1, <1>3, <2>1
<1>4. QED
  BY <1>1, <1>2, <1>3

\* Two functions agree above a rank; what is there above a rank moves.
AgreeAbove(s, f, g, r) ==
    \A kind \in Kinds, k \in Places(s) : Rank(kind, k) > r => f[<<kind, k>>] = g[<<kind, k>>]

MoveAbove(s, f, r) ==
    \A kind \in Kinds, k \in Places(s) : Rank(kind, k) > r => Moves(s, f[<<kind, k>>], k)

\* What is made of what was parsed.
Made(value, p) == IF p.error = "none" THEN Done(value, p.next) ELSE p

LEMMA MadeMoves ==
    ASSUME NEW s \in Seq(STRING), NEW i \in Nat, NEW j \in Nat, i <= j, NEW value, NEW p, Moves(s, p, j)
    PROVE  Moves(s, Made(value, p), i)
<1>1. CASE p.error = "none"
  <2>1. Made(value, p).next = p.next
    BY <1>1 DEF Made, Done
  <2>2. p.next \in j + 1..Len(s) + 1
    BY <1>1 DEF Moves
  <2>3. QED
    BY <2>1, <2>2 DEF Moves
<1>2. CASE p.error # "none"
  BY <1>2 DEF Made, Moves
<1>3. QED
  BY <1>1, <1>2

\* Where a number begins and ends.
LEMMA NumberIs ==
    ASSUME NEW s \in Seq(STRING), NEW i \in 1..Len(s), ParseNumber(s, i).error = "none"
    PROVE  \E first \in {i, i + 1} : LET end == RunOf(Range(Digits), s, first)
                                         n   == NumberOf(SubSeq(s, first, end - 1)) IN
             /\ first = IF Is(s, i, "-") \/ Is(s, i, "+") THEN i + 1 ELSE i
             /\ first \in Places(s) /\ end \in first + 1..Len(s) + 1
             /\ ParseNumber(s, i) = Done(Number(IF Is(s, i, "-") THEN -n ELSE n), end)
<1> DEFINE first == IF Is(s, i, "-") \/ Is(s, i, "+") THEN i + 1 ELSE i
           end   == RunOf(Range(Digits), s, first)
           n     == NumberOf(SubSeq(s, first, end - 1))
           v     == Number(IF Is(s, i, "-") THEN -n ELSE n)
<1>1. Len(s) \in Nat /\ i \in Nat /\ first \in {i, i + 1} /\ first \in Places(s)
  BY DEF Places
<1>2. end \in first..Len(s) + 1
  BY <1>1, RunOfIs
<1>3. ParseNumber(s, i) = CASE end = i -> Fails("JsonError")
                            [] end = first /\ end > i -> Fails("stod")
                            [] end > first -> Done(v, end)
  BY DEF ParseNumber
<1> HIDE DEF v, n, end, first
<1>4. end # i
  <2> SUFFICES ASSUME end = i PROVE FALSE
    OBVIOUS
  <2>1. ~(end > i) /\ ~(end > first)
    BY <1>1, <1>2
  <2>2. QED
    BY <1>3, <2>1 DEF Fails
<1>5. end # first
  <2> SUFFICES ASSUME end = first PROVE FALSE
    OBVIOUS
  <2>1. end > i /\ ~(end > first)
    BY <1>1, <1>2, <1>4
  <2>2. QED
    BY <1>3, <1>4, <2>1 DEF Fails
<1>6. end > first /\ end \in first + 1..Len(s) + 1
  BY <1>1, <1>2, <1>5
<1>7. ParseNumber(s, i) = Done(v, end)
  BY <1>3, <1>4, <1>5, <1>6
<1>8. QED
  BY <1>1, <1>6, <1>7 DEF v, n, end, first

LEMMA NumberMoves ==
    ASSUME NEW s \in Seq(STRING), NEW i \in 1..Len(s)
    PROVE  Moves(s, ParseNumber(s, i), i)
<1>1. CASE ParseNumber(s, i).error = "none"
  <2> DEFINE End(first) == RunOf(Range(Digits), s, first)
             V(first)   == Number(IF Is(s, i, "-") THEN -NumberOf(SubSeq(s, first, End(first) - 1))
                                                   ELSE NumberOf(SubSeq(s, first, End(first) - 1)))
  <2>4. PICK first \in {i, i + 1} : End(first) \in first + 1..Len(s) + 1 /\ ParseNumber(s, i) = Done(V(first), End(first))
    BY <1>1, NumberIs
  <2> HIDE DEF End, V
  <2>1. PICK end, v : end \in first + 1..Len(s) + 1 /\ ParseNumber(s, i) = Done(v, end)
    BY <2>4
  <2>2. end \in i + 1..Len(s) + 1 /\ Len(s) \in Nat
    BY <2>1
  <2>3. QED
    BY <2>1, <2>2, DoneMoves
<1>2. CASE ParseNumber(s, i).error # "none"
  BY <1>2 DEF Moves
<1>3. QED
  BY <1>1, <1>2

\* A number that is followed by something is the same in the whole text.
LEMMA SameNumber ==
    ASSUME NEW s, NEW t, Cut(s, t), NEW i \in 1..Len(t),
           ParseNumber(t, i).error = "none", ParseNumber(t, i).next <= Len(t)
    PROVE  ParseNumber(s, i) = ParseNumber(t, i)
<1>1. Len(t) \in Nat /\ Len(s) \in Nat /\ s \in Seq(STRING) /\ t \in Seq(STRING) /\ i \in 1..Len(s)
  BY CutIs
<1>2. PICK first \in {i, i + 1} : LET end == RunOf(Range(Digits), t, first)
                                      n   == NumberOf(SubSeq(t, first, end - 1)) IN
             /\ first = IF Is(t, i, "-") \/ Is(t, i, "+") THEN i + 1 ELSE i
             /\ first \in Places(t) /\ end \in first + 1..Len(t) + 1
             /\ ParseNumber(t, i) = Done(Number(IF Is(t, i, "-") THEN -n ELSE n), end)
  BY <1>1, NumberIs
<1> DEFINE end == RunOf(Range(Digits), t, first)
           n   == NumberOf(SubSeq(t, first, end - 1))
           v   == Number(IF Is(t, i, "-") THEN -n ELSE n)
<1>3. end <= Len(t)
  BY <1>2 DEF Done
<1>4. RunOf(Range(Digits), s, first) = end
  BY <1>2, <1>3, SameRun
<1>5. SubSeq(s, first, end - 1) = SubSeq(t, first, end - 1)
  <2>1. first \in 1..Len(t) + 1 /\ end - 1 \in 0..Len(t)
    BY <1>1, <1>2, <1>3
  <2>2. QED
    BY <2>1, SameSubSeq
<1>6. Is(s, i, "-") = Is(t, i, "-") /\ Is(s, i, "+") = Is(t, i, "+")
  BY SameIs
<1>7. end # i /\ end # first /\ end > first
  BY <1>1, <1>2
<1>8. ParseNumber(s, i) = CASE end = i -> Fails("JsonError")
                            [] end = first /\ end > i -> Fails("stod")
                            [] end > first -> Done(v, end)
  <2>1. first = IF Is(s, i, "-") \/ Is(s, i, "+") THEN i + 1 ELSE i
    BY <1>2, <1>6
  <2> HIDE DEF end
  <2>2. QED
    BY <1>4, <1>5, <1>6, <2>1 DEF ParseNumber
<1>9. ParseNumber(t, i) = Done(v, end)
  BY <1>2
<1> HIDE DEF v, n, end
<1>10. QED
  BY <1>7, <1>8, <1>9

\* The cases of ParseValue.
ValueForm(s, f, i, k) ==
    /\ k > Len(s) => ParseValue(s, f, i).error # "none"
    /\ k <= Len(s) /\ s[k] = "{" /\ Is(s, SkipWs(s, k + 1), "}") =>
         ParseValue(s, f, i) = Done(Object(<<>>), SkipWs(s, k + 1) + 1)
    /\ k <= Len(s) /\ s[k] = "{" /\ ~Is(s, SkipWs(s, k + 1), "}") =>
         ParseValue(s, f, i) = Made(ObjectOf(f[<<"members", k + 1>>].value), f[<<"members", k + 1>>])
    /\ k <= Len(s) /\ s[k] = "[" /\ Is(s, SkipWs(s, k + 1), "]") =>
         ParseValue(s, f, i) = Done(Array(<<>>), SkipWs(s, k + 1) + 1)
    /\ k <= Len(s) /\ s[k] = "[" /\ ~Is(s, SkipWs(s, k + 1), "]") =>
         ParseValue(s, f, i) = Made(Array(f[<<"items", k + 1>>].value), f[<<"items", k + 1>>])
    /\ k <= Len(s) /\ s[k] = "quote" =>
         ParseValue(s, f, i) = Made(String(Strings(s)[k + 1].value), Strings(s)[k + 1])
    /\ k <= Len(s) /\ s[k] \in {"true", "false"} =>
         ParseValue(s, f, i) = Done(Boolean(s[k] = "true"), k + 1)
    /\ k <= Len(s) /\ s[k] = "null" => ParseValue(s, f, i) = Done(Null, k + 1)
    /\ k <= Len(s) /\ s[k] \notin {"{", "[", "quote", "true", "false", "null"} =>
         ParseValue(s, f, i) = ParseNumber(s, k)

LEMMA ValueForms ==
    ASSUME NEW s \in Seq(STRING), NEW f, NEW i \in Places(s), NEW k, k = SkipWs(s, i)
    PROVE  ValueForm(s, f, i, k)
<1> DEFINE P  == ParseValue(s, f, i)
           ms == f[<<"members", k + 1>>]
           is == f[<<"items", k + 1>>]
           st == Strings(s)[k + 1]
           ke == Is(s, SkipWs(s, k + 1), "}")
           le == Is(s, SkipWs(s, k + 1), "]")
           ko == Done(Object(<<>>), SkipWs(s, k + 1) + 1)
           lo == Done(Array(<<>>), SkipWs(s, k + 1) + 1)
           vm == ObjectOf(ms.value)
           vi == Array(is.value)
           vs == String(st.value)
<1>1. Len(s) \in Nat /\ k \in Nat
  BY SkipWsIs DEF Places
<1>2. P = CASE k > Len(s) -> Fails("JsonError")
      [] Is(s, k, "{") -> IF ke THEN ko ELSE Made(vm, ms)
      [] Is(s, k, "[") -> IF le THEN lo ELSE Made(vi, is)
      [] Is(s, k, "quote") -> Made(vs, st)
      [] k <= Len(s) /\ s[k] \in {"true", "false"} -> Done(Boolean(s[k] = "true"), k + 1)
      [] Is(s, k, "null") -> Done(Null, k + 1)
      [] OTHER -> ParseNumber(s, k)
  BY DEF ParseValue, Made
<1> DEFINE b == Boolean(s[k] = "true")
<1> HIDE DEF P, ms, is, st, ke, le, ko, lo, vm, vi, vs, b
<1>3. k > Len(s) => P = Fails("JsonError")
  <2> SUFFICES ASSUME k > Len(s) PROVE P = Fails("JsonError")
    OBVIOUS
  <2>1. ~(k <= Len(s))
    BY <1>1
  <2>2. QED
    BY <1>2, <2>1 DEF Is
<1>4. Fails("JsonError").error # "none"
  BY DEF Fails
<1>5. k <= Len(s) => ~(k > Len(s))
  BY <1>1
<1>6. k <= Len(s) /\ s[k] = "{" => P = IF ke THEN ko ELSE Made(vm, ms)
  BY <1>2, <1>5 DEF Is
<1>7. k <= Len(s) /\ s[k] = "[" => P = IF le THEN lo ELSE Made(vi, is)
  BY <1>2, <1>5 DEF Is
<1>8. k <= Len(s) /\ s[k] = "quote" => P = Made(vs, st)
  BY <1>2, <1>5 DEF Is
<1>9. k <= Len(s) /\ s[k] \in {"true", "false"} => P = Done(b, k + 1)
  BY <1>2, <1>5 DEF Is, b
<1>10. k <= Len(s) /\ s[k] = "null" => P = Done(Null, k + 1)
  BY <1>2, <1>5 DEF Is
<1>11. k <= Len(s) /\ s[k] \notin {"{", "[", "quote", "true", "false", "null"} => P = ParseNumber(s, k)
  BY <1>2, <1>5 DEF Is
<1>12. QED
  BY <1>3, <1>4, <1>6, <1>7, <1>8, <1>9, <1>10, <1>11 DEF ValueForm, P, ms, is, st, ke, le, ko, lo, vm, vi, vs, b

\* The cases of ParseArray.
ItemsForm(s, f, i, p, k) ==
    /\ p.error # "none" => ParseArray(s, f, i) = p
    /\ p.error = "none" /\ Is(s, k, "]") => ParseArray(s, f, i) = Done(<<p.value>>, k + 1)
    /\ p.error = "none" /\ Is(s, k, ",") => ParseArray(s, f, i) = Then(p.value, f[<<"items", k + 1>>])
    /\ p.error = "none" /\ ~Is(s, k, "]") /\ ~Is(s, k, ",") => ParseArray(s, f, i).error # "none"

LEMMA ItemsForms ==
    ASSUME NEW s, NEW f, NEW i, NEW p, p = f[<<"value", i>>], NEW k, k = SkipWs(s, p.next)
    PROVE  ItemsForm(s, f, i, p, k)
<1> DEFINE P == ParseArray(s, f, i)
           d == Done(<<p.value>>, k + 1)
           h == Then(p.value, f[<<"items", k + 1>>])
<1>1. P = CASE p.error # "none" -> p
            [] p.error = "none" /\ Is(s, k, "]") -> d
            [] p.error = "none" /\ Is(s, k, ",") -> h
            [] OTHER -> Fails("JsonError")
  BY DEF ParseArray
<1>2. ~(Is(s, k, "]") /\ Is(s, k, ","))
  BY DEF Is
<1> HIDE DEF P, d, h
<1>3. p.error # "none" => P = p
  BY <1>1
<1>4. p.error = "none" /\ Is(s, k, "]") => P = d
  BY <1>1, <1>2
<1>5. p.error = "none" /\ Is(s, k, ",") => P = h
  BY <1>1, <1>2
<1>6. p.error = "none" /\ ~Is(s, k, "]") /\ ~Is(s, k, ",") => P.error # "none"
  BY <1>1 DEF Fails
<1>7. QED
  BY <1>3, <1>4, <1>5, <1>6 DEF ItemsForm, P, d, h

\* The cases of ParseObject.
MembersForm(s, f, start, i, key, colon, p, k) ==
    /\ ~Is(s, i, "quote") \/ key.error # "none" \/ ~Is(s, colon, ":") =>
         ParseObject(s, f, start).error # "none"
    /\ Is(s, i, "quote") /\ key.error = "none" /\ Is(s, colon, ":") =>
         /\ p.error # "none" => ParseObject(s, f, start) = p
         /\ p.error = "none" /\ Is(s, k, "}") =>
              ParseObject(s, f, start) = Done(<< <<key.value, p.value>> >>, k + 1)
         /\ p.error = "none" /\ Is(s, k, ",") =>
              ParseObject(s, f, start) = Then(<<key.value, p.value>>, f[<<"members", k + 1>>])
         /\ p.error = "none" /\ ~Is(s, k, "}") /\ ~Is(s, k, ",") => ParseObject(s, f, start).error # "none"

LEMMA MembersForms ==
    ASSUME NEW s, NEW f, NEW start, NEW i, i = SkipWs(s, start), NEW key, key = Strings(s)[i + 1],
           NEW colon, colon = SkipWs(s, key.next), NEW p, p = f[<<"value", colon + 1>>],
           NEW k, k = SkipWs(s, p.next)
    PROVE  MembersForm(s, f, start, i, key, colon, p, k)
<1> DEFINE P == ParseObject(s, f, start)
           d == Done(<< <<key.value, p.value>> >>, k + 1)
           h == Then(<<key.value, p.value>>, f[<<"members", k + 1>>])
<1>1. P = CASE ~Is(s, i, "quote") -> Fails("JsonError")
            [] Is(s, i, "quote") /\ key.error # "none" -> key
            [] Is(s, i, "quote") /\ key.error = "none" /\ ~Is(s, colon, ":") -> Fails("JsonError")
            [] OTHER -> CASE p.error # "none" -> p
                          [] p.error = "none" /\ Is(s, k, "}") -> d
                          [] p.error = "none" /\ Is(s, k, ",") -> h
                          [] OTHER -> Fails("JsonError")
  BY DEF ParseObject
<1>2. ~(Is(s, k, "}") /\ Is(s, k, ","))
  BY DEF Is
<1> DEFINE quoted == Is(s, i, "quote")
           parted == Is(s, colon, ":")
           ends   == Is(s, k, "}")
           more   == Is(s, k, ",")
<1> HIDE DEF P, d, h, quoted, parted, ends, more
<1>3. ~quoted \/ key.error # "none" \/ ~parted => P.error # "none"
  BY <1>1 DEF Fails, quoted, parted
<1>4. quoted /\ key.error = "none" /\ parted =>
        P = CASE p.error # "none" -> p
              [] p.error = "none" /\ ends -> d
              [] p.error = "none" /\ more -> h
              [] OTHER -> Fails("JsonError")
  BY <1>1 DEF quoted, parted, ends, more
<1>5. quoted /\ key.error = "none" /\ parted /\ p.error # "none" => P = p
  BY <1>4
<1>6. quoted /\ key.error = "none" /\ parted /\ p.error = "none" /\ ends => P = d
  BY <1>2, <1>4 DEF ends, more
<1>7. quoted /\ key.error = "none" /\ parted /\ p.error = "none" /\ more => P = h
  BY <1>2, <1>4 DEF ends, more
<1>8. quoted /\ key.error = "none" /\ parted /\ p.error = "none" /\ ~ends /\ ~more => P.error # "none"
  BY <1>4 DEF Fails
<1>9. QED
  BY <1>3, <1>5, <1>6, <1>7, <1>8 DEF MembersForm, P, d, h, quoted, parted, ends, more

\* A place in the text, and the one after it.
LEMMA Ahead ==
    ASSUME NEW s \in Seq(STRING), NEW i \in Places(s), NEW k, k \in i..Len(s) + 1, NEW c, Is(s, k, c)
    PROVE  /\ k \in Places(s) /\ k + 1 \in Places(s) /\ k \in Nat /\ i \in Nat /\ k + 1 \in Nat
           /\ i <= k /\ i < k + 1 /\ k <= Len(s) /\ s[k] = c /\ k + 1 \in i + 1..Len(s) + 1
           /\ \A kind, other : Rank(other, k + 1) > Rank(kind, i)
<1>1. Len(s) \in Nat /\ i \in Nat /\ i >= 1 /\ k \in Nat /\ k <= Len(s) /\ i <= k /\ s[k] = c
  BY DEF Places, Is
<1>2. k \in Places(s) /\ k + 1 \in Places(s) /\ k + 1 \in Nat /\ i < k + 1 /\ k + 1 \in i + 1..Len(s) + 1
  BY <1>1 DEF Places
<1>3. \A kind, other : Rank(other, k + 1) > Rank(kind, i)
  <2> TAKE kind, other
  <2>1. Rank(kind, i) < Rank(other, k + 1)
    BY <1>1, <1>2, RankIs
  <2>2. Rank(kind, i) \in Nat /\ Rank(other, k + 1) \in Nat
    BY <1>1, <1>2 DEF Rank
  <2>3. QED
    BY <2>1, <2>2
<1>4. QED
  BY <1>1, <1>2, <1>3

\* What follows something that is right.
LEMMA Onward ==
    ASSUME NEW s \in Seq(STRING), NEW i \in Places(s), NEW p, Moves(s, p, i), p.error = "none"
    PROVE  p.next \in Places(s) /\ SkipWs(s, p.next) \in i..Len(s) + 1
<1>1. Len(s) \in Nat /\ i \in Nat /\ i >= 1 /\ Places(s) = 1..Len(s) + 1
  BY DEF Places
<1>2. PICK n : n = p.next /\ n \in i + 1..Len(s) + 1
  BY DEF Moves
<1>3. n \in Places(s)
  BY <1>1, <1>2
<1>4. SkipWs(s, n) \in n..Len(s) + 1
  BY <1>3, SkipWsIs
<1>5. SkipWs(s, n) \in i..Len(s) + 1
  BY <1>1, <1>2, <1>4
<1>6. QED
  BY <1>2, <1>3, <1>5

\* What the values, items and members at a place rest on; they move.
LEMMA ValueMoves ==
    ASSUME NEW s \in Seq(STRING), NEW f, NEW i \in Places(s), MoveAbove(s, f, Rank("value", i))
    PROVE  Moves(s, ParseValue(s, f, i), i)
<1>0. PICK k : k = SkipWs(s, i)
  OBVIOUS
<1>1. Len(s) \in Nat /\ i \in Nat /\ i >= 1 /\ k \in i..Len(s) + 1 /\ k \in Nat
  BY <1>0, SkipWsIs DEF Places
<1>f. ValueForm(s, f, i, k)
  BY <1>0, ValueForms
<1> DEFINE P == ParseValue(s, f, i)
<1>2. \A c : Is(s, k, c) => /\ k \in 1..Len(s) /\ k + 1 \in Places(s) /\ k + 1 \in Nat /\ i <= k + 1
                            /\ k + 1 \in i + 1..Len(s) + 1
                            /\ Moves(s, f[<<"items", k + 1>>], k + 1) /\ Moves(s, f[<<"members", k + 1>>], k + 1)
                            /\ SkipWs(s, k + 1) \in k + 1..Len(s) + 1
  <2> SUFFICES ASSUME NEW c, Is(s, k, c)
               PROVE  /\ k \in 1..Len(s) /\ k + 1 \in Places(s) /\ k + 1 \in Nat /\ i <= k + 1
                      /\ k + 1 \in i + 1..Len(s) + 1
                      /\ Moves(s, f[<<"items", k + 1>>], k + 1) /\ Moves(s, f[<<"members", k + 1>>], k + 1)
                      /\ SkipWs(s, k + 1) \in k + 1..Len(s) + 1
    OBVIOUS
  <2>1. /\ k + 1 \in Places(s) /\ k + 1 \in Nat /\ i < k + 1 /\ k + 1 \in i + 1..Len(s) + 1 /\ k <= Len(s)
        /\ k \in Places(s) /\ \A kind, other : Rank(other, k + 1) > Rank(kind, i)
    BY <1>1, Ahead
  <2>2. Moves(s, f[<<"items", k + 1>>], k + 1) /\ Moves(s, f[<<"members", k + 1>>], k + 1)
    BY <2>1 DEF MoveAbove, Kinds
  <2>3. SkipWs(s, k + 1) \in k + 1..Len(s) + 1
    BY <2>1, SkipWsIs
  <2>4. k \in 1..Len(s) /\ i <= k + 1
    BY <1>1, <2>1 DEF Places
  <2>5. QED
    BY <2>1, <2>2, <2>3, <2>4
\* An empty list or object ends.
<1>3. \A c, e, value : Is(s, k, c) /\ Is(s, SkipWs(s, k + 1), e) => Moves(s, Done(value, SkipWs(s, k + 1) + 1), i)
  <2> SUFFICES ASSUME NEW c, NEW e, NEW value, Is(s, k, c), Is(s, SkipWs(s, k + 1), e)
               PROVE  Moves(s, Done(value, SkipWs(s, k + 1) + 1), i)
    OBVIOUS
  <2> DEFINE m == SkipWs(s, k + 1)
  <2>1. m \in k + 1..Len(s) + 1 /\ i <= k + 1 /\ k + 1 \in Nat
    BY <1>2
  <2>2. m <= Len(s)
    BY DEF Is
  <2> HIDE DEF m
  <2>3. m + 1 \in i + 1..Len(s) + 1
    BY <1>1, <2>1, <2>2
  <2>4. Moves(s, Done(value, m + 1), i)
    BY <2>3, DoneMoves
  <2>5. QED
    BY <2>4 DEF m
<1>4. CASE k > Len(s)
  <2>1. P.error # "none"
    BY <1>4, <1>f DEF ValueForm
  <2>2. QED
    BY <2>1 DEF Moves
<1>5. CASE k <= Len(s) /\ s[k] = "{"
  <2>1. Is(s, k, "{")
    BY <1>5 DEF Is
  <2>2. CASE Is(s, SkipWs(s, k + 1), "}")
    <3>1. P = Done(Object(<<>>), SkipWs(s, k + 1) + 1)
      BY <1>5, <2>2, <1>f DEF ValueForm
    <3>2. QED
      BY <1>3, <2>1, <2>2, <3>1
  <2>3. CASE ~Is(s, SkipWs(s, k + 1), "}")
    <3> DEFINE p == f[<<"members", k + 1>>]
    <3>1. P = Made(ObjectOf(p.value), p)
      BY <1>5, <2>3, <1>f DEF ValueForm
    <3>2. k + 1 \in Nat /\ i <= k + 1 /\ Moves(s, p, k + 1)
      BY <1>2, <2>1
    <3> HIDE DEF p, P
    <3>3. QED
      BY <1>1, <3>1, <3>2, MadeMoves DEF P
  <2>4. QED
    BY <2>2, <2>3
<1>6. CASE k <= Len(s) /\ s[k] = "["
  <2>1. Is(s, k, "[")
    BY <1>6 DEF Is
  <2>2. CASE Is(s, SkipWs(s, k + 1), "]")
    <3>1. P = Done(Array(<<>>), SkipWs(s, k + 1) + 1)
      BY <1>6, <2>2, <1>f DEF ValueForm
    <3>2. QED
      BY <1>3, <2>1, <2>2, <3>1
  <2>3. CASE ~Is(s, SkipWs(s, k + 1), "]")
    <3> DEFINE p == f[<<"items", k + 1>>]
    <3>1. P = Made(Array(p.value), p)
      BY <1>6, <2>3, <1>f DEF ValueForm
    <3>2. k + 1 \in Nat /\ i <= k + 1 /\ Moves(s, p, k + 1)
      BY <1>2, <2>1
    <3> HIDE DEF p, P
    <3>3. QED
      BY <1>1, <3>1, <3>2, MadeMoves DEF P
  <2>4. QED
    BY <2>2, <2>3
<1>7. CASE k <= Len(s) /\ s[k] = "quote"
  <2>1. Is(s, k, "quote")
    BY <1>7 DEF Is
  <2> DEFINE p == Strings(s)[k + 1]
  <2>2. P = Made(String(p.value), p)
    BY <1>7, <1>f DEF ValueForm
  <2>3. k + 1 \in Nat /\ i <= k + 1 /\ k + 1 \in Places(s)
    BY <1>2, <2>1
  <2>4. Moves(s, p, k + 1)
    BY <2>3, StringsMove
  <2> HIDE DEF p, P
  <2>5. QED
    BY <1>1, <2>2, <2>3, <2>4, MadeMoves DEF P
<1>8. CASE k <= Len(s) /\ s[k] \in {"true", "false", "null"}
  <2>1. Is(s, k, s[k])
    BY <1>8 DEF Is
  <2>2. \E value : P = Done(value, k + 1)
    BY <1>8, <1>f DEF ValueForm
  <2>3. QED
    BY <1>2, <2>1, <2>2, DoneMoves
<1>9. CASE k <= Len(s) /\ s[k] \notin {"{", "[", "quote", "true", "false", "null"}
  <2>1. P = ParseNumber(s, k)
    BY <1>9, <1>f DEF ValueForm
  <2>2. k \in 1..Len(s)
    <3>1. k <= Len(s)
      BY <1>9
    <3>2. QED
      BY <1>1, <3>1
  <2>3. Moves(s, P, k)
    BY <2>1, <2>2, NumberMoves
  <2> HIDE DEF P
  <2>4. QED
    BY <1>1, <2>3 DEF Moves, P
<1>10. k > Len(s) \/ k <= Len(s)
  BY <1>1
<1>11. QED
  BY <1>4, <1>5, <1>6, <1>7, <1>8, <1>9, <1>10

LEMMA ItemsMove ==
    ASSUME NEW s \in Seq(STRING), NEW f, NEW i \in Places(s), MoveAbove(s, f, Rank("items", i))
    PROVE  /\ Moves(s, f[<<"value", i>>], i)
           /\ Moves(s, ParseArray(s, f, i), i)
<1>0. PICK p, k : p = f[<<"value", i>>] /\ k = SkipWs(s, p.next)
  OBVIOUS
<1>f. ItemsForm(s, f, i, p, k)
  BY <1>0, ItemsForms
<1> DEFINE P == ParseArray(s, f, i)
<1>1. Len(s) \in Nat /\ i \in Nat
  BY DEF Places
<1>2. Moves(s, p, i)
  <2>1. Rank("value", i) > Rank("items", i)
    BY <1>1 DEF Rank
  <2>2. QED
    BY <1>0, <2>1 DEF MoveAbove, Kinds
<1> SUFFICES Moves(s, P, i)
  BY <1>0, <1>2
<1>3. CASE p.error # "none"
  BY <1>2, <1>3, <1>f DEF ItemsForm
<1>4. CASE p.error = "none"
  <2>1. p.next \in i + 1..Len(s) + 1
    BY <1>2, <1>4 DEF Moves
  <2>2. p.next \in Places(s) /\ k \in i..Len(s) + 1
    <3>1. p.next \in Places(s)
      BY <1>1, <2>1 DEF Places
    <3>2. k \in p.next..Len(s) + 1
      BY <1>0, <3>1, SkipWsIs
    <3>3. k \in i..Len(s) + 1
      BY <1>1, <2>1, <3>2
    <3>4. QED
      BY <3>1, <3>3
  <2>3. CASE Is(s, k, "]")
    <3>1. k + 1 \in i + 1..Len(s) + 1
      BY <2>2, <2>3, Ahead
    <3>2. P = Done(<<p.value>>, k + 1)
      BY <1>4, <2>3, <1>f DEF ItemsForm
    <3>3. QED
      BY <3>1, <3>2, DoneMoves
  <2>4. CASE Is(s, k, ",")
    <3>1. k + 1 \in Nat /\ k + 1 \in Places(s) /\ i < k + 1 /\ Rank("items", k + 1) > Rank("items", i)
      BY <2>2, <2>4, Ahead
    <3>2. P = Then(p.value, f[<<"items", k + 1>>])
      BY <1>4, <2>4, <1>f DEF ItemsForm
    <3>3. Moves(s, f[<<"items", k + 1>>], k + 1)
      BY <3>1 DEF MoveAbove, Kinds
    <3> HIDE DEF P
    <3>4. i <= k + 1
      BY <1>1, <3>1
    <3>5. QED
      BY <1>1, <3>1, <3>2, <3>3, <3>4, ThenMoves DEF P
  <2>5. CASE ~Is(s, k, "]") /\ ~Is(s, k, ",")
    <3>1. P.error # "none"
      BY <1>4, <2>5, <1>f DEF ItemsForm
    <3>2. QED
      BY <3>1 DEF Moves
  <2>6. QED
    BY <2>3, <2>4, <2>5
<1>5. QED
  BY <1>0, <1>2, <1>3, <1>4

LEMMA MembersPlaces ==
    ASSUME NEW s \in Seq(STRING), NEW f, NEW start \in Places(s), MoveAbove(s, f, Rank("members", start)),
           NEW i, i = SkipWs(s, start), NEW key, key = Strings(s)[i + 1],
           NEW colon, colon = SkipWs(s, key.next), NEW p, p = f[<<"value", colon + 1>>],
           NEW k, k = SkipWs(s, p.next), Is(s, i, "quote"), key.error = "none", Is(s, colon, ":")
    PROVE  /\ colon + 1 \in Places(s) /\ colon + 1 \in Nat /\ start < colon + 1
           /\ Rank("value", colon + 1) > Rank("members", start)
           /\ Moves(s, p, colon + 1)
           /\ p.error = "none" => p.next \in Places(s) /\ k \in start..Len(s) + 1
<1>1. Len(s) \in Nat /\ start \in Nat /\ start >= 1 /\ Places(s) = 1..Len(s) + 1
  BY DEF Places
<1>2. i \in start..Len(s) + 1
  BY SkipWsIs
<1>3. i + 1 \in Places(s) /\ i + 1 \in Nat /\ start <= i
  BY <1>2, Ahead
<1>4. key.next \in i + 2..Len(s) + 1
  <2>1. Moves(s, key, i + 1)
    BY <1>3, StringsMove
  <2>2. key.next \in (i + 1) + 1..Len(s) + 1
    BY <2>1 DEF Moves
  <2>3. QED
    BY <1>1, <1>2, <1>3, <2>2
<1>5. key.next \in Places(s) /\ key.next \in start..Len(s) + 1
  BY <1>1, <1>2, <1>3, <1>4
<1>6. colon \in key.next..Len(s) + 1
  BY <1>5, SkipWsIs
<1>7. colon \in start..Len(s) + 1
  BY <1>1, <1>5, <1>6
<1>8. colon + 1 \in Places(s) /\ colon + 1 \in Nat /\ start < colon + 1 /\ Rank("value", colon + 1) > Rank("members", start)
  BY <1>7, Ahead
<1>9. Moves(s, p, colon + 1)
  BY <1>8 DEF MoveAbove, Kinds
<1>10. ASSUME p.error = "none" PROVE p.next \in Places(s) /\ k \in start..Len(s) + 1
  <2>1. p.next \in (colon + 1) + 1..Len(s) + 1
    BY <1>9, <1>10 DEF Moves
  <2>2. p.next \in Places(s) /\ p.next \in start..Len(s) + 1
    BY <1>1, <1>8, <2>1
  <2>3. k \in p.next..Len(s) + 1
    BY <2>2, SkipWsIs
  <2>4. QED
    BY <1>1, <2>2, <2>3
<1>11. QED
  BY <1>8, <1>9, <1>10

LEMMA MembersMove ==
    ASSUME NEW s \in Seq(STRING), NEW f, NEW start \in Places(s), MoveAbove(s, f, Rank("members", start))
    PROVE  Moves(s, ParseObject(s, f, start), start)
<1>0. PICK i, key, colon, p, k : /\ i = SkipWs(s, start) /\ key = Strings(s)[i + 1] /\ colon = SkipWs(s, key.next)
                                /\ p = f[<<"value", colon + 1>>] /\ k = SkipWs(s, p.next)
  OBVIOUS
<1> DEFINE P == ParseObject(s, f, start)
<1>f. MembersForm(s, f, start, i, key, colon, p, k)
  BY <1>0, MembersForms
<1>1. Len(s) \in Nat /\ start \in Nat
  BY DEF Places
<1>2. CASE ~Is(s, i, "quote") \/ key.error # "none" \/ ~Is(s, colon, ":")
  <2>1. P.error # "none"
    BY <1>2, <1>f DEF MembersForm
  <2>2. QED
    BY <2>1 DEF Moves
<1>3. CASE Is(s, i, "quote") /\ key.error = "none" /\ Is(s, colon, ":")
  <2>1. /\ colon + 1 \in Places(s) /\ colon + 1 \in Nat /\ start < colon + 1 /\ Moves(s, p, colon + 1)
        /\ p.error = "none" => p.next \in Places(s) /\ k \in start..Len(s) + 1
    BY <1>0, <1>3, MembersPlaces
  <2>2. CASE p.error # "none"
    <3>1. P = p
      BY <1>3, <1>f, <2>2 DEF MembersForm
    <3>2. QED
      BY <2>2, <3>1 DEF Moves
  <2>3. CASE p.error = "none" /\ Is(s, k, "}")
    <3>1. k + 1 \in start + 1..Len(s) + 1
      BY <2>1, <2>3, Ahead
    <3>2. P = Done(<< <<key.value, p.value>> >>, k + 1)
      BY <1>3, <1>f, <2>3 DEF MembersForm
    <3>3. QED
      BY <3>1, <3>2, DoneMoves
  <2>4. CASE p.error = "none" /\ Is(s, k, ",")
    <3>1. k + 1 \in Nat /\ k + 1 \in Places(s) /\ start < k + 1 /\ Rank("members", k + 1) > Rank("members", start)
      BY <2>1, <2>4, Ahead
    <3>2. P = Then(<<key.value, p.value>>, f[<<"members", k + 1>>])
      BY <1>3, <1>f, <2>4 DEF MembersForm
    <3>3. Moves(s, f[<<"members", k + 1>>], k + 1)
      BY <3>1 DEF MoveAbove, Kinds
    <3> HIDE DEF P
    <3>4. start <= k + 1
      BY <1>1, <3>1
    <3>5. QED
      BY <1>1, <3>1, <3>2, <3>3, <3>4, ThenMoves DEF P
  <2>5. CASE p.error = "none" /\ ~Is(s, k, "}") /\ ~Is(s, k, ",")
    <3>1. P.error # "none"
      BY <1>3, <1>f, <2>5 DEF MembersForm
    <3>2. QED
      BY <3>1 DEF Moves
  <2>6. QED
    BY <2>2, <2>3, <2>4, <2>5
<1>4. QED
  BY <1>2, <1>3

LEMMA ValueLocal ==
    ASSUME NEW s \in Seq(STRING), NEW i \in Places(s), NEW f, NEW g, AgreeAbove(s, f, g, Rank("value", i))
    PROVE  ParseValue(s, f, i) = ParseValue(s, g, i)
<1>0. PICK k : k = SkipWs(s, i)
  OBVIOUS
<1>1. k \in i..Len(s) + 1
  BY <1>0, SkipWsIs
<1>2. \A c : Is(s, k, c) =>
         f[<<"items", k + 1>>] = g[<<"items", k + 1>>] /\ f[<<"members", k + 1>>] = g[<<"members", k + 1>>]
  <2> SUFFICES ASSUME NEW c, Is(s, k, c)
               PROVE  f[<<"items", k + 1>>] = g[<<"items", k + 1>>] /\ f[<<"members", k + 1>>] = g[<<"members", k + 1>>]
    OBVIOUS
  <2>1. k + 1 \in Places(s) /\ \A kind, other : Rank(other, k + 1) > Rank(kind, i)
    BY <1>1, Ahead
  <2>2. QED
    BY <2>1 DEF AgreeAbove, Kinds
<1> DEFINE ko    == Is(s, k, "{")
           lo    == Is(s, k, "[")
           O(h)  == IF Is(s, SkipWs(s, k + 1), "}") THEN Done(Object(<<>>), SkipWs(s, k + 1) + 1)
                    ELSE Made(ObjectOf(h[<<"members", k + 1>>].value), h[<<"members", k + 1>>])
           L(h)  == IF Is(s, SkipWs(s, k + 1), "]") THEN Done(Array(<<>>), SkipWs(s, k + 1) + 1)
                    ELSE Made(Array(h[<<"items", k + 1>>].value), h[<<"items", k + 1>>])
           quote == Is(s, k, "quote")
           word  == k <= Len(s) /\ s[k] \in {"true", "false"}
           null  == Is(s, k, "null")
           q     == Made(String(Strings(s)[k + 1].value), Strings(s)[k + 1])
           w     == Done(Boolean(s[k] = "true"), k + 1)
<1>3. \A h : ParseValue(s, h, i) = CASE k > Len(s) -> Fails("JsonError")
                                     [] ko -> O(h) [] lo -> L(h) [] quote -> q [] word -> w
                                     [] null -> Done(Null, k + 1) [] OTHER -> ParseNumber(s, k)
  BY <1>0 DEF ParseValue, Made
<1>4. (ko => O(f) = O(g)) /\ (lo => L(f) = L(g))
  BY <1>2
<1> HIDE DEF ko, lo, O, L, quote, word, null, q, w
<1>5. ParseValue(s, f, i) = CASE k > Len(s) -> Fails("JsonError")
                              [] ko -> O(g) [] lo -> L(g) [] quote -> q [] word -> w
                              [] null -> Done(Null, k + 1) [] OTHER -> ParseNumber(s, k)
  BY <1>3, <1>4
<1>6. QED
  BY <1>3, <1>5

LEMMA ItemsLocal ==
    ASSUME NEW s \in Seq(STRING), NEW i \in Places(s), NEW f, NEW g,
           MoveAbove(s, f, Rank("items", i)), AgreeAbove(s, f, g, Rank("items", i))
    PROVE  ParseArray(s, f, i) = ParseArray(s, g, i)
<1>0. PICK p, k : p = f[<<"value", i>>] /\ k = SkipWs(s, p.next)
  OBVIOUS
<1>1. Len(s) \in Nat /\ i \in Nat /\ i >= 1 /\ Places(s) = 1..Len(s) + 1
  BY DEF Places
<1>2. g[<<"value", i>>] = p
  <2>1. Rank("value", i) > Rank("items", i)
    BY <1>1 DEF Rank
  <2>2. QED
    BY <1>0, <2>1 DEF AgreeAbove, Kinds
<1>3. p.error = "none" /\ Is(s, k, ",") => f[<<"items", k + 1>>] = g[<<"items", k + 1>>]
  <2> SUFFICES ASSUME p.error = "none", Is(s, k, ",") PROVE f[<<"items", k + 1>>] = g[<<"items", k + 1>>]
    OBVIOUS
  <2>1. Moves(s, p, i)
    BY <1>0, ItemsMove
  <2>2. k \in i..Len(s) + 1
    BY <1>0, <2>1, Onward
  <2>5. k + 1 \in Places(s) /\ Rank("items", k + 1) > Rank("items", i)
    BY <2>2, Ahead
  <2>6. QED
    BY <2>5 DEF AgreeAbove, Kinds
<1>4. ItemsForm(s, f, i, p, k) /\ ItemsForm(s, g, i, p, k)
  BY <1>0, <1>2, ItemsForms
<1>5. ParseArray(s, f, i) = CASE p.error # "none" -> p
         [] p.error = "none" /\ Is(s, k, "]") -> Done(<<p.value>>, k + 1)
         [] p.error = "none" /\ Is(s, k, ",") -> Then(p.value, f[<<"items", k + 1>>])
         [] OTHER -> Fails("JsonError")
  BY <1>0 DEF ParseArray
<1>6. ParseArray(s, g, i) = CASE p.error # "none" -> p
         [] p.error = "none" /\ Is(s, k, "]") -> Done(<<p.value>>, k + 1)
         [] p.error = "none" /\ Is(s, k, ",") -> Then(p.value, g[<<"items", k + 1>>])
         [] OTHER -> Fails("JsonError")
  BY <1>0, <1>2 DEF ParseArray
<1>7. CASE p.error = "none" /\ Is(s, k, ",")
  BY <1>3, <1>5, <1>6, <1>7
<1>8. CASE ~(p.error = "none" /\ Is(s, k, ","))
  BY <1>5, <1>6, <1>8
<1>9. QED
  BY <1>7, <1>8

LEMMA MembersLocal ==
    ASSUME NEW s \in Seq(STRING), NEW start \in Places(s), NEW f, NEW g,
           MoveAbove(s, f, Rank("members", start)), AgreeAbove(s, f, g, Rank("members", start))
    PROVE  ParseObject(s, f, start) = ParseObject(s, g, start)
<1>0. PICK i, key, colon, p, k : /\ i = SkipWs(s, start) /\ key = Strings(s)[i + 1] /\ colon = SkipWs(s, key.next)
                                /\ p = f[<<"value", colon + 1>>] /\ k = SkipWs(s, p.next)
  OBVIOUS
<1> DEFINE F(h, q, m) ==
             CASE ~Is(s, i, "quote") -> Fails("JsonError")
               [] Is(s, i, "quote") /\ key.error # "none" -> key
               [] Is(s, i, "quote") /\ key.error = "none" /\ ~Is(s, colon, ":") -> Fails("JsonError")
               [] OTHER -> CASE q.error # "none" -> q
                 [] q.error = "none" /\ Is(s, m, "}") -> Done(<< <<key.value, q.value>> >>, m + 1)
                 [] q.error = "none" /\ Is(s, m, ",") -> Then(<<key.value, q.value>>, h[<<"members", m + 1>>])
                 [] OTHER -> Fails("JsonError")
<1>1. \A h : LET q == h[<<"value", colon + 1>>] IN ParseObject(s, h, start) = F(h, q, SkipWs(s, q.next))
  BY <1>0 DEF ParseObject
<1>2. CASE ~Is(s, i, "quote") \/ key.error # "none" \/ ~Is(s, colon, ":")
  <2>1. CASE ~Is(s, i, "quote")
    <3>1. \A h, q, m : F(h, q, m) = Fails("JsonError")
      BY <2>1
    <3> HIDE DEF F
    <3>2. QED
      BY <1>1, <3>1
  <2>2. CASE Is(s, i, "quote") /\ key.error # "none"
    <3>1. \A h, q, m : F(h, q, m) = key
      BY <2>2
    <3> HIDE DEF F
    <3>2. QED
      BY <1>1, <3>1
  <2>3. CASE Is(s, i, "quote") /\ key.error = "none" /\ ~Is(s, colon, ":")
    <3>1. \A h, q, m : F(h, q, m) = Fails("JsonError")
      BY <2>3
    <3> HIDE DEF F
    <3>2. QED
      BY <1>1, <3>1
  <2>4. QED
    BY <1>2, <2>1, <2>2, <2>3
<1>3. CASE Is(s, i, "quote") /\ key.error = "none" /\ Is(s, colon, ":")
  <2>1. /\ colon + 1 \in Places(s) /\ Rank("value", colon + 1) > Rank("members", start)
        /\ p.error = "none" => k \in start..Len(s) + 1
    BY <1>0, <1>3, MembersPlaces
  <2>2. g[<<"value", colon + 1>>] = p
    BY <1>0, <2>1 DEF AgreeAbove, Kinds
  <2>3. p.error = "none" /\ Is(s, k, ",") => f[<<"members", k + 1>>] = g[<<"members", k + 1>>]
    <3> SUFFICES ASSUME p.error = "none", Is(s, k, ",") PROVE f[<<"members", k + 1>>] = g[<<"members", k + 1>>]
      OBVIOUS
    <3>1. k + 1 \in Places(s) /\ Rank("members", k + 1) > Rank("members", start)
      BY <2>1, Ahead
    <3>2. QED
      BY <3>1 DEF AgreeAbove, Kinds
  <2>4. F(f, p, k) = F(g, p, k)
    BY <2>3
  <2>5. ParseObject(s, f, start) = F(f, p, k) /\ ParseObject(s, g, start) = F(g, p, k)
    <3> HIDE DEF F
    <3>1. QED
      BY <1>0, <1>1, <2>2
  <2>6. QED
    BY <2>4, <2>5
<1>4. QED
  BY <1>2, <1>3

LEMMA AtLocal ==
    ASSUME NEW s \in Seq(STRING), NEW kind \in Kinds, NEW i \in Places(s), NEW f, NEW g,
           MoveAbove(s, f, Rank(kind, i)), AgreeAbove(s, f, g, Rank(kind, i))
    PROVE  ParseAt(s, f, <<kind, i>>) = ParseAt(s, g, <<kind, i>>)
<1>1. CASE kind = "value"
  BY <1>1, ValueLocal DEF ParseAt
<1>2. CASE kind = "items"
  BY <1>2, ItemsLocal DEF ParseAt
<1>3. CASE kind = "members"
  BY <1>3, MembersLocal DEF ParseAt
<1>4. QED
  BY <1>1, <1>2, <1>3 DEF Kinds

LEMMA AtMoves ==
    ASSUME NEW s \in Seq(STRING), NEW kind \in Kinds, NEW i \in Places(s), NEW f, MoveAbove(s, f, Rank(kind, i))
    PROVE  Moves(s, ParseAt(s, f, <<kind, i>>), i)
<1>1. CASE kind = "value"
  BY <1>1, ValueMoves DEF ParseAt
<1>2. CASE kind = "items"
  BY <1>2, ItemsMove DEF ParseAt
<1>3. CASE kind = "members"
  BY <1>3, MembersMove DEF ParseAt
<1>4. QED
  BY <1>1, <1>2, <1>3 DEF Kinds

\* The recursion of Parsed.
LEMMA ParsedIs ==
    ASSUME NEW s \in Seq(STRING)
    PROVE  \A kind \in Kinds, i \in Places(s) :
             /\ Parsed(s)[<<kind, i>>] = ParseAt(s, Parsed(s), <<kind, i>>)
             /\ Moves(s, Parsed(s)[<<kind, i>>], i)
<1> DEFINE Top == 2 * Len(s) + 4
           Right(f, kind, i) == f[<<kind, i>>] = ParseAt(s, f, <<kind, i>>) /\ Moves(s, f[<<kind, i>>], i)
           From(f, r) == \A kind \in Kinds, i \in Places(s) : Rank(kind, i) >= r => Right(f, kind, i)
           Bad == {r \in 1..Top : ~ \E f : From(f, r)}
<1>1. Len(s) \in Nat /\ Places(s) = 1..Len(s) + 1 /\ Top \in Nat
  BY DEF Places
<1>2. \A kind \in Kinds, i \in Places(s) : Rank(kind, i) \in Nat /\ Rank(kind, i) >= 1 /\ Rank(kind, i) < Top
  <2> SUFFICES ASSUME NEW kind \in Kinds, NEW i \in Places(s)
               PROVE  Rank(kind, i) \in Nat /\ Rank(kind, i) >= 1 /\ Rank(kind, i) < Top
    OBVIOUS
  <2>1. i \in Nat /\ i >= 1 /\ i <= Len(s) + 1
    BY <1>1
  <2>2. Rank(kind, i) \in 2 * i..2 * i + 1
    BY <2>1, RankIs
  <2>3. QED
    BY <1>1, <2>1, <2>2
<1> HIDE DEF Top, Right
<1>3. \A f, r : From(f, r + 1) => \A kind \in Kinds, i \in Places(s) : Rank(kind, i) >= r + 1 => Right(f, kind, i)
  OBVIOUS
<1>4. Bad = {}
  <2> SUFFICES ASSUME Bad # {} PROVE FALSE
    OBVIOUS
  <2>1. Bad \subseteq 0..Top
    BY <1>1
  <2>2. PICK r \in Bad : \A m \in Bad : m <= r
    <3> HIDE DEF Bad
    <3>1. QED
      BY <1>1, <2>1, GreatestExists
  <2>3. r # Top
    <3>1. \A kind \in Kinds, i \in Places(s) : ~(Rank(kind, i) >= Top)
      BY <1>1, <1>2
    <3>2. From(<<>>, Top)
      BY <3>1
    <3>3. QED
      BY <2>2, <3>2
  <2>4. r \in Nat /\ r + 1 \in 1..Top /\ ~(r + 1 <= r)
    BY <1>1, <2>2, <2>3
  <2>5. r + 1 \notin Bad
    BY <2>2, <2>4
  <2>6. PICK f : From(f, r + 1)
    BY <2>4, <2>5
  <2> DEFINE g == [x \in Kinds \X Places(s) |-> IF Rank(x[1], x[2]) = r THEN ParseAt(s, f, x) ELSE f[x]]
  <2>7. \A kind \in Kinds, i \in Places(s) :
          g[<<kind, i>>] = IF Rank(kind, i) = r THEN ParseAt(s, f, <<kind, i>>) ELSE f[<<kind, i>>]
    OBVIOUS
  <2> HIDE DEF g
  <2>8. ASSUME NEW kind \in Kinds, NEW i \in Places(s), Rank(kind, i) >= r PROVE Right(g, kind, i)
    <3>1. \A other \in Kinds, k \in Places(s) : Rank(other, k) > Rank(kind, i) =>
             Rank(other, k) >= r + 1 /\ Rank(other, k) # r
      <4> SUFFICES ASSUME NEW other \in Kinds, NEW k \in Places(s), Rank(other, k) > Rank(kind, i)
                   PROVE  Rank(other, k) >= r + 1 /\ Rank(other, k) # r
        OBVIOUS
      <4>1. Rank(other, k) \in Nat /\ Rank(kind, i) \in Nat
        BY <1>2
      <4>2. QED
        BY <2>4, <2>8, <4>1
    <3>2. MoveAbove(s, f, Rank(kind, i))
      BY <2>6, <3>1 DEF MoveAbove, Right
    <3>3. AgreeAbove(s, f, g, Rank(kind, i))
      BY <2>7, <3>1 DEF AgreeAbove
    <3>4. ParseAt(s, f, <<kind, i>>) = ParseAt(s, g, <<kind, i>>)
      BY <3>2, <3>3, AtLocal
    <3>5. g[<<kind, i>>] = ParseAt(s, f, <<kind, i>>)
      <4>1. CASE Rank(kind, i) = r
        BY <2>7, <4>1
      <4>2. CASE Rank(kind, i) # r
        <5>1. Rank(kind, i) >= r + 1
          BY <1>2, <2>4, <2>8, <4>2
        <5>2. Right(f, kind, i)
          BY <2>6, <5>1
        <5>3. QED
          BY <2>7, <4>2, <5>2 DEF Right
      <4>3. QED
        BY <4>1, <4>2
    <3>6. Moves(s, g[<<kind, i>>], i)
      BY <3>2, <3>5, AtMoves
    <3>7. QED
      BY <3>4, <3>5, <3>6 DEF Right
  <2>9. From(g, r)
    BY <2>8
  <2>10. QED
    BY <2>2, <2>9
<1>5. PICK f : From(f, 1)
  <2>1. 1 \in 1..Top
    BY <1>1 DEF Top
  <2>2. QED
    BY <1>4, <2>1
<1> DEFINE g == [x \in Kinds \X Places(s) |-> f[x]]
<1>6. \A kind \in Kinds, i \in Places(s) : g[<<kind, i>>] = f[<<kind, i>>]
  OBVIOUS
<1>7. \A kind \in Kinds, i \in Places(s) : Right(f, kind, i)
  BY <1>2, <1>5
<1>8. \A x \in Kinds \X Places(s) : g[x] = ParseAt(s, g, x)
  <2> TAKE x \in Kinds \X Places(s)
  <2>0. PICK kind \in Kinds, i \in Places(s) : x = <<kind, i>>
    OBVIOUS
  <2> HIDE DEF g
  <2>1. MoveAbove(s, f, Rank(kind, i))
    BY <1>7 DEF MoveAbove, Right
  <2>2. AgreeAbove(s, f, g, Rank(kind, i))
    BY <1>6 DEF AgreeAbove
  <2>3. ParseAt(s, f, <<kind, i>>) = ParseAt(s, g, <<kind, i>>)
    BY <2>1, <2>2, AtLocal
  <2>4. QED
    BY <1>6, <1>7, <2>0, <2>3 DEF Right
<1>9. g = [x \in Kinds \X Places(s) |-> ParseAt(s, g, x)]
  BY <1>8
<1> HIDE DEF g
<1>10. Parsed(s) = [x \in Kinds \X Places(s) |-> ParseAt(s, Parsed(s), x)]
  BY <1>9 DEF Parsed
<1>11. \A kind \in Kinds, i \in Places(s) : Parsed(s)[<<kind, i>>] = ParseAt(s, Parsed(s), <<kind, i>>)
  <2> SUFFICES ASSUME NEW kind \in Kinds, NEW i \in Places(s)
               PROVE  Parsed(s)[<<kind, i>>] = ParseAt(s, Parsed(s), <<kind, i>>)
    OBVIOUS
  <2> DEFINE h == Parsed(s)
  <2>1. h = [x \in Kinds \X Places(s) |-> ParseAt(s, h, x)]
    BY <1>10
  <2> HIDE DEF h
  <2>2. h[<<kind, i>>] = ParseAt(s, h, <<kind, i>>)
    BY <2>1
  <2>3. QED
    BY <2>2 DEF h
\* What is right moves, from the last rank to the first.
<1> DEFINE h   == Parsed(s)
           Off == {r \in 1..Top : \E kind \in Kinds, i \in Places(s) : Rank(kind, i) = r /\ ~Moves(s, h[<<kind, i>>], i)}
<1>12. Off = {}
  <2> SUFFICES ASSUME Off # {} PROVE FALSE
    OBVIOUS
  <2>1. Off \subseteq 0..Top
    BY <1>1
  <2>2. PICK r \in Off : \A m \in Off : m <= r
    <3> HIDE DEF Off
    <3>1. QED
      BY <1>1, <2>1, GreatestExists
  <2>3. PICK kind \in Kinds, i \in Places(s) : Rank(kind, i) = r /\ ~Moves(s, h[<<kind, i>>], i)
    BY <2>2
  <2> HIDE DEF h
  <2>4. MoveAbove(s, h, Rank(kind, i))
    <3> SUFFICES ASSUME NEW other \in Kinds, NEW k \in Places(s), Rank(other, k) > r PROVE Moves(s, h[<<other, k>>], k)
      BY <2>3 DEF MoveAbove
    <3>1. Rank(other, k) \in 1..Top /\ ~(Rank(other, k) <= r)
      BY <1>1, <1>2, <2>2, SMTT(40)
    <3>2. Rank(other, k) \notin Off
      BY <2>2, <3>1
    <3>3. QED
      BY <3>1, <3>2
  <2>5. Moves(s, ParseAt(s, h, <<kind, i>>), i)
    BY <2>4, AtMoves
  <2>6. QED
    BY <1>11, <2>3, <2>5 DEF h
<1>13. \A kind \in Kinds, i \in Places(s) : Moves(s, h[<<kind, i>>], i)
  <2> SUFFICES ASSUME NEW kind \in Kinds, NEW i \in Places(s) PROVE Moves(s, h[<<kind, i>>], i)
    OBVIOUS
  <2>1. Rank(kind, i) \in 1..Top
    BY <1>1, <1>2
  <2> HIDE DEF h
  <2>2. QED
    BY <1>12, <2>1
<1>14. QED
  BY <1>11, <1>13

-----------------------------------------------------------------------------
(* A text and a beginning of it.                                           *)

\* A value that ends with the beginning is the same if no more could follow.
Closed(t, i) == \E c \in {"{", "[", "quote"} : Is(t, SkipWs(t, i), c)

Same(s, t, kind, i) ==
    LET p == Parsed(t)[<<kind, i>>] IN
    p.error = "none" /\ (kind = "value" => p.next <= Len(t) \/ Closed(t, i)) => Parsed(s)[<<kind, i>>] = p

SameAbove(s, t, r) == \A kind \in Kinds, i \in Places(t) : Rank(kind, i) > r => Same(s, t, kind, i)

LEMMA ParsedForms ==
    ASSUME NEW s \in Seq(STRING), NEW i \in Places(s), NEW f, f = Parsed(s)
    PROVE  /\ f[<<"value", i>>] = ParseValue(s, f, i) /\ Moves(s, f[<<"value", i>>], i)
           /\ f[<<"items", i>>] = ParseArray(s, f, i) /\ Moves(s, f[<<"items", i>>], i)
           /\ f[<<"members", i>>] = ParseObject(s, f, i) /\ Moves(s, f[<<"members", i>>], i)
<1>1. "value" \in Kinds /\ "items" \in Kinds /\ "members" \in Kinds
  BY DEF Kinds
<1>2. \A kind \in Kinds : f[<<kind, i>>] = ParseAt(s, f, <<kind, i>>) /\ Moves(s, f[<<kind, i>>], i)
  BY ParsedIs
<1>3. /\ ParseAt(s, f, <<"value", i>>) = ParseValue(s, f, i)
      /\ ParseAt(s, f, <<"items", i>>) = ParseArray(s, f, i)
      /\ ParseAt(s, f, <<"members", i>>) = ParseObject(s, f, i)
  BY DEF ParseAt
<1>4. QED
  BY <1>1, <1>2, <1>3

LEMMA MadeIs ==
    ASSUME NEW value, NEW p, Made(value, p).error = "none"
    PROVE  p.error = "none" /\ Made(value, p) = Done(value, p.next)
BY DEF Made

LEMMA ThenIs ==
    ASSUME NEW item, NEW rest, Then(item, rest).error = "none"
    PROVE  rest.error = "none"
BY DEF Then

\* What is right begins in the text.
LEMMA Begins ==
    ASSUME NEW s \in Seq(STRING), NEW i \in Places(s), NEW kind \in Kinds, Parsed(s)[<<kind, i>>].error = "none"
    PROVE  SkipWs(s, i) <= Len(s)
<1>0. PICK f, k : f = Parsed(s) /\ k = SkipWs(s, i)
  OBVIOUS
<1>1. Len(s) \in Nat /\ k \in Nat
  BY <1>0, SkipWsIs DEF Places
<1>2. ASSUME f[<<"value", i>>].error = "none" PROVE k <= Len(s)
  <2>1. ValueForm(s, f, i, k)
    BY <1>0, ValueForms
  <2>2. ~(k > Len(s))
    BY <1>0, <1>2, <2>1, ParsedForms DEF ValueForm
  <2>3. QED
    BY <1>1, <2>2
<1>3. CASE kind = "value"
  BY <1>0, <1>2, <1>3
<1>4. CASE kind = "items"
  <2>0. PICK p, m : p = f[<<"value", i>>] /\ m = SkipWs(s, p.next)
    OBVIOUS
  <2>1. ItemsForm(s, f, i, p, m)
    BY <2>0, ItemsForms
  <2>2. ParseArray(s, f, i).error = "none"
    BY <1>0, <1>4, ParsedForms
  <2>3. p.error = "none"
    BY <2>1, <2>2 DEF ItemsForm
  <2>4. QED
    BY <1>0, <1>2, <2>0, <2>3
<1>5. CASE kind = "members"
  <2>0. PICK key, colon, p, m : /\ key = Strings(s)[k + 1] /\ colon = SkipWs(s, key.next)
                               /\ p = f[<<"value", colon + 1>>] /\ m = SkipWs(s, p.next)
    OBVIOUS
  <2>1. MembersForm(s, f, i, k, key, colon, p, m)
    BY <1>0, <2>0, MembersForms
  <2>2. ParseObject(s, f, i).error = "none"
    BY <1>0, <1>5, ParsedForms
  <2>3. Is(s, k, "quote")
    BY <2>1, <2>2 DEF MembersForm
  <2>4. QED
    BY <1>0, <2>3 DEF Is
<1>6. QED
  BY <1>3, <1>4, <1>5 DEF Kinds

LEMMA SameValue ==
    ASSUME NEW s, NEW t, Cut(s, t), NEW i \in Places(t), SameAbove(s, t, Rank("value", i))
    PROVE  Same(s, t, "value", i)
<1>0. PICK f, g, k, p : f = Parsed(t) /\ g = Parsed(s) /\ k = SkipWs(t, i) /\ p = f[<<"value", i>>]
  OBVIOUS
<1> SUFFICES ASSUME p.error = "none", p.next <= Len(t) \/ Closed(t, i)
             PROVE  g[<<"value", i>>] = p
  BY <1>0 DEF Same
<1>1. /\ Len(t) \in Nat /\ Len(s) \in Nat /\ Len(t) <= Len(s) /\ s \in Seq(STRING) /\ t \in Seq(STRING)
      /\ Places(t) \subseteq Places(s) /\ Places(t) = 1..Len(t) + 1
  BY CutIs DEF Places
<1>2. k <= Len(t)
  BY <1>0, <1>1, Begins DEF Kinds
<1>3. SkipWs(s, i) = k /\ k \in 1..Len(t) /\ k <= Len(s) /\ s[k] = t[k] /\ i \in Places(s)
  <2>1. SkipWs(s, i) = k /\ k \in 1..Len(t)
    BY <1>0, <1>2, SameSkip
  <2>2. QED
    BY <1>1, <2>1, CutIs
<1>4. ValueForm(t, f, i, k) /\ ValueForm(s, g, i, k)
  BY <1>0, <1>1, <1>3, ValueForms
<1>5. p = ParseValue(t, f, i) /\ g[<<"value", i>>] = ParseValue(s, g, i)
  BY <1>0, <1>1, <1>3, ParsedForms
<1>6. k + 1 \in Places(t) /\ \A other : Rank(other, k + 1) > Rank("value", i)
  <2>1. k \in i..Len(t) + 1
    BY <1>0, <1>1, SkipWsIs
  <2>2. Is(t, k, t[k])
    BY <1>2 DEF Is
  <2>3. QED
    BY <1>1, <2>1, <2>2, Ahead
\* What ends an empty list or object.
<1>7. \A kind \in Kinds : f[<<kind, k + 1>>].error = "none" =>
         \A c : Is(s, SkipWs(s, k + 1), c) = Is(t, SkipWs(t, k + 1), c)
  <2> SUFFICES ASSUME NEW c, NEW kind \in Kinds, f[<<kind, k + 1>>].error = "none"
               PROVE  Is(s, SkipWs(s, k + 1), c) = Is(t, SkipWs(t, k + 1), c)
    BY Zenon
  <2>1. SkipWs(t, k + 1) <= Len(t)
    BY <1>0, <1>1, <1>6, Begins
  <2>2. SkipWs(s, k + 1) = SkipWs(t, k + 1) /\ SkipWs(t, k + 1) \in 1..Len(t)
    BY <1>6, <2>1, SameSkip
  <2>3. QED
    BY <2>2, SameIs
<1>8. \A c : Is(t, SkipWs(t, k + 1), c) => Is(s, SkipWs(s, k + 1), c) /\ SkipWs(s, k + 1) = SkipWs(t, k + 1)
  <2> SUFFICES ASSUME NEW c, Is(t, SkipWs(t, k + 1), c)
               PROVE  Is(s, SkipWs(s, k + 1), c) /\ SkipWs(s, k + 1) = SkipWs(t, k + 1)
    OBVIOUS
  <2>1. SkipWs(t, k + 1) <= Len(t)
    BY DEF Is
  <2>2. SkipWs(s, k + 1) = SkipWs(t, k + 1) /\ SkipWs(t, k + 1) \in 1..Len(t)
    BY <1>6, <2>1, SameSkip
  <2>3. QED
    BY <2>2, SameIs
<1>9. \A kind \in {"items", "members"} : f[<<kind, k + 1>>].error = "none" => g[<<kind, k + 1>>] = f[<<kind, k + 1>>]
  BY <1>0, <1>6 DEF SameAbove, Same, Kinds
<1>10. CASE t[k] = "{"
  <2>1. CASE Is(t, SkipWs(t, k + 1), "}")
    BY <1>2, <1>3, <1>4, <1>5, <1>8, <1>10, <2>1 DEF ValueForm
  <2>2. CASE ~Is(t, SkipWs(t, k + 1), "}")
    <3>0. PICK q : q = f[<<"members", k + 1>>]
      OBVIOUS
    <3>1. p = Made(ObjectOf(q.value), q)
      BY <1>2, <1>4, <1>5, <1>10, <2>2, <3>0 DEF ValueForm
    <3>2. q.error = "none"
      BY <3>1, MadeIs
    <3>3. g[<<"members", k + 1>>] = q /\ ~Is(s, SkipWs(s, k + 1), "}")
      BY <1>7, <1>9, <2>2, <3>0, <3>2 DEF Kinds
    <3>4. QED
      BY <1>3, <1>4, <1>5, <1>10, <3>1, <3>3 DEF ValueForm
  <2>3. QED
    BY <2>1, <2>2
<1>11. CASE t[k] = "["
  <2>1. CASE Is(t, SkipWs(t, k + 1), "]")
    BY <1>2, <1>3, <1>4, <1>5, <1>8, <1>11, <2>1 DEF ValueForm
  <2>2. CASE ~Is(t, SkipWs(t, k + 1), "]")
    <3>0. PICK q : q = f[<<"items", k + 1>>]
      OBVIOUS
    <3>1. p = Made(Array(q.value), q)
      BY <1>2, <1>4, <1>5, <1>11, <2>2, <3>0 DEF ValueForm
    <3>2. q.error = "none"
      BY <3>1, MadeIs
    <3>3. g[<<"items", k + 1>>] = q /\ ~Is(s, SkipWs(s, k + 1), "]")
      BY <1>7, <1>9, <2>2, <3>0, <3>2 DEF Kinds
    <3>4. QED
      BY <1>3, <1>4, <1>5, <1>11, <3>1, <3>3 DEF ValueForm
  <2>3. QED
    BY <2>1, <2>2
<1>12. CASE t[k] = "quote"
  <2>0. PICK q : q = Strings(t)[k + 1]
    OBVIOUS
  <2>1. p = Made(String(q.value), q)
    BY <1>2, <1>4, <1>5, <1>12, <2>0 DEF ValueForm
  <2>2. q.error = "none"
    BY <2>1, MadeIs
  <2>3. Strings(s)[k + 1] = q
    BY <1>6, <2>0, <2>2, SameString
  <2>4. QED
    BY <1>3, <1>4, <1>5, <1>12, <2>1, <2>3 DEF ValueForm
<1>13. CASE t[k] \in {"true", "false"}
  BY <1>2, <1>3, <1>4, <1>5, <1>13 DEF ValueForm
<1>14. CASE t[k] = "null"
  BY <1>2, <1>3, <1>4, <1>5, <1>14 DEF ValueForm
<1>15. CASE t[k] \notin {"{", "[", "quote", "true", "false", "null"}
  <2>1. p = ParseNumber(t, k) /\ g[<<"value", i>>] = ParseNumber(s, k)
    BY <1>2, <1>3, <1>4, <1>5, <1>15 DEF ValueForm
  <2>2. p.next <= Len(t)
    BY <1>0, <1>15 DEF Closed, Is
  <2>3. QED
    BY <1>3, <2>1, <2>2, SameNumber
<1>16. QED
  BY <1>10, <1>11, <1>12, <1>13, <1>14, <1>15

\* The sign after what is right.
LEMMA SameSign ==
    ASSUME NEW s, NEW t, Cut(s, t), NEW n \in Places(t), NEW k, k = SkipWs(t, n), NEW c, Is(t, k, c)
    PROVE  /\ SkipWs(s, n) = k /\ n <= Len(t) /\ k \in 1..Len(t) /\ Is(s, k, c)
           /\ \A d : Is(s, k, d) = Is(t, k, d)
<1>1. k <= Len(t)
  BY DEF Is
<1>2. SkipWs(s, n) = k /\ k \in 1..Len(t)
  BY <1>1, SameSkip
<1>3. n <= Len(t)
  <2>1. Len(t) \in Nat /\ n \in Nat
    BY CutIs DEF Places
  <2>2. k \in n..Len(t) + 1
    BY CutIs, SkipWsIs
  <2>3. QED
    BY <1>1, <2>1, <2>2
<1>4. \A d : Is(s, k, d) = Is(t, k, d)
  BY <1>2, SameIs
<1>5. QED
  BY <1>2, <1>3, <1>4

LEMMA SameItems ==
    ASSUME NEW s, NEW t, Cut(s, t), NEW i \in Places(t), SameAbove(s, t, Rank("items", i))
    PROVE  Same(s, t, "items", i)
<1>0. PICK f, g, p, k : f = Parsed(t) /\ g = Parsed(s) /\ p = f[<<"value", i>>] /\ k = SkipWs(t, p.next)
  OBVIOUS
<1> SUFFICES ASSUME f[<<"items", i>>].error = "none"
             PROVE  g[<<"items", i>>] = f[<<"items", i>>]
  BY <1>0 DEF Same
<1>1. /\ s \in Seq(STRING) /\ t \in Seq(STRING) /\ i \in Places(s) /\ i \in Nat
  BY CutIs DEF Places
<1>2. f[<<"items", i>>] = ParseArray(t, f, i) /\ g[<<"items", i>>] = ParseArray(s, g, i)
  BY <1>0, <1>1, ParsedForms
<1>3. ItemsForm(t, f, i, p, k)
  BY <1>0, ItemsForms
<1>4. p.error = "none" /\ (Is(t, k, "]") \/ Is(t, k, ","))
  BY <1>2, <1>3 DEF ItemsForm
<1>5. p.next \in Places(t) /\ k \in i..Len(t) + 1
  <2>1. Moves(t, p, i)
    BY <1>0, <1>1, ParsedForms
  <2>2. QED
    BY <1>0, <1>1, <1>4, <2>1, Onward
<1>6. SkipWs(s, p.next) = k /\ p.next <= Len(t) /\ \A d : Is(s, k, d) = Is(t, k, d)
  <2>1. PICK n, c : n = p.next /\ Is(t, k, c)
    BY <1>4
  <2>2. n \in Places(t) /\ k = SkipWs(t, n)
    BY <1>0, <1>5, <2>1
  <2>3. SkipWs(s, n) = k /\ n <= Len(t) /\ \A d : Is(s, k, d) = Is(t, k, d)
    BY <2>1, <2>2, SameSign
  <2>4. QED
    BY <2>1, <2>3
<1>7. g[<<"value", i>>] = p
  <2>1. Rank("value", i) > Rank("items", i)
    BY <1>1 DEF Rank
  <2>2. QED
    BY <1>0, <1>4, <1>6, <2>1 DEF SameAbove, Same, Kinds
<1>8. ItemsForm(s, g, i, p, k)
  BY <1>6, <1>7, ItemsForms
<1>9. CASE Is(t, k, "]")
  BY <1>2, <1>3, <1>4, <1>6, <1>8, <1>9 DEF ItemsForm
<1>10. CASE Is(t, k, ",")
  <2>1. f[<<"items", i>>] = Then(p.value, f[<<"items", k + 1>>])
    BY <1>2, <1>3, <1>4, <1>10 DEF ItemsForm
  <2>2. g[<<"items", i>>] = Then(p.value, g[<<"items", k + 1>>])
    BY <1>2, <1>4, <1>6, <1>8, <1>10 DEF ItemsForm
  <2>3. f[<<"items", k + 1>>].error = "none"
    BY <2>1, ThenIs
  <2>4. k + 1 \in Places(t) /\ Rank("items", k + 1) > Rank("items", i)
    BY <1>1, <1>5, <1>10, Ahead
  <2>5. g[<<"items", k + 1>>] = f[<<"items", k + 1>>]
    BY <1>0, <2>3, <2>4 DEF SameAbove, Same, Kinds
  <2>6. QED
    BY <2>1, <2>2, <2>5
<1>11. QED
  BY <1>4, <1>9, <1>10

LEMMA SameMembers ==
    ASSUME NEW s, NEW t, Cut(s, t), NEW start \in Places(t), SameAbove(s, t, Rank("members", start))
    PROVE  Same(s, t, "members", start)
<1>0. PICK f, g, i, key, colon, p, k :
             /\ f = Parsed(t) /\ g = Parsed(s) /\ i = SkipWs(t, start) /\ key = Strings(t)[i + 1]
             /\ colon = SkipWs(t, key.next) /\ p = f[<<"value", colon + 1>>] /\ k = SkipWs(t, p.next)
  OBVIOUS
<1> SUFFICES ASSUME f[<<"members", start>>].error = "none"
             PROVE  g[<<"members", start>>] = f[<<"members", start>>]
  BY <1>0 DEF Same
<1>1. /\ s \in Seq(STRING) /\ t \in Seq(STRING) /\ start \in Places(s) /\ start \in Nat /\ Len(t) \in Nat
      /\ Places(t) = 1..Len(t) + 1
  BY CutIs DEF Places
<1>2. f[<<"members", start>>] = ParseObject(t, f, start) /\ g[<<"members", start>>] = ParseObject(s, g, start)
  BY <1>0, <1>1, ParsedForms
<1>3. MembersForm(t, f, start, i, key, colon, p, k)
  BY <1>0, MembersForms
<1>4. Is(t, i, "quote") /\ key.error = "none" /\ Is(t, colon, ":")
  BY <1>2, <1>3 DEF MembersForm
<1>5. p.error = "none" /\ (Is(t, k, "}") \/ Is(t, k, ","))
  BY <1>2, <1>3, <1>4 DEF MembersForm
<1>6. MoveAbove(t, f, Rank("members", start))
  BY <1>0, <1>1, ParsedIs DEF MoveAbove
<1>7. /\ colon + 1 \in Places(t) /\ Rank("value", colon + 1) > Rank("members", start)
      /\ p.next \in Places(t) /\ k \in start..Len(t) + 1
  <2>1. /\ i = SkipWs(t, start) /\ key = Strings(t)[i + 1] /\ colon = SkipWs(t, key.next)
        /\ p = f[<<"value", colon + 1>>] /\ k = SkipWs(t, p.next)
    BY <1>0
  <2>2. /\ colon + 1 \in Places(t) /\ Rank("value", colon + 1) > Rank("members", start)
        /\ p.error = "none" => p.next \in Places(t) /\ k \in start..Len(t) + 1
    BY <1>1, <1>4, <1>6, <2>1, MembersPlaces, SMTT(40)
  <2>3. QED
    BY <1>5, <2>2
<1>8. SkipWs(s, start) = i /\ Is(s, i, "quote") /\ i + 1 \in Places(t)
  <2>1. SkipWs(s, start) = i /\ Is(s, i, "quote") /\ i \in 1..Len(t)
    BY <1>0, <1>4, SameSign
  <2>2. QED
    BY <1>1, <2>1
<1>9. Strings(s)[i + 1] = key
  BY <1>0, <1>4, <1>8, SameString
<1>10. key.next \in Places(t)
  <2>1. Moves(t, key, i + 1)
    BY <1>0, <1>1, <1>8, StringsMove
  <2>2. QED
    BY <1>1, <1>4, <1>8, <2>1, Onward
<1>11. SkipWs(s, key.next) = colon /\ Is(s, colon, ":")
  BY <1>0, <1>4, <1>10, SameSign
<1>12. SkipWs(s, p.next) = k /\ p.next <= Len(t) /\ \A d : Is(s, k, d) = Is(t, k, d)
  <2>1. PICK n, c : n = p.next /\ Is(t, k, c)
    BY <1>5
  <2>2. n \in Places(t) /\ k = SkipWs(t, n)
    BY <1>0, <1>7, <2>1
  <2>3. SkipWs(s, n) = k /\ n <= Len(t) /\ \A d : Is(s, k, d) = Is(t, k, d)
    BY <2>1, <2>2, SameSign
  <2>4. QED
    BY <2>1, <2>3
<1>13. g[<<"value", colon + 1>>] = p
  BY <1>0, <1>5, <1>7, <1>12 DEF SameAbove, Same, Kinds
<1>14. MembersForm(s, g, start, i, key, colon, p, k)
  BY <1>8, <1>9, <1>11, <1>12, <1>13, MembersForms
<1>15. CASE Is(t, k, "}")
  BY <1>2, <1>3, <1>4, <1>5, <1>8, <1>11, <1>12, <1>14, <1>15 DEF MembersForm
<1>16. CASE Is(t, k, ",")
  <2>1. f[<<"members", start>>] = Then(<<key.value, p.value>>, f[<<"members", k + 1>>])
    BY <1>2, <1>3, <1>4, <1>5, <1>16 DEF MembersForm
  <2>2. g[<<"members", start>>] = Then(<<key.value, p.value>>, g[<<"members", k + 1>>])
    BY <1>2, <1>4, <1>5, <1>8, <1>11, <1>12, <1>14, <1>16 DEF MembersForm
  <2>3. f[<<"members", k + 1>>].error = "none"
    BY <2>1, ThenIs
  <2>4. k + 1 \in Places(t) /\ Rank("members", k + 1) > Rank("members", start)
    BY <1>1, <1>7, <1>16, Ahead
  <2>5. g[<<"members", k + 1>>] = f[<<"members", k + 1>>]
    BY <1>0, <2>3, <2>4 DEF SameAbove, Same, Kinds
  <2>6. QED
    BY <2>1, <2>2, <2>5
<1>17. QED
  BY <1>5, <1>15, <1>16

LEMMA AllSame ==
    ASSUME NEW s, NEW t, Cut(s, t)
    PROVE  \A kind \in Kinds, i \in Places(t) : Same(s, t, kind, i)
<1> DEFINE Top == 2 * Len(t) + 4
           Bad == {r \in 1..Top : \E kind \in Kinds, i \in Places(t) : Rank(kind, i) = r /\ ~Same(s, t, kind, i)}
<1>1. Len(t) \in Nat /\ Places(t) = 1..Len(t) + 1 /\ Top \in Nat
  BY CutIs DEF Places
<1>2. \A kind \in Kinds, i \in Places(t) : Rank(kind, i) \in Nat /\ Rank(kind, i) \in 1..Top
  <2> SUFFICES ASSUME NEW kind \in Kinds, NEW i \in Places(t)
               PROVE  Rank(kind, i) \in Nat /\ Rank(kind, i) \in 1..Top
    OBVIOUS
  <2>1. i \in Nat /\ i >= 1 /\ i <= Len(t) + 1
    BY <1>1
  <2>2. Rank(kind, i) \in 2 * i..2 * i + 1
    BY <2>1, RankIs
  <2>3. QED
    BY <1>1, <2>1, <2>2
<1> HIDE DEF Top
<1>3. Bad = {}
  <2> SUFFICES ASSUME Bad # {} PROVE FALSE
    OBVIOUS
  <2>1. Bad \subseteq 0..Top
    BY <1>1
  <2>2. PICK r \in Bad : \A m \in Bad : m <= r
    <3> HIDE DEF Bad
    <3>1. QED
      BY <1>1, <2>1, GreatestExists
  <2>3. PICK kind \in Kinds, i \in Places(t) : Rank(kind, i) = r /\ ~Same(s, t, kind, i)
    BY <2>2
  <2>4. SameAbove(s, t, Rank(kind, i))
    <3> SUFFICES ASSUME NEW other \in Kinds, NEW k \in Places(t), Rank(other, k) > r PROVE Same(s, t, other, k)
      BY <2>3 DEF SameAbove
    <3>1. Rank(other, k) \in 1..Top /\ ~(Rank(other, k) <= r)
      <4>1. Rank(other, k) \in Nat /\ Rank(other, k) \in 1..Top /\ r \in Nat
        BY <1>1, <1>2, <2>2
      <4>2. QED
        BY <4>1
    <3>2. Rank(other, k) \notin Bad
      BY <2>2, <3>1
    <3>3. QED
      BY <3>1, <3>2
  <2>5. QED
    BY <2>3, <2>4, SameValue, SameItems, SameMembers DEF Kinds
<1>4. QED
  <2> SUFFICES ASSUME NEW kind \in Kinds, NEW i \in Places(t) PROVE Same(s, t, kind, i)
    OBVIOUS
  <2>1. QED
    BY <1>2, <1>3

\* json.cpp: a list, an object or a string of which only a beginning has come is
\* an error, or it is complete, and what it parses to is what the whole text
\* parses to.
THEOREM ABeginningParsesAlike ==
    ASSUME NEW s \in Seq(STRING), NEW n \in 0..Len(s), Closed(s, 1), Parse(SubSeq(s, 1, n)).error = "none"
    PROVE  Parse(SubSeq(s, 1, n)) = Parse(s)
<1>0. PICK t : t = SubSeq(s, 1, n)
  OBVIOUS
<1>1. t \in Seq(STRING) /\ Len(t) = n /\ Len(s) \in Nat /\ n <= Len(s) /\ \A i \in 1..n : t[i] = s[i]
  BY <1>0
<1>2. Cut(s, t)
  BY <1>1 DEF Cut
<1>3. 1 \in Places(t) /\ "value" \in Kinds
  BY <1>1 DEF Places, Kinds
<1>4. Parsed(t)[<<"value", 1>>].error = "none"
  BY <1>0 DEF Parse
<1>5. SkipWs(t, 1) <= Len(t)
  BY <1>1, <1>3, <1>4, Begins
<1>6. SkipWs(s, 1) = SkipWs(t, 1) /\ SkipWs(t, 1) \in 1..Len(t)
  BY <1>2, <1>3, <1>5, SameSkip
<1>7. \A c : Is(s, SkipWs(s, 1), c) = Is(t, SkipWs(t, 1), c)
  BY <1>2, <1>6, SameIs
<1>8. Closed(t, 1)
  BY <1>7 DEF Closed
<1>9. Same(s, t, "value", 1)
  BY <1>2, <1>3, AllSame
<1>10. Parsed(s)[<<"value", 1>>] = Parsed(t)[<<"value", 1>>]
  BY <1>4, <1>8, <1>9 DEF Same
<1>11. QED
  BY <1>0, <1>10 DEF Parse

-----------------------------------------------------------------------------
(* One byte of a stream.                                                   *)

IsStream(s) ==
    /\ s = [residual |-> s.residual, events |-> s.events, firstError |-> s.firstError, threw |-> s.threw]
    /\ \E S : s.events \in Seq(S)
    /\ s.threw \in BOOLEAN

\* An event comes after those that are there.
Adds(s, t) == t.events = s.events \/ \E text : t.events = Append(s.events, text)

Continues(s, t) == IsStream(t) /\ Adds(s, t)

\* A longer sequence, whatever its elements.
LEMMA AppendIsSeq ==
    ASSUME NEW S, NEW e \in Seq(S), NEW text
    PROVE  /\ e \in Seq(S \cup {text}) /\ Append(e, text) \in Seq(S \cup {text})
           /\ Len(Append(e, text)) = Len(e) + 1
<1>1. e \in Seq(S \cup {text})
  OBVIOUS
<1>2. QED
  BY <1>1

\* The three things that a line may do.
LEMMA Logging ==
    ASSUME NEW s, IsStream(s), NEW text
    PROVE  Continues(s, Logs(s, text))
<1>1. PICK S : s.events \in Seq(S)
  BY DEF IsStream
<1>2. Append(s.events, text) \in Seq(S \cup {text})
  BY <1>1, AppendIsSeq
<1>3. PICK r, e, f, t : s = [residual |-> r, events |-> e, firstError |-> f, threw |-> t]
  BY DEF IsStream
<1>4. t \in BOOLEAN /\ s.events = e
  BY <1>3 DEF IsStream
<1>5. Logs(s, text) = [residual |-> r, events |-> Append(e, text), firstError |-> f, threw |-> t]
  <2>1. Logs(s, text) = [s EXCEPT !.events = Append(@, text)]
    BY DEF Logs
  <2>2. QED
    BY <1>3, <1>4, <2>1
<1>6. QED
  BY <1>2, <1>4, <1>5 DEF Continues, IsStream, Adds

LEMMA Keeping ==
    ASSUME NEW s, IsStream(s)
    PROVE  /\ Continues(s, s)
           /\ \A x : Continues(s, [s EXCEPT !.residual = x])
           /\ \A x : Continues(s, [s EXCEPT !.firstError = x])
           /\ Continues(s, [s EXCEPT !.threw = TRUE])
<1>1. PICK r, e, f, t : s = [residual |-> r, events |-> e, firstError |-> f, threw |-> t]
  BY DEF IsStream
<1>2. PICK S : s.events \in Seq(S)
  BY DEF IsStream
<1>3. t \in BOOLEAN /\ s.events = e
  BY <1>1 DEF IsStream
<1>4. \A x, y : \A z \in BOOLEAN :
        Continues(s, [residual |-> x, events |-> e, firstError |-> y, threw |-> z])
  BY <1>2, <1>3 DEF Continues, IsStream, Adds
<1>5. \A x : [s EXCEPT !.residual = x] = [residual |-> x, events |-> e, firstError |-> f, threw |-> t]
  BY <1>1
<1>6. \A x : [s EXCEPT !.firstError = x] = [residual |-> r, events |-> e, firstError |-> x, threw |-> t]
  BY <1>1
<1>7. \A x : [s EXCEPT !.threw = x] = [residual |-> r, events |-> e, firstError |-> f, threw |-> x]
  BY <1>1
<1>8. Continues(s, s)
  BY <1>1, <1>3, <1>4
<1>9. ASSUME NEW x PROVE Continues(s, [s EXCEPT !.residual = x])
  <2>1. Continues(s, [residual |-> x, events |-> e, firstError |-> f, threw |-> t])
    BY <1>3, <1>4
  <2>2. QED
    BY <2>1, <1>5
<1>10. ASSUME NEW x PROVE Continues(s, [s EXCEPT !.firstError = x])
  <2>1. Continues(s, [residual |-> r, events |-> e, firstError |-> x, threw |-> t])
    BY <1>3, <1>4
  <2>2. QED
    BY <2>1, <1>6
<1>11. Continues(s, [s EXCEPT !.threw = TRUE])
  <2>1. Continues(s, [residual |-> r, events |-> e, firstError |-> f, threw |-> TRUE])
    BY <1>4
  <2>2. QED
    BY <2>1, <1>7
<1>12. QED
  BY <1>8, <1>9, <1>10, <1>11

LEMMA LineContinues ==
    ASSUME NEW call, NEW s, IsStream(s), NEW line
    PROVE  Continues(s, Line(call, s, line))
<1>1. \A event : Continues(s, BuildEvent(s, event))
  BY Logging, Keeping DEF BuildEvent
<1>2. \A event : Continues(s, PullEvent(s, event))
  BY Logging, Keeping DEF PullEvent
<1>3. \A p : Continues(s, Told(call, s, line, p))
  BY <1>1, <1>2, Logging, Keeping DEF Told
<1>4. QED
  BY <1>3, Keeping DEF Line

LEMMA ByteContinues ==
    ASSUME NEW call, NEW s, IsStream(s), NEW byte
    PROVE  Continues(s, OnChunk(call, s, byte))
<1>1. CASE s.threw
  BY <1>1, Keeping DEF OnChunk
<1>2. CASE ~s.threw /\ byte = "newline"
  <2> DEFINE t == [s EXCEPT !.residual = <<>>]
  <2>1. Continues(s, t)
    BY Keeping
  <2>2. Continues(t, Line(call, t, s.residual))
    BY <2>1, LineContinues DEF Continues
  <2>3. t.events = s.events
    BY DEF IsStream
  <2>4. OnChunk(call, s, byte) = Line(call, t, s.residual)
    BY <1>2 DEF OnChunk
  <2> HIDE DEF t
  <2>5. QED
    BY <2>2, <2>3, <2>4 DEF Continues, Adds
<1>3. CASE ~s.threw /\ byte # "newline"
  <2>1. OnChunk(call, s, byte) = [s EXCEPT !.residual = Append(@, byte)]
    BY <1>3 DEF OnChunk
  <2>2. PICK x : x = Append(s.residual, byte)
    OBVIOUS
  <2>3. OnChunk(call, s, byte) = [s EXCEPT !.residual = x]
    BY <2>1, <2>2
  <2>4. Continues(s, [s EXCEPT !.residual = x])
    BY Keeping
  <2>5. QED
    BY <2>3, <2>4
<1>4. QED
  BY <1>1, <1>2, <1>3

-----------------------------------------------------------------------------
(* The bytes one after the other.                                          *)

\* The recursion of StreamOf.
LEMMA StreamIsDefined ==
    ASSUME NEW call, NEW bytes \in Seq(STRING)
    PROVE  StreamOf(call, bytes) = [n \in 0..Len(bytes) |->
             IF n = 0 THEN Nothing ELSE OnChunk(call, StreamOf(call, bytes)[n - 1], bytes[n])]
<1> DEFINE Recurs(f, k) == f = [n \in 0..k |-> IF n = 0 THEN Nothing ELSE OnChunk(call, f[n - 1], bytes[n])]
<1>1. Len(bytes) \in Nat
  OBVIOUS
<1>2. \A k \in 0..Len(bytes) : \E f : Recurs(f, k)
  <2> DEFINE Without == {k \in 0..Len(bytes) : ~\E f : Recurs(f, k)}
  <2>1. SUFFICES ASSUME Without # {} PROVE FALSE
    OBVIOUS
  <2>2. PICK k \in Without : \A m \in Without : k <= m
    <3>1. Without \subseteq Nat
      BY <1>1
    <3> HIDE DEF Without
    <3>2. QED
      BY <2>1, <3>1, LeastExists
  <2>3. CASE k = 0
    <3>1. Recurs([n \in 0..0 |-> Nothing], 0)
      OBVIOUS
    <3>2. QED
      BY <2>3, <3>1
  <2>4. CASE k # 0
    <3>1. k - 1 \in 0..Len(bytes) /\ ~(k <= k - 1)
      BY <1>1, <2>4
    <3>2. PICK f : Recurs(f, k - 1)
      BY <2>2, <3>1
    <3> DEFINE g == [n \in 0..k |-> IF n # k THEN f[n] ELSE OnChunk(call, f[k - 1], bytes[k])]
    <3>3. Recurs(g, k)
      <4>1. /\ k \in Nat /\ k - 1 \in 0..k /\ k \in 0..k /\ \A n \in 0..k : n # k => n \in 0..(k - 1)
            /\ \A n \in 0..k : n # 0 => n - 1 \in 0..k /\ n - 1 # k
        BY <1>1, <2>4
      <4>2. \A n \in 0..(k - 1) : f[n] = IF n = 0 THEN Nothing ELSE OnChunk(call, f[n - 1], bytes[n])
        BY <3>2
      <4>3. g[k] = OnChunk(call, f[k - 1], bytes[k])
        BY <4>1
      <4>4. \A n \in 0..k : n # k => g[n] = f[n]
        OBVIOUS
      <4>5. g = [n \in 0..k |-> g[n]]
        OBVIOUS
      <4> HIDE DEF g
      <4>6. ASSUME NEW n \in 0..k
            PROVE  g[n] = IF n = 0 THEN Nothing ELSE OnChunk(call, g[n - 1], bytes[n])
        <5>1. CASE n = k
          BY <2>4, <4>1, <4>3, <4>4, <5>1
        <5>2. CASE n # k
          BY <4>1, <4>2, <4>4, <5>2
        <5>3. QED
          BY <5>1, <5>2
      <4>7. QED
        BY <4>5, <4>6
    <3>4. QED
      BY <3>3
  <2>5. QED
    BY <2>3, <2>4
<1>3. StreamOf(call, bytes) = CHOOSE f : Recurs(f, Len(bytes))
  BY DEF StreamOf
<1> HIDE DEF Recurs
<1>4. PICK f : Recurs(f, Len(bytes))
  <2>1. Len(bytes) \in 0..Len(bytes)
    BY <1>1
  <2>2. QED
    BY <1>2, <2>1
<1>5. Recurs(StreamOf(call, bytes), Len(bytes))
  BY <1>3, <1>4
<1>6. QED
  BY <1>5 DEF Recurs

LEMMA StreamSteps ==
    ASSUME NEW call, NEW bytes \in Seq(STRING)
    PROVE  /\ StreamOf(call, bytes)[0] = Nothing
           /\ \A n \in 1..Len(bytes) :
                StreamOf(call, bytes)[n] = OnChunk(call, StreamOf(call, bytes)[n - 1], bytes[n])
<1>1. Len(bytes) \in Nat /\ 0 \in 0..Len(bytes) /\ \A n \in 1..Len(bytes) : n \in 0..Len(bytes) /\ n # 0
  OBVIOUS
<1>2. QED
  BY <1>1, StreamIsDefined

\* What has been shown stays as it is.
LEMMA StreamGrows ==
    ASSUME NEW call, NEW bytes \in Seq(STRING), NEW k \in 0..Len(bytes)
    PROVE  \A n \in k..Len(bytes) :
             /\ IsStream(StreamOf(call, bytes)[n])
             /\ IsPrefix(StreamOf(call, bytes)[k].events, StreamOf(call, bytes)[n].events)
<1> DEFINE stream == StreamOf(call, bytes)
<1>1. Len(bytes) \in Nat
  OBVIOUS
<1>2. stream[0] = Nothing /\ \A n \in 1..Len(bytes) : stream[n] = OnChunk(call, stream[n - 1], bytes[n])
  BY StreamSteps
<1> HIDE DEF stream
<1>3. ASSUME NEW n \in 0..Len(bytes) PROVE IsStream(stream[n])
  <2> DEFINE Bad == {m \in 0..Len(bytes) : ~IsStream(stream[m])}
  <2>1. SUFFICES ASSUME Bad # {} PROVE FALSE
    OBVIOUS
  <2>2. PICK m \in Bad : \A h \in Bad : m <= h
    <3>1. Bad \subseteq Nat
      BY <1>1
    <3> HIDE DEF Bad
    <3>2. QED
      BY <2>1, <3>1, LeastExists
  <2>3. m # 0
    <3>1. <<>> \in Seq({})
      OBVIOUS
    <3>2. IsStream(Nothing)
      BY <3>1 DEF IsStream, Nothing
    <3>3. QED
      BY <1>2, <2>2, <3>2
  <2>4. m \in 1..Len(bytes) /\ m - 1 \in 0..Len(bytes) /\ ~(m <= m - 1)
    BY <1>1, <2>3
  <2>5. IsStream(stream[m - 1])
    BY <2>2, <2>4
  <2>6. IsStream(stream[m])
    BY <1>2, <2>4, <2>5, ByteContinues DEF Continues
  <2>7. QED
    BY <2>2, <2>6
<1>4. ASSUME NEW n \in k..Len(bytes) PROVE IsPrefix(stream[k].events, stream[n].events)
  <2> DEFINE Bad == {m \in k..Len(bytes) : ~IsPrefix(stream[k].events, stream[m].events)}
  <2>1. SUFFICES ASSUME Bad # {} PROVE FALSE
    OBVIOUS
  <2>2. PICK m \in Bad : \A h \in Bad : m <= h
    <3>1. Bad \subseteq Nat
      BY <1>1
    <3> HIDE DEF Bad
    <3>2. QED
      BY <2>1, <3>1, LeastExists
  <2>3. m # k
    <3>1. PICK S : stream[k].events \in Seq(S)
      BY <1>3 DEF IsStream
    <3>2. IsPrefix(stream[k].events, stream[k].events)
      BY <3>1 DEF IsPrefix
    <3>3. QED
      BY <2>2, <3>2
  <2>4. m \in 1..Len(bytes) /\ m - 1 \in k..Len(bytes) /\ m - 1 \in 0..Len(bytes) /\ ~(m <= m - 1)
    BY <1>1, <2>3
  <2> DEFINE e == stream[k].events
             f == stream[m - 1].events
             g == stream[m].events
  <2>5. IsPrefix(e, f)
    BY <2>2, <2>4
  <2>6. g = f \/ \E text : g = Append(f, text)
    <3>1. IsStream(stream[m - 1]) /\ stream[m] = OnChunk(call, stream[m - 1], bytes[m])
      BY <1>2, <1>3, <2>4
    <3>2. Continues(stream[m - 1], stream[m])
      BY <3>1, ByteContinues
    <3>3. QED
      BY <3>2 DEF Continues, Adds
  <2>7. (\E S : e \in Seq(S)) /\ (\E S : f \in Seq(S))
    BY <1>3, <2>4 DEF IsStream
  <2> HIDE DEF e, f, g
  <2>8. IsPrefix(e, g)
    <3>1. CASE g = f
      BY <2>5, <3>1
    <3>2. CASE g # f
      <4>1. PICK text : g = Append(f, text)
        BY <2>6, <3>2
      <4>2. PICK S : f \in Seq(S)
        BY <2>7
      <4>3. PICK T : e \in Seq(T)
        BY <2>7
      <4>4. Len(e) \in Nat /\ Len(f) \in Nat /\ Len(e) <= Len(f) /\ SubSeq(e, 1, Len(e)) = SubSeq(f, 1, Len(e))
        BY <2>5, <4>2, <4>3 DEF IsPrefix
      <4>5. f \in Seq(S \cup {text}) /\ g \in Seq(S \cup {text}) /\ Len(g) = Len(f) + 1
        BY <4>1, <4>2, AppendIsSeq
      <4>6. SubSeq(g, 1, Len(e)) = SubSeq(f, 1, Len(e))
        <5>1. \A i \in 1..Len(e) : g[i] = f[i]
          BY <4>1, <4>4, <4>5
        <5>2. QED
          BY <4>4, <4>5, <5>1
      <4>7. QED
        BY <4>4, <4>5, <4>6 DEF IsPrefix
    <3>3. QED
      BY <3>1, <3>2
  <2>9. QED
    BY <2>2, <2>8 DEF e, g
<1>5. QED
  BY <1>3, <1>4 DEF stream

\* The first bytes alone mean what they mean before the others.
LEMMA StreamOfPrefix ==
    ASSUME NEW call, NEW bytes \in Seq(STRING), NEW k \in 0..Len(bytes)
    PROVE  Streamed(call, SubSeq(bytes, 1, k)) = StreamOf(call, bytes)[k]
<1> DEFINE first == SubSeq(bytes, 1, k)
<1>1. /\ Len(bytes) \in Nat /\ first \in Seq(STRING) /\ Len(first) = k
      /\ \A i \in 1..k : first[i] = bytes[i]
  OBVIOUS
<1> HIDE DEF first
<1>2. \A n \in 0..k : StreamOf(call, first)[n] = StreamOf(call, bytes)[n]
  <2> DEFINE Differ == {n \in 0..k : StreamOf(call, first)[n] # StreamOf(call, bytes)[n]}
  <2>1. SUFFICES ASSUME Differ # {} PROVE FALSE
    OBVIOUS
  <2>2. PICK n \in Differ : \A m \in Differ : n <= m
    <3>1. Differ \subseteq Nat
      BY <1>1
    <3> HIDE DEF Differ
    <3>2. QED
      BY <2>1, <3>1, LeastExists
  <2>3. n # 0
    BY <1>1, <2>2, StreamSteps
  <2>4. n \in 1..k /\ n \in 1..Len(bytes) /\ n \in 1..Len(first) /\ n - 1 \in 0..k /\ ~(n <= n - 1)
    BY <1>1, <2>3
  <2>5. StreamOf(call, first)[n - 1] = StreamOf(call, bytes)[n - 1] /\ first[n] = bytes[n]
    BY <1>1, <2>2, <2>4
  <2>6. StreamOf(call, first)[n] = StreamOf(call, bytes)[n]
    BY <1>1, <2>4, <2>5, StreamSteps
  <2>7. QED
    BY <2>2, <2>6
<1>3. k \in 0..k
  BY <1>1
<1>4. QED
  BY <1>1, <1>2, <1>3 DEF Streamed, first

\* What a beginning of the body shows is a beginning of what all of it shows.
LEMMA PrefixIsShown ==
    ASSUME NEW call, NEW bytes \in Seq(STRING), NEW k \in 0..Len(bytes)
    PROVE  IsPrefix(Streamed(call, SubSeq(bytes, 1, k)).events, Streamed(call, bytes).events)
<1>1. Len(bytes) \in k..Len(bytes) /\ Len(bytes) \in 0..Len(bytes)
  OBVIOUS
<1>2. Streamed(call, bytes) = StreamOf(call, bytes)[Len(bytes)]
  BY DEF Streamed
<1>3. QED
  BY <1>1, <1>2, StreamGrows, StreamOfPrefix

-----------------------------------------------------------------------------
(* The invariant: where the client is in the bytes of the answer.          *)

\* What was read and not used, and what may still be read, are one stretch of the
\* bytes, which ends where the daemon does.
Stretch(pos, mid, last) ==
    /\ pos \in 0..mid /\ mid \in 0..last /\ last \in 0..Len(answer.bytes)
    /\ pending = SubSeq(answer.bytes, pos + 1, mid)
    /\ wire = SubSeq(answer.bytes, mid + 1, last)
    /\ cut = (last # Len(answer.bytes))

HasTaken(n) == n \in 0..Len(answer.body) /\ taken = SubSeq(answer.body, 1, n)

BeforeTheBody(pos) ==
    at \in {"connecting", "head"} => pos = 0 /\ HasTaken(0) /\ chunk = <<>>

Chunked ==
    at \in {"size", "data", "crlf", "trailer"} => answer.framing = "chunked"

AtItsSize(pos) ==
    at = "size" => /\ chunk = <<>>
                   /\ \E c \in answer.chunks : pos = c.at - 1 /\ HasTaken(c.before)

\* left of the n bytes of a chunk are missing.
InItsData(pos) ==
    at = "data" =>
        \E c \in answer.chunks : \E n \in Nat \ {0} :
            /\ n = SizeOf[answer.bytes[c.at]] /\ left \in 0..n
            /\ pos = c.at + 1 + n - left
            /\ chunk = SubSeq(answer.body, c.before + 1, c.before + n - left)
            /\ HasTaken(c.before)

\* The chunk that comes next.
BehindItsData(pos) ==
    at = "crlf" => \E c \in answer.chunks : left \in 0..1 /\ pos = c.at - 1 - left /\ HasTaken(c.before)

AllTaken ==
    /\ at = "trailer" => taken = answer.body
    /\ at = "returned" /\ answer.framing = "chunked" => taken = answer.body
    /\ at = "returned" /\ answer.framing = "close" /\ ~cut => taken = answer.body

InALength(pos) ==
    at = "length" =>
        /\ answer.framing = "length" /\ left \in 0..answer.length /\ HasTaken(answer.length - left)
        /\ left > 0 => \E i \in DOMAIN answer.bytes :
                         FirstBlank(answer.bytes, i) /\ pos = i + answer.length - left

BeforeTheClose(pos) ==
    at = "close" =>
        /\ answer.framing = "close"
        /\ \E i \in 0..pos : i \in DOMAIN answer.bytes /\ FirstBlank(answer.bytes, i) /\ HasTaken(pos - i)

Placed(pos) ==
    /\ BeforeTheBody(pos) /\ AtItsSize(pos) /\ InItsData(pos) /\ BehindItsData(pos)
    /\ InALength(pos) /\ BeforeTheClose(pos)

IInv ==
    /\ answer \in Answers /\ Chunked /\ AllTaken
    /\ \E n \in 0..Len(answer.body) : HasTaken(n)
    /\ \E last \in 0..Len(answer.bytes) : \E mid \in 0..last : \E pos \in 0..mid :
         Stretch(pos, mid, last) /\ Placed(pos)

-----------------------------------------------------------------------------
(* Stretches of a sequence.                                                *)

LEMMA StretchIsSeq ==
    ASSUME NEW b \in Seq(STRING), NEW m \in 0..Len(b), NEW p \in 0..m
    PROVE  /\ SubSeq(b, p + 1, m) \in Seq(STRING) /\ Len(SubSeq(b, p + 1, m)) = m - p
           /\ \A i \in 1..m - p : SubSeq(b, p + 1, m)[i] = b[p + i]
OBVIOUS

LEMMA SameSeq ==
    ASSUME NEW u \in Seq(STRING), NEW v \in Seq(STRING), Len(u) = Len(v), \A i \in 1..Len(u) : u[i] = v[i]
    PROVE  u = v
OBVIOUS

LEMMA JoinIsSeq ==
    ASSUME NEW u \in Seq(STRING), NEW v \in Seq(STRING)
    PROVE  /\ u \o v \in Seq(STRING) /\ Len(u \o v) = Len(u) + Len(v)
           /\ \A i \in 1..Len(u) : (u \o v)[i] = u[i]
           /\ \A i \in 1..Len(v) : (u \o v)[Len(u) + i] = v[i]
OBVIOUS

LEMMA RestOfStretch ==
    ASSUME NEW b \in Seq(STRING), NEW m \in 0..Len(b), NEW p \in 0..m, NEW n \in 0..m - p
    PROVE  SubSeq(SubSeq(b, p + 1, m), n + 1, m - p) = SubSeq(b, p + n + 1, m)
<1> DEFINE t == SubSeq(b, p + 1, m)
           u == SubSeq(t, n + 1, m - p)
           v == SubSeq(b, p + n + 1, m)
<1>1. m \in Nat /\ p \in Nat /\ n \in Nat /\ m - p \in Nat /\ p + n \in 0..m /\ Len(b) \in Nat
  OBVIOUS
<1>2. t \in Seq(STRING) /\ Len(t) = m - p /\ \A i \in 1..m - p : t[i] = b[p + i]
  BY StretchIsSeq
<1>3. v \in Seq(STRING) /\ Len(v) = m - (p + n) /\ \A i \in 1..m - (p + n) : v[i] = b[(p + n) + i]
  BY <1>1, StretchIsSeq
<1> HIDE DEF t, v
<1>4. u \in Seq(STRING) /\ Len(u) = (m - p) - n /\ \A i \in 1..(m - p) - n : u[i] = t[n + i]
  BY <1>1, <1>2, StretchIsSeq
<1> HIDE DEF u
<1>5. \A i \in 1..(m - p) - n : u[i] = v[i]
  <2> TAKE i \in 1..(m - p) - n
  <2>1. n + i \in 1..m - p /\ i \in 1..m - (p + n) /\ p + (n + i) = (p + n) + i
    BY <1>1
  <2>2. QED
    BY <1>2, <1>3, <1>4, <2>1
<1>6. u = v
  <2>1. (m - p) - n = m - (p + n)
    BY <1>1
  <2>2. u \in Seq(STRING) /\ v \in Seq(STRING)
    BY <1>3, <1>4
  <2>3. Len(u) = Len(v)
    BY <1>3, <1>4, <2>1
  <2>4. \A i \in 1..Len(u) : u[i] = v[i]
    BY <1>4, <1>5
  <2>5. QED
    BY <2>2, <2>3, <2>4, SameSeq
<1>7. QED
  BY <1>6 DEF u, v, t

LEMMA StartOfStretch ==
    ASSUME NEW b \in Seq(STRING), NEW m \in 0..Len(b), NEW p \in 0..m, NEW n \in 0..m - p
    PROVE  SubSeq(SubSeq(b, p + 1, m), 1, n) = SubSeq(b, p + 1, p + n)
<1> DEFINE t == SubSeq(b, p + 1, m)
           u == SubSeq(t, 1, n)
           v == SubSeq(b, p + 1, p + n)
<1>1. m \in Nat /\ p \in Nat /\ n \in Nat /\ m - p \in Nat /\ p + n \in 0..m /\ Len(b) \in Nat
      /\ p + n \in 0..Len(b) /\ p \in 0..p + n /\ (p + n) - p = n
  OBVIOUS
<1>2. t \in Seq(STRING) /\ Len(t) = m - p /\ \A i \in 1..m - p : t[i] = b[p + i]
  BY StretchIsSeq
<1>3. v \in Seq(STRING) /\ Len(v) = n /\ \A i \in 1..n : v[i] = b[p + i]
  BY <1>1, StretchIsSeq
<1> HIDE DEF t, v
<1>4. u \in Seq(STRING) /\ Len(u) = n /\ \A i \in 1..n : u[i] = t[i]
  BY <1>1, <1>2
<1> HIDE DEF u
<1>5. \A i \in 1..n : u[i] = v[i]
  <2> TAKE i \in 1..n
  <2>1. i \in 1..m - p
    BY <1>1
  <2>2. QED
    BY <1>2, <1>3, <1>4, <2>1
<1>6. u = v
  <2>1. u \in Seq(STRING) /\ v \in Seq(STRING) /\ Len(u) = Len(v)
    BY <1>3, <1>4
  <2>2. \A i \in 1..Len(u) : u[i] = v[i]
    BY <1>4, <1>5
  <2>3. QED
    BY <2>1, <2>2, SameSeq
<1>7. QED
  BY <1>6 DEF u, v, t

LEMMA JoinedStretches ==
    ASSUME NEW b \in Seq(STRING), NEW m \in 0..Len(b), NEW p \in 0..m, NEW q \in m..Len(b)
    PROVE  SubSeq(b, p + 1, m) \o SubSeq(b, m + 1, q) = SubSeq(b, p + 1, q)
<1> DEFINE t == SubSeq(b, p + 1, m)
           u == SubSeq(b, m + 1, q)
           v == SubSeq(b, p + 1, q)
<1>1. m \in Nat /\ p \in Nat /\ q \in Nat /\ Len(b) \in Nat /\ p <= m /\ m <= q /\ q \in 0..Len(b)
      /\ p \in 0..q /\ m \in 0..q
  OBVIOUS
<1>2. t \in Seq(STRING) /\ Len(t) = m - p /\ \A i \in 1..m - p : t[i] = b[p + i]
  BY StretchIsSeq
<1>3. u \in Seq(STRING) /\ Len(u) = q - m /\ \A i \in 1..q - m : u[i] = b[m + i]
  BY <1>1, StretchIsSeq
<1>4. v \in Seq(STRING) /\ Len(v) = q - p /\ \A i \in 1..q - p : v[i] = b[p + i]
  BY <1>1, StretchIsSeq
<1> HIDE DEF t, u, v
<1>5. t \o u \in Seq(STRING) /\ Len(t \o u) = q - p
  <2>1. t \o u \in Seq(STRING) /\ Len(t \o u) = Len(t) + Len(u)
    BY <1>2, <1>3, JoinIsSeq
  <2>2. (m - p) + (q - m) = q - p
    BY <1>1
  <2>3. QED
    BY <1>2, <1>3, <2>1, <2>2
<1>6. \A i \in 1..q - p : (t \o u)[i] = v[i]
  <2> TAKE i \in 1..q - p
  <2>1. CASE i <= m - p
    <3>1. i \in 1..m - p /\ (t \o u)[i] = t[i]
      BY <1>1, <1>2, <1>3, <2>1, JoinIsSeq
    <3>2. QED
      BY <1>2, <1>4, <3>1
  <2>2. CASE i > m - p
    <3>1. i - (m - p) \in 1..q - m /\ m + (i - (m - p)) = p + i
      BY <1>1, <2>2
    <3>2. (t \o u)[i] = u[i - (m - p)]
      <4>1. (m - p) + (i - (m - p)) = i
        BY <1>1
      <4>2. QED
        BY <1>2, <1>3, <3>1, <4>1, JoinIsSeq
    <3>3. QED
      BY <1>3, <1>4, <3>1, <3>2
  <2>3. i <= m - p \/ i > m - p
    BY <1>1
  <2>4. QED
    BY <2>1, <2>2, <2>3
<1>7. t \o u = v
  BY <1>4, <1>5, <1>6, SameSeq
<1>8. QED
  BY <1>7 DEF t, u, v

\* The same n elements after p of the one and q of the other.
Alike(b, p, d, q, n) == \A i \in 1..n : b[p + i] = d[q + i]

LEMMA EqualStretches ==
    ASSUME NEW b \in Seq(STRING), NEW d \in Seq(STRING), NEW p \in Nat, NEW q \in Nat, NEW n \in Nat,
           p + n <= Len(b), q + n <= Len(d), Alike(b, p, d, q, n)
    PROVE  SubSeq(b, p + 1, p + n) = SubSeq(d, q + 1, q + n)
<1> DEFINE t == SubSeq(b, p + 1, p + n)
           u == SubSeq(d, q + 1, q + n)
<1>1. p + n \in 0..Len(b) /\ q + n \in 0..Len(d) /\ p \in 0..p + n /\ q \in 0..q + n
      /\ (p + n) - p = n /\ (q + n) - q = n
  OBVIOUS
<1>2. t \in Seq(STRING) /\ Len(t) = n /\ \A i \in 1..n : t[i] = b[p + i]
  BY <1>1, StretchIsSeq
<1>3. u \in Seq(STRING) /\ Len(u) = n /\ \A i \in 1..n : u[i] = d[q + i]
  BY <1>1, StretchIsSeq
<1> HIDE DEF t, u
<1>4. t = u
  <2>1. \A i \in 1..n : t[i] = u[i]
    BY <1>2, <1>3 DEF Alike
  <2>2. QED
    BY <1>2, <1>3, <2>1, SameSeq
<1>5. QED
  BY <1>4 DEF t, u

\* There is one first blank.
LEMMA OneFirstBlank ==
    ASSUME NEW b \in Seq(STRING), NEW i \in DOMAIN b, NEW j \in DOMAIN b,
           FirstBlank(b, i), FirstBlank(b, j)
    PROVE  i = j
<1>1. i \in Nat /\ j \in Nat /\ i >= 1 /\ j >= 1
  OBVIOUS
<1>2. ~(i < j) /\ ~(j < i)
  BY <1>1 DEF FirstBlank
<1>3. QED
  BY <1>1, <1>2

-----------------------------------------------------------------------------
(* Every step keeps the client where it is in the bytes.                   *)

LEMMA AnswersAreFramed ==
    ASSUME NEW a \in Answers
    PROVE  /\ a.bytes \in Seq(STRING) /\ a.body \in Seq(STRING) /\ a.length \in Nat /\ Framed(a)
           /\ a.call \in {"build", "pull", "exists"} /\ a.framing \in {"chunked", "length", "close"}
           /\ SizeOf \in [DOMAIN SizeOf -> Nat] /\ "crlf" \notin DOMAIN SizeOf
BY PipeAssumption

At(pos, mid, last) ==
    /\ last \in 0..Len(answer.bytes) /\ mid \in 0..last /\ pos \in 0..mid
    /\ Stretch(pos, mid, last) /\ Placed(pos)

Known ==
    answer \in Answers /\ Chunked /\ AllTaken /\ \E n \in 0..Len(answer.body) : HasTaken(n)

\* The parts of the invariant, with the places named.
LEMMA IInvParts == IInv <=> Known /\ \E pos, mid, last : At(pos, mid, last)
BY DEF IInv, Known, At

LEMMA InitIInv == Init => IInv
<1> SUFFICES ASSUME Init PROVE IInv
  OBVIOUS
<1>1. answer \in Answers /\ answer.bytes \in Seq(STRING) /\ answer.body \in Seq(STRING)
  BY AnswersAreFramed DEF Init
<1>2. PICK n \in 0..Len(answer.bytes) : wire = SubSeq(answer.bytes, 1, n)
  BY DEF Init
<1>3. Len(answer.bytes) \in Nat /\ Len(answer.body) \in Nat /\ 0 \in 0..Len(answer.body)
      /\ 0 \in 0..n /\ 0 \in 0..0 /\ n \in Nat
  BY <1>1
<1>4. HasTaken(0)
  <2>1. SubSeq(answer.body, 1, 0) = <<>>
    BY <1>1
  <2>2. QED
    BY <1>3, <2>1 DEF HasTaken, Init
<1>5. Stretch(0, 0, n)
  <2>1. SubSeq(answer.bytes, 0 + 1, 0) = <<>> /\ SubSeq(answer.bytes, 0 + 1, n) = SubSeq(answer.bytes, 1, n)
    BY <1>1
  <2>2. Len(SubSeq(answer.bytes, 0 + 1, n)) = n - 0
    BY <1>1, <1>3, StretchIsSeq
  <2>3. SubSeq(answer.bytes, 1, Len(answer.bytes)) = answer.bytes
    BY <1>1
  <2>4. (wire # answer.bytes) = (n # Len(answer.bytes))
    BY <1>2, <1>3, <2>1, <2>2, <2>3
  <2>5. cut = (wire # answer.bytes) /\ pending = <<>>
    BY DEF Init
  <2>6. cut = (n # Len(answer.bytes))
    BY <2>4, <2>5
  <2>7. QED
    BY <1>2, <1>3, <2>1, <2>5, <2>6 DEF Stretch
<1>6. Placed(0) /\ Chunked /\ AllTaken
  BY <1>4 DEF Init, Placed, BeforeTheBody, AtItsSize, InItsData, BehindItsData, InALength, BeforeTheClose,
              Chunked, AllTaken
<1>7. At(0, 0, n) /\ Known
  BY <1>1, <1>3, <1>4, <1>5, <1>6 DEF At, Known
<1>8. QED
  BY <1>7, IInvParts

\* The stretch that is read, and the one that is dropped from its start.
LEMMA PendingIs ==
    ASSUME Known, NEW pos, NEW mid, NEW last, At(pos, mid, last)
    PROVE  /\ pos \in Nat /\ mid \in Nat /\ last \in Nat /\ pos <= mid /\ mid <= last
           /\ last <= Len(answer.bytes) /\ Len(answer.bytes) \in Nat /\ mid \in 0..Len(answer.bytes)
           /\ pending \in Seq(STRING) /\ Len(pending) = mid - pos
           /\ \A i \in 1..mid - pos : pending[i] = answer.bytes[pos + i]
           /\ wire \in Seq(STRING) /\ Len(wire) = last - mid
<1>1. answer.bytes \in Seq(STRING) /\ Len(answer.bytes) \in Nat
  BY AnswersAreFramed DEF Known
<1>2. /\ last \in 0..Len(answer.bytes) /\ mid \in 0..last /\ pos \in 0..mid
      /\ pending = SubSeq(answer.bytes, pos + 1, mid) /\ wire = SubSeq(answer.bytes, mid + 1, last)
  BY DEF At, Stretch
<1>3. /\ pos \in Nat /\ mid \in Nat /\ last \in Nat /\ pos <= mid /\ mid <= last
      /\ last <= Len(answer.bytes) /\ mid \in 0..Len(answer.bytes)
  BY <1>1, <1>2
<1>4. /\ pending \in Seq(STRING) /\ Len(pending) = mid - pos
      /\ \A i \in 1..mid - pos : pending[i] = answer.bytes[pos + i]
  BY <1>1, <1>2, <1>3, StretchIsSeq
<1>5. wire \in Seq(STRING) /\ Len(wire) = last - mid
  BY <1>1, <1>2, <1>3, StretchIsSeq
<1>6. QED
  BY <1>1, <1>3, <1>4, <1>5

LEMMA Dropped ==
    ASSUME Known, NEW pos, NEW mid, NEW last, At(pos, mid, last), NEW n \in 0..Len(pending), Drop(n),
           UNCHANGED <<answer, wire, cut>>
    PROVE  pos + n \in 0..mid /\ Stretch(pos + n, mid, last)'
<1>1. /\ answer.bytes \in Seq(STRING) /\ mid \in 0..Len(answer.bytes) /\ pos \in 0..mid /\ n \in 0..mid - pos
      /\ Len(pending) = mid - pos /\ pos \in Nat /\ mid \in Nat
  BY PendingIs, AnswersAreFramed DEF Known, At
<1>2. /\ pending = SubSeq(answer.bytes, pos + 1, mid) /\ wire = SubSeq(answer.bytes, mid + 1, last)
      /\ last \in 0..Len(answer.bytes) /\ mid \in 0..last /\ cut = (last # Len(answer.bytes))
  BY DEF At, Stretch
<1>3. pending' = SubSeq(SubSeq(answer.bytes, pos + 1, mid), n + 1, mid - pos)
  BY <1>1, <1>2 DEF Drop
<1>4. pending' = SubSeq(answer.bytes, pos + n + 1, mid)
  BY <1>1, <1>3, RestOfStretch
<1>5. pos + n \in 0..mid
  BY <1>1
<1>6. QED
  BY <1>2, <1>4, <1>5 DEF Stretch

LEMMA AllDropped ==
    ASSUME Known, NEW pos, NEW mid, NEW last, At(pos, mid, last), pending' = <<>>, UNCHANGED <<answer, wire, cut>>
    PROVE  mid \in 0..mid /\ Stretch(mid, mid, last)'
<1>1. answer.bytes \in Seq(STRING) /\ mid \in Nat
  BY PendingIs, AnswersAreFramed DEF Known
<1>2. SubSeq(answer.bytes, mid + 1, mid) = <<>> /\ mid \in 0..mid
  BY <1>1
<1>3. QED
  BY <1>2 DEF At, Stretch

\* What is taken of it.
LEMMA SomeIs ==
    ASSUME Known, NEW pos, NEW mid, NEW last, At(pos, mid, last), NEW n \in Nat
    PROVE  \E k \in 0..Len(pending) :
             /\ k <= n /\ (k = n \/ k = Len(pending)) /\ Len(Some(n)) = k
             /\ Some(n) = SubSeq(answer.bytes, pos + 1, pos + k)
<1>1. /\ answer.bytes \in Seq(STRING) /\ mid \in 0..Len(answer.bytes) /\ pos \in 0..mid
      /\ Len(pending) = mid - pos /\ pos \in Nat /\ mid \in Nat /\ Len(answer.bytes) \in Nat
  BY PendingIs, AnswersAreFramed DEF Known, At
<1>2. pending = SubSeq(answer.bytes, pos + 1, mid)
  BY DEF At, Stretch
<1> DEFINE k == IF n < Len(pending) THEN n ELSE Len(pending)
<1>3. k \in 0..mid - pos /\ k \in 0..Len(pending) /\ k <= n /\ (k = n \/ k = Len(pending))
  BY <1>1
<1>4. Some(n) = SubSeq(pending, 1, k)
  BY DEF Some
<1> HIDE DEF k
<1>5. Some(n) = SubSeq(answer.bytes, pos + 1, pos + k)
  BY <1>1, <1>2, <1>3, <1>4, StartOfStretch
<1>6. pos + k \in 0..Len(answer.bytes) /\ pos \in 0..pos + k /\ (pos + k) - pos = k
  BY <1>1, <1>3
<1>7. Len(Some(n)) = k
  BY <1>1, <1>5, <1>6, StretchIsSeq
<1>8. QED
  BY <1>3, <1>5, <1>7

\* A beginning of the body and what comes after it.
LEMMA TakenGrows ==
    ASSUME NEW b \in Seq(STRING), NEW m \in 0..Len(b), NEW q \in m..Len(b)
    PROVE  SubSeq(b, 1, m) \o SubSeq(b, m + 1, q) = SubSeq(b, 1, q)
<1>1. 0 \in 0..m /\ 0 + 1 = 1
  OBVIOUS
<1>2. SubSeq(b, 0 + 1, m) \o SubSeq(b, m + 1, q) = SubSeq(b, 0 + 1, q)
  BY <1>1, JoinedStretches
<1>3. QED
  BY <1>1, <1>2

LEMMA TakenIs ==
    ASSUME NEW b \in Seq(STRING), NEW m \in 0..Len(b)
    PROVE  SubSeq(b, 1, m) \in Seq(STRING) /\ Len(SubSeq(b, 1, m)) = m
OBVIOUS

\* Where a chunk is.
LEMMA ChunksAreThere ==
    ASSUME Known, answer.framing = "chunked", NEW c \in answer.chunks
    PROVE  ChunkAt(answer, c)
BY AnswersAreFramed DEF Known, Framed

\* What it holds of the body.
LEMMA ChunkIs ==
    ASSUME Known, answer.framing = "chunked", NEW c \in answer.chunks
    PROVE  /\ c.at \in Nat /\ c.at + 1 <= Len(answer.bytes) /\ c.before \in Nat /\ c.before <= Len(answer.body)
<1>1. ChunkAt(answer, c)
  BY ChunksAreThere
<1>2. Len(answer.bytes) \in Nat /\ Len(answer.body) \in Nat
  BY AnswersAreFramed DEF Known
<1>3. c.at \in 1..Len(answer.bytes) - 1 /\ c.before \in 0..Len(answer.body)
  BY <1>1 DEF ChunkAt
<1>4. c.at \in Nat /\ c.at + 1 <= Len(answer.bytes) /\ c.before \in Nat /\ c.before <= Len(answer.body)
  BY <1>2, <1>3
<1>5. QED
  BY <1>4

LEMMA ChunkHolds ==
    ASSUME Known, answer.framing = "chunked", NEW c \in answer.chunks,
           NEW n \in Nat \ {0}, n = SizeOf[answer.bytes[c.at]]
    PROVE  /\ c.before + n <= Len(answer.body)
           /\ Alike(answer.bytes, c.at + 1, answer.body, c.before, n)
           /\ [at |-> c.at + n + 3, before |-> c.before + n] \in answer.chunks
<1>1. n > 0
  OBVIOUS
<1>2. QED
  BY <1>1, ChunksAreThere DEF ChunkAt, Alike

\* The step has found a place for the client.
LEMMA Arrives ==
    ASSUME Known', NEW pos, NEW mid, NEW last, last \in 0..Len(answer.bytes), mid \in 0..last, pos \in 0..mid,
           UNCHANGED answer, Stretch(pos, mid, last)', Placed(pos)'
    PROVE  IInv'
<1>1. pos \in (0..mid)' /\ mid \in (0..last)' /\ last \in (0..Len(answer.bytes))'
  OBVIOUS
<1>2. QED
  BY <1>1 DEF IInv, Known

\* The request is over, or has an exception.
LEMMA EndsKeep ==
    ASSUME Known, NEW pos, NEW mid, NEW last, At(pos, mid, last),
           at' \in {"returned", "thrown"}, AllTaken', \E n \in 0..Len(answer.body) : HasTaken(n)',
           UNCHANGED <<answer, wire, cut, pending>>
    PROVE  IInv'
<1>1. Known'
  BY DEF Known, Chunked
<1>2. Placed(pos)' /\ Stretch(pos, mid, last)'
  BY DEF Placed, BeforeTheBody, AtItsSize, InItsData, BehindItsData, InALength, BeforeTheClose, At, Stretch
<1>3. QED
  BY <1>1, <1>2, Arrives DEF At

LEMMA ConnectKeeps == ASSUME IInv, Connect PROVE IInv'
<1>1. PICK pos, mid, last : Known /\ At(pos, mid, last)
  BY IInvParts
<1>2. Known'
  BY <1>1 DEF Known, Connect, Goes, Chunked, AllTaken, HasTaken
<1>3. Placed(pos)' /\ Stretch(pos, mid, last)'
  BY <1>1 DEF Connect, Goes, Placed, BeforeTheBody, AtItsSize, InItsData, BehindItsData, InALength,
              BeforeTheClose, At, Stretch, HasTaken
<1>4. QED
  BY <1>1, <1>2, <1>3, Arrives DEF At, Connect

\* What no reader sees.
LEMMA StaysKeep ==
    ASSUME IInv, UNCHANGED <<answer, wire, cut, at, pending, left, chunk, taken>>
    PROVE  IInv'
<1>1. PICK pos, mid, last : Known /\ At(pos, mid, last)
  BY IInvParts
<1>2. Known'
  BY <1>1 DEF Known, Chunked, AllTaken, HasTaken
<1>3. Placed(pos)' /\ Stretch(pos, mid, last)'
  BY <1>1 DEF Placed, BeforeTheBody, AtItsSize, InItsData, BehindItsData, InALength, BeforeTheClose, At,
              Stretch, HasTaken
<1>4. QED
  BY <1>1, <1>2, <1>3, Arrives DEF At

\* An exception that leaves what was taken.
LEMMA ThrowsKeep ==
    ASSUME IInv, at' = "thrown", UNCHANGED <<answer, wire, cut, pending, taken>>
    PROVE  IInv'
<1>1. PICK pos, mid, last : Known /\ At(pos, mid, last)
  BY IInvParts
<1>2. \E n \in 0..Len(answer.body) : HasTaken(n)'
  BY <1>1 DEF Known, HasTaken
<1>3. AllTaken'
  BY DEF AllTaken
<1>4. QED
  BY <1>1, <1>2, <1>3, EndsKeep

LEMMA ReadsTheEndKeeps == ASSUME IInv, ReadsTheEnd PROVE IInv'
<1>1. PICK pos, mid, last : Known /\ At(pos, mid, last)
  BY IInvParts
<1>2. UNCHANGED <<answer, wire, cut, pending, taken>> /\ wire = <<>>
  BY DEF ReadsTheEnd
<1>3. CASE at \notin {"length", "close"}
  BY <1>2, <1>3, ThrowsKeep DEF ReadsTheEnd
<1>4. CASE at = "length"
  <2>1. answer.framing = "length" /\ at' = "returned"
    BY <1>1, <1>4 DEF ReadsTheEnd, At, Placed, InALength
  <2>2. AllTaken' /\ \E n \in 0..Len(answer.body) : HasTaken(n)'
    BY <1>1, <1>2, <2>1 DEF AllTaken, Known, HasTaken
  <2>3. QED
    BY <1>1, <1>2, <2>1, <2>2, EndsKeep
<1>5. CASE at = "close"
  <2>1. at' = "returned" /\ pending = <<>> /\ answer.framing = "close"
    BY <1>1, <1>5 DEF ReadsTheEnd, Waits, At, Placed, BeforeTheClose
  <2>2. PICK i \in 0..pos : i \in DOMAIN answer.bytes /\ FirstBlank(answer.bytes, i) /\ HasTaken(pos - i)
    BY <1>1, <1>5 DEF At, Placed, BeforeTheClose
  <2>3. answer.bytes \in Seq(STRING) /\ Len(answer.bytes) \in Nat /\ Framed(answer)
    BY <1>1, AnswersAreFramed DEF Known
  <2>4. answer.body = SubSeq(answer.bytes, i + 1, Len(answer.bytes))
    BY <2>1, <2>2, <2>3, OneFirstBlank DEF Framed
  <2>5. ASSUME ~cut PROVE taken = answer.body
    <3>1. pos = Len(answer.bytes)
      <4>1. Len(pending) = 0 /\ Len(wire) = 0
        BY <1>2, <2>1
      <4>2. Len(pending) = mid - pos /\ Len(wire) = last - mid /\ pos \in Nat /\ mid \in Nat /\ last \in Nat
        BY <1>1, PendingIs
      <4>3. last = Len(answer.bytes)
        BY <1>1, <2>5 DEF At, Stretch
      <4>4. QED
        BY <4>1, <4>2, <4>3
    <3>2. i \in 0..Len(answer.bytes) /\ Len(answer.bytes) \in 0..Len(answer.bytes)
      BY <2>2, <2>3, <3>1
    <3>3. Len(answer.body) = pos - i
      BY <2>3, <2>4, <3>1, <3>2, StretchIsSeq
    <3>4. answer.body \in Seq(STRING)
      BY <1>1, AnswersAreFramed DEF Known
    <3>5. SubSeq(answer.body, 1, Len(answer.body)) = answer.body
      BY <3>4
    <3>6. QED
      BY <2>2, <3>3, <3>5 DEF HasTaken
  <2>6. AllTaken' /\ \E n \in 0..Len(answer.body) : HasTaken(n)'
    BY <1>1, <1>2, <2>1, <2>5 DEF AllTaken, Known, HasTaken
  <2>7. QED
    BY <1>1, <1>2, <2>1, <2>6, EndsKeep
<1>6. QED
  BY <1>3, <1>4, <1>5

LEMMA ReadSomeKeeps == ASSUME IInv, ReadSome PROVE IInv'
<1>1. PICK pos, mid, last : Known /\ At(pos, mid, last)
  BY IInvParts
<1>2. UNCHANGED <<answer, cut, at, left, chunk, taken>>
  BY DEF ReadSome
<1>3. PICK n \in 1..Len(wire) : /\ pending' = pending \o SubSeq(wire, 1, n)
                                /\ wire' = SubSeq(wire, n + 1, Len(wire))
  BY DEF ReadSome
<1>4. /\ answer.bytes \in Seq(STRING) /\ Len(answer.bytes) \in Nat /\ last \in 0..Len(answer.bytes)
      /\ mid \in 0..last /\ mid \in 0..Len(answer.bytes) /\ pos \in 0..mid /\ Len(wire) = last - mid
      /\ pending = SubSeq(answer.bytes, pos + 1, mid) /\ wire = SubSeq(answer.bytes, mid + 1, last)
      /\ mid \in Nat /\ last \in Nat /\ pos \in Nat
  BY <1>1, PendingIs, AnswersAreFramed DEF Known, At, Stretch
<1>5. n \in 0..last - mid /\ mid + n \in 0..last /\ pos \in 0..mid + n /\ mid + n \in mid..Len(answer.bytes)
  BY <1>4
<1>6. SubSeq(wire, 1, n) = SubSeq(answer.bytes, mid + 1, mid + n)
  BY <1>4, <1>5, StartOfStretch
<1>7. wire' = SubSeq(answer.bytes, mid + n + 1, last)
  BY <1>3, <1>4, <1>5, RestOfStretch
<1>8. pending' = SubSeq(answer.bytes, pos + 1, mid + n)
  BY <1>3, <1>4, <1>5, <1>6, JoinedStretches
<1>9. Stretch(pos, mid + n, last)'
  BY <1>1, <1>2, <1>4, <1>5, <1>7, <1>8 DEF At, Stretch
<1>10. Known'
  BY <1>1, <1>2 DEF Known, Chunked, AllTaken, HasTaken
<1>11. Placed(pos)'
  BY <1>1, <1>2 DEF At, Placed, BeforeTheBody, AtItsSize, InItsData, BehindItsData, InALength, BeforeTheClose,
                    HasTaken
<1>12. QED
  BY <1>2, <1>4, <1>5, <1>9, <1>10, <1>11, Arrives

LEMMA ReadResponseHeadKeeps == ASSUME IInv, ReadResponseHead PROVE IInv'
<1>1. PICK pos, mid, last : Known /\ At(pos, mid, last)
  BY IInvParts
<1>2. PICK i \in DOMAIN pending : FirstBlank(pending, i) /\ Drop(i)
  BY DEF ReadResponseHead
<1>3. /\ at = "head" /\ left' = answer.length /\ UNCHANGED <<answer, wire, open, cut, chunk, taken>>
      /\ answer.framing = "chunked" => at' = "size"
      /\ answer.framing = "length" => at' = "length"
      /\ answer.framing = "close" => at' = "close"
  BY DEF ReadResponseHead
<1>4. pos = 0 /\ HasTaken(0) /\ chunk = <<>>
  BY <1>1, <1>3 DEF At, Placed, BeforeTheBody
<1>5. /\ answer.bytes \in Seq(STRING) /\ answer.body \in Seq(STRING) /\ answer.length \in Nat /\ Framed(answer)
      /\ answer.framing \in {"chunked", "length", "close"}
  BY <1>1, AnswersAreFramed DEF Known
<1>6. /\ pending \in Seq(STRING) /\ Len(pending) = mid /\ mid <= Len(answer.bytes)
      /\ \A h \in 1..mid : pending[h] = answer.bytes[h]
  <2>1. /\ pending \in Seq(STRING) /\ Len(pending) = mid - pos /\ mid <= Len(answer.bytes) /\ mid \in Nat
        /\ \A h \in 1..mid - pos : pending[h] = answer.bytes[pos + h]
    BY <1>1, PendingIs, SMTT(40)
  <2>2. answer.bytes \in Seq(STRING) /\ mid - pos = mid /\ \A h \in 1..mid : pos + h = h
    BY <1>4, <1>5, <2>1
  <2>3. QED
    BY <2>1, <2>2
<1>7. i \in 1..mid /\ i \in DOMAIN answer.bytes /\ FirstBlank(answer.bytes, i) /\ i \in 0..Len(pending)
  BY <1>2, <1>5, <1>6 DEF FirstBlank
<1>8. i \in 0..mid /\ Stretch(i, mid, last)'
  <2>1. pos + i \in 0..mid /\ Stretch(pos + i, mid, last)'
    BY <1>1, <1>2, <1>3, <1>7, Dropped
  <2>2. pos + i = i
    BY <1>4, <1>7
  <2>3. QED
    BY <2>1, <2>2
<1>9. Known'
  BY <1>1, <1>3, <1>5 DEF Known, Chunked, AllTaken, HasTaken
<1>10. CASE answer.framing = "chunked"
  <2>1. [at |-> i + 1, before |-> 0] \in answer.chunks
    BY <1>5, <1>7, <1>10, OneFirstBlank DEF Framed
  <2>2. i = (i + 1) - 1
    BY <1>7
  <2>3. AtItsSize(i)'
    <3> DEFINE c == [at |-> i + 1, before |-> 0]
    <3>1. c \in answer.chunks /\ i = c.at - 1 /\ HasTaken(c.before)'
      BY <1>3, <1>4, <2>1, <2>2 DEF HasTaken
    <3> HIDE DEF c
    <3>2. QED
      BY <1>3, <1>4, <3>1 DEF AtItsSize
  <2>4. Placed(i)'
    BY <1>3, <1>10, <2>3 DEF Placed, BeforeTheBody, InItsData, BehindItsData, InALength, BeforeTheClose
  <2>5. QED
    BY <1>1, <1>3, <1>8, <1>9, <2>4, Arrives DEF At
<1>11. CASE answer.framing = "length"
  <2>1. left' \in 0..answer.length /\ answer.length - left' = 0 /\ i = i + answer.length - left'
    BY <1>3, <1>5, <1>7
  <2>2. HasTaken(0)'
    BY <1>3, <1>4 DEF HasTaken
  <2>3. InALength(i)'
    BY <1>3, <1>7, <1>11, <2>1, <2>2 DEF InALength
  <2>4. Placed(i)'
    BY <1>3, <1>11, <2>3 DEF Placed, BeforeTheBody, AtItsSize, InItsData, BehindItsData, BeforeTheClose
  <2>5. QED
    BY <1>1, <1>3, <1>8, <1>9, <2>4, Arrives DEF At
<1>12. CASE answer.framing = "close"
  <2>1. i \in 0..i /\ i - i = 0
    BY <1>7
  <2>2. HasTaken(0)'
    BY <1>3, <1>4 DEF HasTaken
  <2>3. BeforeTheClose(i)'
    BY <1>3, <1>7, <1>12, <2>1, <2>2 DEF BeforeTheClose
  <2>4. Placed(i)'
    BY <1>3, <1>12, <2>3 DEF Placed, BeforeTheBody, AtItsSize, InItsData, BehindItsData, InALength
  <2>5. QED
    BY <1>1, <1>3, <1>8, <1>9, <2>4, Arrives DEF At
<1>13. QED
  BY <1>5, <1>10, <1>11, <1>12

\* A line of a chunk is its size alone.
LEMMA ReadSizeKeeps == ASSUME IInv, ReadSize PROVE IInv'
<1>1. PICK pos, mid, last : Known /\ At(pos, mid, last)
  BY IInvParts
<1>2. PICK i \in DOMAIN pending : LineOf(i) /\ Drop(i)
  BY DEF ReadSize
<1>3. at = "size" /\ UNCHANGED <<answer, wire, open, cut, chunk, taken>>
  BY DEF ReadSize
<1>4. answer.framing = "chunked" /\ chunk = <<>>
  BY <1>1, <1>3 DEF Known, Chunked, At, Placed, AtItsSize
<1>5. PICK c \in answer.chunks : pos = c.at - 1 /\ HasTaken(c.before)
  BY <1>1, <1>3 DEF At, Placed, AtItsSize
<1>6. /\ answer.bytes \in Seq(STRING) /\ answer.body \in Seq(STRING) /\ SizeOf \in [DOMAIN SizeOf -> Nat]
      /\ "crlf" \notin DOMAIN SizeOf
  BY <1>1, AnswersAreFramed DEF Known
<1>7. /\ c.at \in 1..Len(answer.bytes) - 1 /\ answer.bytes[c.at] \in DOMAIN SizeOf
      /\ answer.bytes[c.at + 1] = "crlf" /\ c.before \in 0..Len(answer.body)
      /\ SizeOf[answer.bytes[c.at]] = 0 => c.before = Len(answer.body)
  BY <1>1, <1>4, ChunksAreThere DEF ChunkAt
<1> DEFINE n == SizeOf[answer.bytes[c.at]]
<1>8. n \in Nat
  BY <1>6, <1>7
<1>9. /\ pending \in Seq(STRING) /\ Len(pending) = mid - pos /\ mid \in Nat /\ pos \in Nat
      /\ \A h \in 1..mid - pos : pending[h] = answer.bytes[pos + h]
  BY <1>1, PendingIs
<1>10. i \in 1..mid - pos /\ 1 \in 1..mid - pos /\ pos + 1 = c.at
  <2>1. c.at \in Nat /\ pos = c.at - 1
    BY <1>5, <1>6, <1>7
  <2>2. i \in 1..mid - pos
    BY <1>2, <1>9
  <2>3. QED
    BY <1>9, <2>1, <2>2
<1>11. pending[1] = answer.bytes[c.at]
  BY <1>9, <1>10
<1>12. i = 2
  <2>1. i # 1
    BY <1>2, <1>6, <1>7, <1>11 DEF LineOf
  <2>2. 2 \in 1..mid - pos /\ pos + 2 = c.at + 1
    <3>1. mid - pos \in Nat /\ i \in Nat /\ i >= 1 /\ i <= mid - pos
      BY <1>9, <1>10
    <3>2. i >= 2
      BY <2>1, <3>1
    <3>3. QED
      BY <1>9, <1>10, <3>1, <3>2
  <2>3. pending[2] = "crlf"
    BY <1>7, <1>9, <2>2
  <2>4. ~(2 \in 1..i - 1)
    BY <1>2, <2>3 DEF LineOf
  <2>5. QED
    BY <1>9, <1>10, <2>1, <2>4
<1>13. c.at + 1 \in 0..mid /\ Stretch(c.at + 1, mid, last)'
  <2>1. i \in 0..Len(pending)
    BY <1>9, <1>10
  <2>2. pos + i \in 0..mid /\ Stretch(pos + i, mid, last)'
    BY <1>1, <1>2, <1>3, <2>1, Dropped
  <2>3. pos + i = c.at + 1
    BY <1>5, <1>7, <1>12
  <2>4. QED
    BY <2>2, <2>3
<1>14. left' = n /\ at' = IF n = 0 THEN "trailer" ELSE "data"
  BY <1>7, <1>11 DEF ReadSize
<1> HIDE DEF n
<1>15. HasTaken(c.before)' /\ \E m \in 0..Len(answer.body) : HasTaken(m)'
  BY <1>1, <1>3, <1>5 DEF HasTaken, Known
<1>16. CASE n = 0
  <2>1. taken = answer.body
    BY <1>5, <1>6, <1>7, <1>16 DEF HasTaken, n
  <2>2. Known'
    BY <1>1, <1>3, <1>4, <1>14, <1>15, <1>16, <2>1 DEF Known, Chunked, AllTaken
  <2>3. Placed(c.at + 1)'
    BY <1>14, <1>16 DEF Placed, BeforeTheBody, AtItsSize, InItsData, BehindItsData, InALength, BeforeTheClose
  <2>4. QED
    BY <1>1, <1>3, <1>13, <2>2, <2>3, Arrives DEF At
<1>17. CASE n # 0
  <2>1. Known'
    BY <1>1, <1>3, <1>4, <1>14, <1>15, <1>17 DEF Known, Chunked, AllTaken
  <2>2. n \in Nat \ {0} /\ left' \in 0..n /\ c.at + 1 = c.at + 1 + n - left' /\ c.before + n - left' = c.before
    BY <1>7, <1>8, <1>14, <1>17
  <2>3. chunk' = SubSeq(answer.body, c.before + 1, c.before)
    <3>1. SubSeq(answer.body, c.before + 1, c.before) = <<>>
      BY <1>6, <1>7
    <3>2. QED
      BY <1>3, <1>4, <3>1
  <2>4. InItsData(c.at + 1)'
    <3>1. n = SizeOf[answer.bytes[c.at]] /\ c \in answer.chunks /\ answer' = answer
      BY <1>3 DEF n
    <3>2. QED
      BY <1>15, <2>2, <2>3, <3>1 DEF InItsData
  <2>5. Placed(c.at + 1)'
    BY <1>14, <1>17, <2>4 DEF Placed, BeforeTheBody, AtItsSize, BehindItsData, InALength, BeforeTheClose
  <2>6. QED
    BY <1>1, <1>3, <1>13, <2>1, <2>5, Arrives DEF At
<1>18. QED
  BY <1>16, <1>17

LEMMA ReadTrailerKeeps == ASSUME IInv, ReadTrailer PROVE IInv'
<1>1. PICK pos, mid, last : Known /\ At(pos, mid, last)
  BY IInvParts
<1>2. PICK i \in DOMAIN pending : Drop(i) /\ at' = IF i = 1 THEN "returned" ELSE "trailer"
  BY DEF ReadTrailer
<1>3. at = "trailer" /\ UNCHANGED <<answer, wire, open, cut, left, chunk, taken>>
  BY DEF ReadTrailer
<1>4. answer.framing = "chunked" /\ taken = answer.body
  BY <1>1, <1>3 DEF Known, Chunked, AllTaken
<1>5. pending \in Seq(STRING) /\ i \in 0..Len(pending)
  BY <1>1, <1>2, PendingIs
<1>6. pos + i \in 0..mid /\ Stretch(pos + i, mid, last)'
  BY <1>1, <1>2, <1>3, <1>5, Dropped
<1>7. Known'
  BY <1>1, <1>2, <1>3, <1>4 DEF Known, Chunked, AllTaken, HasTaken
<1>8. Placed(pos + i)'
  BY <1>2 DEF Placed, BeforeTheBody, AtItsSize, InItsData, BehindItsData, InALength, BeforeTheClose
<1>9. QED
  BY <1>1, <1>3, <1>6, <1>7, <1>8, Arrives DEF At

LEMMA TakeBytesKeeps == ASSUME IInv, TakeBytes PROVE IInv'
<1>1. PICK pos, mid, last : Known /\ At(pos, mid, last)
  BY IInvParts
<1>2. /\ at \in {"data", "crlf"} /\ left > 0 /\ UNCHANGED <<answer, wire, open, cut, at, taken>>
      /\ chunk' = chunk \o Some(left) /\ left' = left - Len(Some(left)) /\ Drop(Len(Some(left)))
  BY DEF TakeBytes
<1>3. answer.framing = "chunked"
  BY <1>1, <1>2 DEF Known, Chunked
<1>4. Known'
  BY <1>1, <1>2 DEF Known, Chunked, AllTaken, HasTaken
<1>5. /\ answer.bytes \in Seq(STRING) /\ answer.body \in Seq(STRING) /\ SizeOf \in [DOMAIN SizeOf -> Nat]
      /\ Len(answer.bytes) \in Nat /\ Len(answer.body) \in Nat
  BY <1>1, AnswersAreFramed DEF Known
<1>6. left \in Nat
  <2>1. CASE at = "data"
    <3>1. PICK n \in Nat : left \in 0..n
      BY <1>1, <2>1 DEF At, Placed, InItsData
    <3>2. QED
      BY <3>1
  <2>2. CASE at = "crlf"
    BY <1>1, <2>2 DEF At, Placed, BehindItsData
  <2>3. QED
    BY <1>2, <2>1, <2>2
<1>7. PICK k \in 0..Len(pending) : /\ k <= left /\ Len(Some(left)) = k
                                   /\ Some(left) = SubSeq(answer.bytes, pos + 1, pos + k)
  BY <1>1, <1>6, SomeIs
<1>8. /\ pos \in Nat /\ mid \in Nat /\ Len(pending) = mid - pos /\ mid <= Len(answer.bytes) /\ k \in Nat
      /\ pos + k <= Len(answer.bytes) /\ k <= left
  <2>1. /\ pos \in Nat /\ mid \in Nat /\ Len(pending) = mid - pos /\ mid <= Len(answer.bytes)
    BY <1>1, PendingIs
  <2>2. QED
    BY <1>5, <1>7, <2>1
<1>9. pos + k \in 0..mid /\ Stretch(pos + k, mid, last)'
  BY <1>1, <1>2, <1>7, Dropped
<1>10. left' = left - k
  BY <1>2, <1>7
<1>11. CASE at = "crlf"
  <2>1. PICK c \in answer.chunks : left \in 0..1 /\ pos = c.at - 1 - left /\ HasTaken(c.before)
    BY <1>1, <1>11 DEF At, Placed, BehindItsData
  <2>2. c.at \in Nat /\ pos = c.at - 1 - left /\ left \in 0..1
    BY <1>1, <1>3, <2>1, ChunkIs
  <2>3. left' \in 0..1 /\ pos + k = c.at - 1 - left'
    <3>1. left \in Nat /\ k \in Nat /\ k <= left /\ left <= 1 /\ c.at \in Nat
      BY <1>6, <1>8, <2>2
    <3>2. left - k \in 0..1
      BY <3>1
    <3>3. (c.at - 1 - left) + k = c.at - 1 - (left - k)
      BY <3>1
    <3>4. QED
      BY <1>10, <2>2, <3>2, <3>3
  <2>4. HasTaken(c.before)' /\ c \in answer'.chunks
    BY <1>2, <2>1 DEF HasTaken
  <2>5. BehindItsData(pos + k)'
    BY <2>3, <2>4 DEF BehindItsData
  <2>6. Placed(pos + k)'
    BY <1>2, <1>11, <2>5 DEF Placed, BeforeTheBody, AtItsSize, InItsData, InALength, BeforeTheClose
  <2>7. QED
    BY <1>1, <1>2, <1>4, <1>9, <2>6, Arrives DEF At
<1>12. CASE at = "data"
  <2>1. PICK c \in answer.chunks : \E n \in Nat \ {0} :
            /\ n = SizeOf[answer.bytes[c.at]] /\ left \in 0..n
            /\ pos = c.at + 1 + n - left
            /\ chunk = SubSeq(answer.body, c.before + 1, c.before + n - left)
            /\ HasTaken(c.before)
    BY <1>1, <1>12 DEF At, Placed, InItsData
  <2>2. PICK n \in Nat \ {0} :
            /\ n = SizeOf[answer.bytes[c.at]] /\ left \in 0..n
            /\ pos = c.at + 1 + n - left
            /\ chunk = SubSeq(answer.body, c.before + 1, c.before + n - left)
            /\ HasTaken(c.before)
    BY <2>1
  <2>3. /\ c.at \in Nat /\ c.before \in Nat /\ c.before + n <= Len(answer.body)
        /\ n \in Nat /\ left \in 0..n /\ pos = c.at + 1 + n - left
    <3>1. n = SizeOf[answer.bytes[c.at]]
      BY <2>2
    <3>2. c.before + n <= Len(answer.body)
      BY <1>1, <1>3, <3>1, ChunkHolds
    <3>3. c.at \in Nat /\ c.before \in Nat
      BY <1>1, <1>3, ChunkIs
    <3>4. QED
      BY <2>2, <3>2, <3>3
  <2> DEFINE q == c.before + n - left
  <2>4. q \in Nat /\ q + k <= Len(answer.body) /\ c.before \in 0..q /\ q \in 0..Len(answer.body)
        /\ q + k \in q..Len(answer.body)
    <3>1. Len(answer.body) \in Nat
      BY <1>5
    <3>2. left \in Nat /\ k \in Nat /\ k <= left /\ left <= n /\ n \in Nat
      BY <1>6, <1>8, <2>3
    <3>3. c.before \in Nat /\ c.before + n <= Len(answer.body)
      BY <2>3
    <3>4. q \in Nat /\ q + k <= c.before + n /\ c.before <= q
      BY <3>2, <3>3
    <3> HIDE DEF q
    <3>5. QED
      BY <3>1, <3>2, <3>3, <3>4
  <2>5. ASSUME NEW i \in 1..k PROVE answer.bytes[pos + i] = answer.body[q + i]
    <3>1. n - left + i \in 1..n /\ c.at + 1 + (n - left + i) = pos + i /\ c.before + (n - left + i) = q + i
      <4>1. left \in Nat /\ k \in Nat /\ k <= left /\ left <= n /\ n \in Nat /\ i \in Nat /\ i >= 1 /\ i <= k
        BY <1>6, <1>8, <2>3
      <4>2. n - left + i \in 1..n
        BY <4>1
      <4>3. c.at \in Nat /\ c.before \in Nat /\ pos = c.at + 1 + n - left
        BY <2>3
      <4>4. c.at + 1 + (n - left + i) = pos + i
        BY <4>1, <4>3
      <4>5. c.before + (n - left + i) = q + i
        BY <4>1, <4>3
      <4>6. QED
        BY <4>2, <4>4, <4>5
    <3>2. n = SizeOf[answer.bytes[c.at]]
      BY <2>2
    <3>3. Alike(answer.bytes, c.at + 1, answer.body, c.before, n)
      BY <1>1, <1>3, <3>2, ChunkHolds
    <3> HIDE DEF q
    <3>4. QED
      BY <3>1, <3>3 DEF Alike
  <2>6. Some(left) = SubSeq(answer.body, q + 1, q + k)
    <3>1. answer.bytes \in Seq(STRING) /\ answer.body \in Seq(STRING) /\ pos \in Nat /\ q \in Nat /\ k \in Nat
          /\ pos + k <= Len(answer.bytes) /\ q + k <= Len(answer.body)
      BY <1>5, <1>8, <2>4
    <3> HIDE DEF q
    <3>2. Alike(answer.bytes, pos, answer.body, q, k)
      BY <2>5 DEF Alike
    <3>3. SubSeq(answer.bytes, pos + 1, pos + k) = SubSeq(answer.body, q + 1, q + k)
      BY <3>1, <3>2, EqualStretches, SMTT(40)
    <3>4. QED
      BY <1>7, <3>3
  <2>7. chunk' = SubSeq(answer.body, c.before + 1, q + k)
    <3>1. chunk' = SubSeq(answer.body, c.before + 1, q) \o SubSeq(answer.body, q + 1, q + k)
      BY <1>2, <2>2, <2>6
    <3> HIDE DEF q
    <3>2. QED
      BY <1>5, <2>4, <3>1, JoinedStretches
  <2>8. left' \in 0..n /\ pos + k = c.at + 1 + n - left' /\ q + k = c.before + n - left'
    <3>1. left \in Nat /\ k \in Nat /\ k <= left /\ left <= n /\ n \in Nat /\ left' = left - k
      BY <1>6, <1>8, <1>10, <2>3
    <3>2. left' \in 0..n
      BY <3>1
    <3>3. c.at \in Nat /\ c.before \in Nat /\ pos = c.at + 1 + n - left
      BY <2>3
    <3>4. pos + k = c.at + 1 + n - left'
      BY <3>1, <3>3
    <3>5. q + k = c.before + n - left'
      BY <3>1, <3>3
    <3>6. QED
      BY <3>2, <3>4, <3>5
  <2>9. HasTaken(c.before)' /\ c \in answer'.chunks /\ n = SizeOf[answer'.bytes[c.at]]
    BY <1>2, <2>2 DEF HasTaken
  <2>10. chunk' = SubSeq(answer'.body, c.before + 1, c.before + n - left')
    BY <1>2, <2>7, <2>8
  <2> HIDE DEF q
  <2>11. InItsData(pos + k)'
    BY <2>8, <2>9, <2>10 DEF InItsData
  <2>12. Placed(pos + k)'
    BY <1>2, <1>12, <2>11 DEF Placed, BeforeTheBody, AtItsSize, BehindItsData, InALength, BeforeTheClose
  <2>13. QED
    BY <1>1, <1>2, <1>4, <1>9, <2>12, Arrives DEF At
<1>13. QED
  BY <1>2, <1>11, <1>12

\* The chunk is given to onChunk whole, and two more bytes are to be read.
LEMMA EndOfChunkKeeps == ASSUME IInv, EndOfChunk PROVE IInv'
<1>1. PICK pos, mid, last : Known /\ At(pos, mid, last)
  BY IInvParts
<1>2. /\ at = "data" /\ left = 0 /\ left' = 1 /\ taken' = taken \o chunk /\ at' \in {"thrown", "crlf"}
      /\ UNCHANGED <<answer, wire, open, cut, pending>>
  BY DEF EndOfChunk, Deliver
<1>3. answer.framing = "chunked"
  BY <1>1, <1>2 DEF Known, Chunked
<1>4. answer.bytes \in Seq(STRING) /\ answer.body \in Seq(STRING)
  BY <1>1, AnswersAreFramed DEF Known
<1>5. PICK c \in answer.chunks : \E n \in Nat \ {0} :
          /\ n = SizeOf[answer.bytes[c.at]] /\ left \in 0..n
          /\ pos = c.at + 1 + n - left
          /\ chunk = SubSeq(answer.body, c.before + 1, c.before + n - left)
          /\ HasTaken(c.before)
  BY <1>1, <1>2 DEF At, Placed, InItsData
<1>6. PICK n \in Nat \ {0} :
          /\ n = SizeOf[answer.bytes[c.at]] /\ left \in 0..n
          /\ pos = c.at + 1 + n - left
          /\ chunk = SubSeq(answer.body, c.before + 1, c.before + n - left)
          /\ HasTaken(c.before)
  BY <1>5
<1>7. /\ c.at \in Nat /\ c.before \in Nat /\ c.before + n <= Len(answer.body)
      /\ [at |-> c.at + n + 3, before |-> c.before + n] \in answer.chunks
  <2>1. n = SizeOf[answer.bytes[c.at]]
    BY <1>6
  <2>2. /\ c.before + n <= Len(answer.body)
        /\ [at |-> c.at + n + 3, before |-> c.before + n] \in answer.chunks
    BY <1>1, <1>3, <2>1, ChunkHolds
  <2>3. c.at \in Nat /\ c.before \in Nat
    BY <1>1, <1>3, ChunkIs
  <2>4. QED
    BY <2>2, <2>3
<1>8. /\ c.before + n \in c.before..Len(answer.body) /\ c.before + n \in 0..Len(answer.body)
      /\ c.before \in 0..Len(answer.body)
      /\ c.before + n - left = c.before + n /\ pos = c.at + n + 3 - 1 - 1
  <2>1. Len(answer.body) \in Nat /\ n \in Nat
    BY <1>4
  <2>2. left = 0 /\ pos = c.at + 1 + n - left
    BY <1>2, <1>6
  <2>3. c.at \in Nat /\ c.before \in Nat /\ c.before + n <= Len(answer.body)
    BY <1>7
  <2>4. /\ c.before + n \in c.before..Len(answer.body) /\ c.before + n \in 0..Len(answer.body)
        /\ c.before \in 0..Len(answer.body)
    BY <2>1, <2>3
  <2>5. c.before + n - left = c.before + n /\ pos = c.at + n + 3 - 1 - 1
    BY <2>1, <2>2, <2>3
  <2>6. QED
    BY <2>4, <2>5
<1>9. HasTaken(c.before + n)'
  <2>1. taken' = SubSeq(answer.body, 1, c.before) \o SubSeq(answer.body, c.before + 1, c.before + n)
    BY <1>2, <1>6, <1>8 DEF HasTaken
  <2>2. taken' = SubSeq(answer.body, 1, c.before + n)
    BY <1>4, <1>7, <1>8, <2>1, TakenGrows
  <2>3. QED
    BY <1>2, <1>8, <2>2 DEF HasTaken
<1>10. \E m \in 0..Len(answer.body) : HasTaken(m)'
  BY <1>8, <1>9
<1>11. AllTaken'
  BY <1>2 DEF AllTaken
<1>12. CASE at' = "thrown"
  BY <1>1, <1>2, <1>10, <1>11, <1>12, EndsKeep
<1>13. CASE at' = "crlf"
  <2>1. Known'
    BY <1>1, <1>2, <1>3, <1>10, <1>11 DEF Known, Chunked
  <2>2. BehindItsData(pos)'
    <3> DEFINE d == [at |-> c.at + n + 3, before |-> c.before + n]
    <3>1. d \in answer'.chunks /\ left' \in 0..1 /\ pos = d.at - 1 - left' /\ HasTaken(d.before)'
      BY <1>2, <1>7, <1>8, <1>9
    <3> HIDE DEF d
    <3>2. QED
      BY <3>1 DEF BehindItsData
  <2>3. Placed(pos)' /\ Stretch(pos, mid, last)'
    BY <1>1, <1>2, <1>13, <2>2 DEF Placed, BeforeTheBody, AtItsSize, InItsData, InALength, BeforeTheClose,
                                  At, Stretch
  <2>4. QED
    BY <1>1, <1>2, <2>1, <2>3, Arrives DEF At
<1>14. QED
  BY <1>2, <1>12, <1>13

LEMMA NextChunkKeeps == ASSUME IInv, NextChunk PROVE IInv'
<1>1. PICK pos, mid, last : Known /\ At(pos, mid, last)
  BY IInvParts
<1>2. /\ at = "crlf" /\ at' = "size" /\ left = 0 /\ chunk' = <<>>
      /\ UNCHANGED <<answer, wire, open, cut, pending, left, taken>>
  BY DEF NextChunk, Goes
<1>3. Known'
  BY <1>1, <1>2 DEF Known, Chunked, AllTaken, HasTaken
<1>4. PICK c \in answer.chunks : left \in 0..1 /\ pos = c.at - 1 - left /\ HasTaken(c.before)
  BY <1>1, <1>2 DEF At, Placed, BehindItsData
<1>5. pos = c.at - 1
  <2>1. answer.framing = "chunked" /\ answer.bytes \in Seq(STRING)
    BY <1>1, <1>2, AnswersAreFramed DEF Known, Chunked
  <2>2. c.at \in Nat
    BY <1>1, <2>1, ChunkIs
  <2>3. QED
    BY <1>2, <1>4, <2>2
<1>6. HasTaken(c.before)' /\ c \in answer'.chunks
  BY <1>2, <1>4 DEF HasTaken
<1>7. AtItsSize(pos)'
  BY <1>2, <1>5, <1>6 DEF AtItsSize
<1>8. Placed(pos)' /\ Stretch(pos, mid, last)'
  BY <1>1, <1>2, <1>7 DEF Placed, BeforeTheBody, InItsData, BehindItsData, InALength, BeforeTheClose, At, Stretch
<1>9. QED
  BY <1>1, <1>2, <1>3, <1>8, Arrives DEF At

LEMMA ByLengthKeeps == ASSUME IInv, ByLength PROVE IInv'
<1>1. PICK pos, mid, last : Known /\ At(pos, mid, last)
  BY IInvParts
<1>2. /\ at = "length" /\ pending' = <<>> /\ taken' = taken \o Some(left) /\ left' = left - Len(Some(left))
      /\ at' \in {"thrown", "length"} /\ UNCHANGED <<answer, wire, open, cut, chunk>>
  BY DEF ByLength, Deliver
<1>3. /\ answer.framing = "length" /\ left \in 0..answer.length /\ HasTaken(answer.length - left)
      /\ left > 0 => \E i \in DOMAIN answer.bytes :
                       FirstBlank(answer.bytes, i) /\ pos = i + answer.length - left
  BY <1>1, <1>2 DEF At, Placed, InALength
<1>4. /\ answer.bytes \in Seq(STRING) /\ answer.body \in Seq(STRING) /\ answer.length \in Nat /\ Framed(answer)
      /\ Len(answer.bytes) \in Nat
  BY <1>1, AnswersAreFramed DEF Known
<1>5. left \in Nat
  BY <1>3, <1>4
<1>6. PICK k \in 0..Len(pending) : /\ k <= left /\ (k = left \/ k = Len(pending)) /\ Len(Some(left)) = k
                                   /\ Some(left) = SubSeq(answer.bytes, pos + 1, pos + k)
  BY <1>1, <1>5, SomeIs
<1>7. /\ pos \in Nat /\ mid \in Nat /\ Len(pending) = mid - pos /\ mid <= Len(answer.bytes) /\ k \in Nat
      /\ pos + k <= Len(answer.bytes)
  <2>1. /\ pos \in Nat /\ mid \in Nat /\ Len(pending) = mid - pos /\ mid <= Len(answer.bytes)
    BY <1>1, PendingIs
  <2>2. QED
    BY <1>4, <1>6, <2>1
<1>8. PICK q : q = answer.length - left
  OBVIOUS
<1>9. Len(answer.body) = answer.length
  BY <1>3, <1>4 DEF Framed
<1>10. q \in 0..Len(answer.body) /\ q + k \in q..Len(answer.body) /\ q + k \in 0..Len(answer.body)
      /\ q + k <= Len(answer.body) /\ q \in Nat /\ left' \in 0..answer.length /\ q + k = answer.length - left'
  <2>1. left' = left - k /\ k <= left /\ k \in Nat /\ left \in Nat /\ left <= answer.length /\ answer.length \in Nat
    BY <1>2, <1>3, <1>4, <1>5, <1>6, <1>7
  <2>2. QED
    BY <1>8, <1>9, <2>1
<1>11. Some(left) = SubSeq(answer.body, q + 1, q + k)
  <2>1. CASE left = 0
    <3>1. k = 0
      BY <1>6, <1>7, <2>1
    <3>2. pos + k = pos /\ q + k = q
      BY <1>7, <1>10, <3>1
    <3>3. SubSeq(answer.bytes, pos + 1, pos) = <<>> /\ SubSeq(answer.body, q + 1, q) = <<>>
      BY <1>4, <1>7, <1>10
    <3>4. QED
      BY <1>6, <3>2, <3>3
  <2>2. CASE left > 0
    <3>1. PICK i \in DOMAIN answer.bytes : FirstBlank(answer.bytes, i) /\ pos = i + answer.length - left
      BY <1>3, <2>2
    <3>2. \A h \in 1..answer.length : answer.bytes[i + h] = answer.body[h]
      <4>1. PICK first \in DOMAIN answer.bytes :
               /\ FirstBlank(answer.bytes, first)
               /\ \A h \in 1..answer.length : answer.bytes[first + h] = answer.body[h]
        BY <1>3, <1>4 DEF Framed
      <4>2. first = i
        BY <1>4, <3>1, <4>1, OneFirstBlank
      <4>3. QED
        BY <4>1, <4>2
    <3>3. ASSUME NEW j \in 1..k PROVE answer.bytes[pos + j] = answer.body[q + j]
      <4>1. q + j \in 1..answer.length /\ i + (q + j) = pos + j
        <5>1. k <= left /\ k \in Nat /\ pos \in Nat /\ left <= answer.length
          BY <1>3, <1>4, <1>6, <1>7
        <5>2. i \in Nat
          BY <1>4
        <5>3. QED
          <6>1. j \in Nat /\ j >= 1 /\ j <= k /\ answer.length \in Nat /\ left \in Nat
            BY <1>4, <1>5, <5>1
          <6>2. q + j \in 1..answer.length
            BY <1>8, <5>1, <6>1
          <6>3. pos = i + answer.length - left
            BY <3>1
          <6>4. i + (q + j) = pos + j
            <7>1. q + j = (answer.length - left) + j
              BY <1>8
            <7>2. QED
              BY <5>1, <5>2, <6>1, <6>3, <7>1
          <6>5. QED
            BY <6>2, <6>4
      <4>2. QED
        BY <3>2, <4>1
    <3>4. answer.bytes \in Seq(STRING) /\ answer.body \in Seq(STRING) /\ pos \in Nat /\ q \in Nat /\ k \in Nat
          /\ pos + k <= Len(answer.bytes) /\ q + k <= Len(answer.body)
      BY <1>4, <1>7, <1>10
    <3>5. Alike(answer.bytes, pos, answer.body, q, k)
      BY <3>3 DEF Alike
    <3>6. SubSeq(answer.bytes, pos + 1, pos + k) = SubSeq(answer.body, q + 1, q + k)
      <4> HIDE DEF Alike
      <4>1. QED
        BY <3>4, <3>5, EqualStretches, SMTT(40)
    <3>7. QED
      BY <1>6, <3>6
  <2>3. QED
    BY <1>5, <2>1, <2>2
<1>12. HasTaken(q + k)'
  <2>1. taken' = SubSeq(answer.body, 1, q) \o SubSeq(answer.body, q + 1, q + k)
    BY <1>2, <1>3, <1>8, <1>11 DEF HasTaken
  <2>2. q \in 0..Len(answer.body) /\ q + k \in q..Len(answer.body) /\ q + k \in 0..Len(answer.body)
        /\ answer' = answer
    BY <1>2, <1>10
  <2>3. taken' = SubSeq(answer.body, 1, q + k)
    BY <1>4, <2>1, <2>2, TakenGrows
  <2>4. QED
    BY <2>2, <2>3 DEF HasTaken
<1>13. \E m \in 0..Len(answer.body) : HasTaken(m)'
  BY <1>10, <1>12
<1>14. AllTaken'
  BY <1>2 DEF AllTaken
<1>15. Known'
  BY <1>1, <1>2, <1>13, <1>14 DEF Known, Chunked
<1>16. Stretch(mid, mid, last)' /\ mid \in 0..mid
  BY <1>1, <1>2, AllDropped
<1>17. InALength(mid)'
  <2>1. PICK r : r = answer'.length - left'
    OBVIOUS
  <2>2. r = q + k
    BY <1>2, <1>10, <2>1
  <2>3. HasTaken(r)'
    BY <1>12, <2>2
  <2>4. ASSUME left' > 0
        PROVE  \E i \in DOMAIN answer.bytes : FirstBlank(answer.bytes, i) /\ mid = i + answer.length - left'
    <3>1. left > 0 /\ k = Len(pending)
      BY <1>2, <1>5, <1>6, <1>7, <2>4
    <3>2. PICK i \in DOMAIN answer.bytes : FirstBlank(answer.bytes, i) /\ pos = i + answer.length - left
      BY <1>3, <3>1
    <3>3. i \in Nat
      BY <1>4
    <3>4. left' = left - k /\ k = mid - pos
      BY <1>2, <1>6, <1>7, <3>1
    <3>5. mid = i + answer.length - left'
      <4>1. answer.length \in Nat /\ left \in Nat /\ pos \in Nat /\ mid \in Nat
        BY <1>4, <1>5, <1>7
      <4>2. pos = i + answer.length - left
        BY <3>2
      <4>3. left' = left - (mid - pos)
        BY <3>4
      <4>4. answer.length - left' = answer.length - left + (mid - pos)
        BY <4>1, <4>3
      <4>5. i + answer.length - left' = i + answer.length - left + (mid - pos)
        BY <3>3, <4>1, <4>3
      <4>6. pos + (mid - pos) = mid
        BY <4>1
      <4>7. QED
        BY <4>2, <4>5, <4>6
    <3>6. QED
      BY <3>2, <3>5
  <2>5. answer' = answer /\ answer.framing = "length" /\ left' \in 0..answer.length
    BY <1>2, <1>3, <1>10
  <2>6. QED
    BY <2>1, <2>3, <2>4, <2>5 DEF InALength, HasTaken
<1>18. Placed(mid)'
  BY <1>2, <1>17 DEF Placed, BeforeTheBody, AtItsSize, InItsData, BehindItsData, BeforeTheClose
<1>19. QED
  BY <1>1, <1>2, <1>15, <1>16, <1>18, Arrives DEF At

LEMMA LengthReachedKeeps == ASSUME IInv, LengthReached PROVE IInv'
<1>1. PICK pos, mid, last : Known /\ At(pos, mid, last)
  BY IInvParts
<1>2. at = "length" /\ at' = "returned" /\ UNCHANGED <<answer, wire, open, cut, pending, left, chunk, taken>>
  BY DEF LengthReached, Goes
<1>3. answer.framing = "length"
  BY <1>1, <1>2 DEF At, Placed, InALength
<1>4. AllTaken' /\ \E n \in 0..Len(answer.body) : HasTaken(n)'
  BY <1>1, <1>2, <1>3 DEF AllTaken, Known, HasTaken
<1>5. QED
  BY <1>1, <1>2, <1>4, EndsKeep

LEMMA ToTheCloseKeeps == ASSUME IInv, ToTheClose PROVE IInv'
<1>1. PICK pos, mid, last : Known /\ At(pos, mid, last)
  BY IInvParts
<1>2. /\ at = "close" /\ pending' = <<>> /\ taken' = taken \o pending /\ at' \in {"thrown", "close"}
      /\ UNCHANGED <<answer, wire, open, cut, left, chunk>>
  BY DEF ToTheClose, Deliver
<1>3. answer.framing = "close"
  BY <1>1, <1>2 DEF At, Placed, BeforeTheClose
<1>4. PICK i \in 0..pos : i \in DOMAIN answer.bytes /\ FirstBlank(answer.bytes, i) /\ HasTaken(pos - i)
  BY <1>1, <1>2 DEF At, Placed, BeforeTheClose
<1>5. /\ answer.bytes \in Seq(STRING) /\ answer.body \in Seq(STRING) /\ Len(answer.bytes) \in Nat /\ Framed(answer)
  BY <1>1, AnswersAreFramed DEF Known
<1>6. answer.body = SubSeq(answer.bytes, i + 1, Len(answer.bytes))
  BY <1>3, <1>4, <1>5, OneFirstBlank DEF Framed
<1>7. pos \in Nat /\ mid \in Nat /\ pos <= mid /\ mid <= Len(answer.bytes) /\ mid \in 0..Len(answer.bytes)
  BY <1>1, PendingIs
<1>8. pending = SubSeq(answer.bytes, pos + 1, mid)
  BY <1>1 DEF At, Stretch
<1>9. HasTaken(mid - i)'
  <2>1. i \in 0..Len(answer.bytes) /\ Len(answer.bytes) \in 0..Len(answer.bytes) /\ i \in Nat /\ i <= pos
    BY <1>4, <1>5, <1>7
  <2>2. /\ Len(answer.body) = Len(answer.bytes) - i
        /\ \A h \in 1..Len(answer.bytes) - i : answer.body[h] = answer.bytes[i + h]
    BY <1>5, <1>6, <2>1, StretchIsSeq
  <2> DEFINE q == pos - i
             n == mid - pos
  <2>3. q \in Nat /\ n \in Nat /\ pos + n = mid /\ q + n = mid - i /\ pos + n <= Len(answer.bytes)
        /\ q + n <= Len(answer.body) /\ q \in 0..Len(answer.body) /\ q + n \in q..Len(answer.body)
        /\ q + n \in 0..Len(answer.body)
    <3>1. /\ q \in Nat /\ n \in Nat /\ pos + n = mid /\ q + n = mid - i
          /\ mid \in Nat /\ mid <= Len(answer.bytes)
      BY <1>7, <2>1
    <3>2. Len(answer.body) \in Nat /\ q + n <= Len(answer.body)
      BY <1>5, <2>1, <2>2, <3>1
    <3> HIDE DEF q, n
    <3>3. QED
      BY <3>1, <3>2
  <2>4. ASSUME NEW h \in 1..n PROVE answer.bytes[pos + h] = answer.body[q + h]
    <3>1. q + h \in 1..Len(answer.bytes) - i /\ i + (q + h) = pos + h
      BY <1>5, <1>7, <2>1
    <3>2. QED
      BY <2>2, <3>1
  <2>5. taken = SubSeq(answer.body, 1, q)
    BY <1>4 DEF HasTaken
  <2> HIDE DEF q, n
  <2>6. SubSeq(answer.bytes, pos + 1, pos + n) = SubSeq(answer.body, q + 1, q + n)
    <3>1. pos \in Nat /\ q \in Nat /\ n \in Nat /\ pos + n <= Len(answer.bytes) /\ q + n <= Len(answer.body)
      BY <1>7, <2>3
    <3>2. Alike(answer.bytes, pos, answer.body, q, n)
      BY <2>4 DEF Alike
    <3>3. QED
      BY <1>5, <3>1, <3>2, EqualStretches, SMTT(40)
  <2>7. taken' = SubSeq(answer.body, 1, q) \o SubSeq(answer.body, q + 1, q + n)
    BY <1>2, <1>8, <2>3, <2>5, <2>6
  <2>8. taken' = SubSeq(answer.body, 1, q + n)
    BY <1>5, <2>3, <2>7, TakenGrows
  <2>9. QED
    BY <1>2, <2>3, <2>8 DEF HasTaken
<1>10. \E m \in 0..Len(answer.body) : HasTaken(m)'
  BY <1>2, <1>9 DEF HasTaken
<1>11. AllTaken'
  BY <1>2 DEF AllTaken
<1>12. Known'
  BY <1>1, <1>2, <1>10, <1>11 DEF Known, Chunked
<1>13. Stretch(mid, mid, last)' /\ mid \in 0..mid
  BY <1>1, <1>2, AllDropped
<1>14. BeforeTheClose(mid)'
  <2>1. i \in 0..mid
    BY <1>4, <1>7
  <2>2. QED
    BY <1>2, <1>3, <1>4, <1>9, <2>1 DEF BeforeTheClose
<1>15. Placed(mid)'
  BY <1>2, <1>14 DEF Placed, BeforeTheBody, AtItsSize, InItsData, BehindItsData, InALength
<1>16. QED
  BY <1>1, <1>2, <1>12, <1>13, <1>15, Arrives DEF At

-----------------------------------------------------------------------------
(* The theorems.                                                           *)

LEMMA NextIInv == ASSUME IInv, [Next]_vars PROVE IInv'
<1>1. CASE UNCHANGED vars
  BY <1>1, StaysKeep DEF vars
<1>2. CASE Closes
  BY <1>2, StaysKeep DEF Closes
<1>3. CASE Connect
  BY <1>3, ConnectKeeps
<1>4. CASE CannotConnect
  BY <1>4, ThrowsKeep DEF CannotConnect, Goes
<1>5. CASE ReadSome
  BY <1>5, ReadSomeKeeps
<1>6. CASE ReadsTheEnd
  BY <1>6, ReadsTheEndKeeps
<1>7. CASE TimesOut
  BY <1>7, ThrowsKeep DEF TimesOut
<1>8. CASE ReadResponseHead
  BY <1>8, ReadResponseHeadKeeps
<1>9. CASE ReadSize
  BY <1>9, ReadSizeKeeps
<1>10. CASE ReadTrailer
  BY <1>10, ReadTrailerKeeps
<1>11. CASE TakeBytes
  BY <1>11, TakeBytesKeeps
<1>12. CASE EndOfChunk
  BY <1>12, EndOfChunkKeeps
<1>13. CASE NextChunk
  BY <1>13, NextChunkKeeps
<1>14. CASE ByLength
  BY <1>14, ByLengthKeeps
<1>15. CASE LengthReached
  BY <1>15, LengthReachedKeeps
<1>16. CASE ToTheClose
  BY <1>16, ToTheCloseKeeps
<1>17. CASE Spin \/ Finished
  BY <1>17, StaysKeep DEF Spin, Finished, vars
<1>18. QED
  BY <1>1, <1>2, <1>3, <1>4, <1>5, <1>6, <1>7, <1>8, <1>9, <1>10, <1>11, <1>12, <1>13, <1>14, <1>15, <1>16,
     <1>17 DEF Next, Client

THEOREM Invariance == Spec => []IInv
BY InitIInv, NextIInv, PTL DEF Spec

\* onChunk of pullImage and buildImage: whatever the reads and the chunks, and
\* wherever the answer ends, what is shown is a beginning of what the daemon
\* reported, in its order.
THEOREM EventsComeInOrder == Spec => []EventsInOrder
<1>1. IInv => EventsInOrder
  <2> SUFFICES ASSUME IInv PROVE EventsInOrder
    OBVIOUS
  <2>1. PICK n \in 0..Len(answer.body) : taken = SubSeq(answer.body, 1, n)
    BY DEF IInv, HasTaken
  <2>2. answer.body \in Seq(STRING)
    BY AnswersAreFramed DEF IInv
  <2>3. QED
    BY <2>1, <2>2, PrefixIsShown DEF EventsInOrder
<1>2. QED
  BY Invariance, <1>1, PTL

\* A beginning of a list of images is no answer, or it is the whole list.
LEMMA CutListIsNoAnswer ==
    ASSUME NEW body \in Seq(STRING), body # <<>>, body[1] = "[", NEW n \in 0..Len(body)
    PROVE  ImageExists(200, SubSeq(body, 1, n)) \in {"failed", ImageExists(200, body)}
<1>1. Len(body) \in Nat /\ Len(body) >= 1 /\ 1 \in Places(body)
  BY DEF Places
<1>2. SkipWs(body, 1) = 1
  <2>1. SkipWs(body, 1) \in 1..Len(body) + 1 /\ \A h \in 1..SkipWs(body, 1) - 1 : body[h] \in Blank
    BY <1>1, SkipWsIs
  <2>2. SkipWs(body, 1) > 1 => 1 \in 1..SkipWs(body, 1) - 1
    BY <1>1, <2>1
  <2>3. ~(SkipWs(body, 1) > 1)
    BY <2>1, <2>2 DEF Blank
  <2>4. QED
    BY <1>1, <2>1, <2>3
<1>3. Closed(body, 1)
  BY <1>1, <1>2 DEF Closed, Is
<1>4. CASE Parse(SubSeq(body, 1, n)).error = "none"
  <2>1. Parse(SubSeq(body, 1, n)) = Parse(body)
    BY <1>3, <1>4, ABeginningParsesAlike
  <2>2. QED
    BY <2>1 DEF ImageExists
<1>5. CASE Parse(SubSeq(body, 1, n)).error # "none"
  BY <1>5 DEF ImageExists
<1>6. QED
  BY <1>4, <1>5

\* deliverBody: no half answer is taken for a whole one.
THEOREM AnswersAreWhole == Spec => []AnswerIsWhole
<1>1. IInv => AnswerIsWhole
  <2> SUFFICES ASSUME IInv, Outcome \in {"ok", "yes", "no"}, ~(cut /\ answer.framing = "close")
               PROVE  /\ Outcome = AnswerOf(answer.call, answer.status, answer.body)
                      /\ answer.call # "exists" => taken = answer.body
    BY DEF AnswerIsWhole
  <2>1. at = "returned" /\ Outcome = AnswerOf(answer.call, answer.status, taken)
    BY DEF Outcome
  <2>2. answer.framing \in {"chunked", "length", "close"}
    BY AnswersAreFramed DEF IInv
  <2>3. CASE answer.framing # "length"
    <3>1. taken = answer.body
      BY <2>1, <2>2, <2>3 DEF IInv, AllTaken
    <3>2. QED
      BY <2>1, <3>1
  <2>4. CASE answer.framing = "length"
    <3>1. answer.status = 200
      BY <2>1 DEF AnswerOf, ImageExists, BuildOrPull
    <3>2. /\ answer.call = "exists"
          /\ \A n \in 0..Len(answer.body) :
               ImageExists(200, SubSeq(answer.body, 1, n)) \in {"failed", ImageExists(200, answer.body)}
      <4>1. answer \in Answers
        BY DEF IInv
      <4>2. answer.call = "exists" /\ answer.body # <<>> /\ answer.body[1] = "[" /\ answer.body \in Seq(STRING)
        BY <2>4, <3>1, <4>1, PipeAssumption
      <4>3. QED
        BY <4>2, CutListIsNoAnswer
    <3>3. PICK n \in 0..Len(answer.body) : taken = SubSeq(answer.body, 1, n)
      BY DEF IInv, HasTaken
    <3>4. Outcome = ImageExists(200, SubSeq(answer.body, 1, n))
      BY <2>1, <3>1, <3>2, <3>3 DEF AnswerOf
    <3>5. QED
      BY <3>1, <3>2, <3>4 DEF AnswerOf
  <2>5. QED
    BY <2>3, <2>4
<1>2. QED
  BY Invariance, <1>1, PTL

=============================================================================
