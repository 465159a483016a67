-------------------------------- MODULE Json --------------------------------
(***************************************************************************)
(* json.cpp.  A text is a sequence of tokens: a character, or a literal, a *)
(* key or a word that no rule of the grammar looks into.  Numbers are      *)
(* whole and small: no fraction, no exponent and none out of range.  Of    *)
(* code points, only those of control characters are told from the         *)
(* others.  A parse ends with a value and the place after it, with a       *)
(* JsonError, or with an exception of std::stod or std::stoul, that is     *)
(* none.                                                                   *)
(***************************************************************************)
EXTENDS Integers, SequencesExt

Null       == [type |-> "null"]
Boolean(b) == [type |-> "boolean", bool |-> b]
Number(n)  == [type |-> "number", num |-> n]
String(s)  == [type |-> "string", str |-> s]
Array(a)   == [type |-> "array", arr |-> a]
Object(o)  == [type |-> "object", obj |-> o]

-----------------------------------------------------------------------------
(* Access.                                                                 *)

HasKey(j, key) == j.type = "object" /\ \E i \in DOMAIN j.obj : j.obj[i][1] = key

Get(j, key) ==
    IF HasKey(j, key)
      THEN j.obj[CHOOSE i \in DOMAIN j.obj : j.obj[i][1] = key][2]
      ELSE Null

\* A key that is there keeps its place.
Set(j, key, value) ==
    IF HasKey(j, key)
      THEN Object([i \in DOMAIN j.obj |-> IF j.obj[i][1] = key THEN <<key, value>> ELSE j.obj[i]])
      ELSE Object(Append(IF j.type = "null" THEN <<>> ELSE j.obj, <<key, value>>))

Size(j) == CASE j.type = "array"  -> Len(j.arr)
             [] j.type = "object" -> Len(j.obj)
             [] OTHER -> 0

AsString(j) == IF j.type = "string" THEN j.str ELSE <<>>

-----------------------------------------------------------------------------
(* Parsing, from place i of a text.                                        *)

Done(value, i) == [error |-> "none", value |-> value, next |-> i]
Fails(error)   == [error |-> error, value |-> Null, next |-> 0]

\* One item, and those that follow it if they are right.
Then(item, rest) ==
    IF rest.error = "none" THEN Done(<<item>> \o rest.value, rest.next) ELSE rest

Places(s) == 1..Len(s) + 1

Blank == {"space", "tab", "newline", "return"}

SkipWs(s, i) ==
    CHOOSE k \in i..Len(s) + 1 :
        (k > Len(s) \/ s[k] \notin Blank) /\ \A h \in i..k - 1 : s[h] \in Blank

Is(s, i, c) == i <= Len(s) /\ s[i] = c

Digits == <<"0", "1", "2", "3", "4", "5", "6", "7", "8", "9">>

\* The characters of one kind that follow.
RunOf(kind, s, i) ==
    CHOOSE k \in i..Len(s) + 1 : (k > Len(s) \/ s[k] \notin kind) /\ \A h \in i..k - 1 : s[h] \in kind

NumberOf(digits) ==
    FoldLeft(LAMBDA n, d : 10 * n + (CHOOSE v \in 0..9 : Digits[v + 1] = d), 0, digits)

\* std::stod refuses a sign alone.
ParseNumber(s, i) ==
    LET first == IF Is(s, i, "-") \/ Is(s, i, "+") THEN i + 1 ELSE i
        end   == RunOf(Range(Digits), s, first)
        n     == NumberOf(SubSeq(s, first, end - 1)) IN
    CASE end = i -> Fails("JsonError")
      [] end = first /\ end > i -> Fails("stod")
      [] end > first -> Done(Number(IF Is(s, i, "-") THEN -n ELSE n), end)

\* std::stoul skips blanks and a sign, and takes the digits that follow, if any.
IsHex(four) ==
    \E k \in DOMAIN four :
        /\ four[k] \in Range(Digits) \cup {"a", "b", "c", "d", "e", "f", "A", "B", "C", "D", "E", "F"}
        /\ \A h \in 1..k - 1 : four[h] \in Blank \/ (h = k - 1 /\ four[h] \in {"+", "-"})

\* The last digit of some control characters, `ctl` for those without a name.
Controls == [ctl |-> "1", backspace |-> "8", tab |-> "9", newline |-> "a", formfeed |-> "c", return |-> "d"]

CodePoint(four) ==
    IF \E c \in DOMAIN Controls : four = <<"0", "0", "0", Controls[c]>>
      THEN CHOOSE c \in DOMAIN Controls : four = <<"0", "0", "0", Controls[c]>>
      ELSE "other"

Unescaped == [quote |-> "quote", backslash |-> "backslash", slash |-> "slash", b |-> "backspace",
              f |-> "formfeed", n |-> "newline", r |-> "return", t |-> "tab"]

\* What follows the quote, as a sequence; string[i] is what is there from i on.
ParseString(s, string, i) ==
    CASE i > Len(s) -> Fails("JsonError")
      [] Is(s, i, "quote") -> Done(<<>>, i + 1)
      [] i <= Len(s) /\ s[i] \notin {"quote", "backslash"} -> Then(s[i], string[i + 1])
      [] Is(s, i, "backslash") /\ i < Len(s) /\ s[i + 1] \in DOMAIN Unescaped ->
            Then(Unescaped[s[i + 1]], string[i + 2])
      [] Is(s, i, "backslash") /\ Is(s, i + 1, "u") /\ i + 5 <= Len(s) ->
            IF IsHex(SubSeq(s, i + 2, i + 5))
              THEN Then(CodePoint(SubSeq(s, i + 2, i + 5)), string[i + 6])
              ELSE Fails("stoul")
      [] OTHER -> Fails("JsonError")

Strings(s) == LET string[i \in Places(s)] == ParseString(s, string, i) IN string

\* The members are set one after the other.
ObjectOf(members) == FoldLeft(LAMBDA o, m : Set(o, m[1], m[2]), Object(<<>>), members)

\* parsed[<<what, i>>]: the value, the items of an array or the members of an
\* object that are there from i on.
ParseValue(s, parsed, start) ==
    LET i == SkipWs(s, start) IN
    CASE i > Len(s) -> Fails("JsonError")
      [] Is(s, i, "{") ->
            IF Is(s, SkipWs(s, i + 1), "}") THEN Done(Object(<<>>), SkipWs(s, i + 1) + 1) ELSE
            LET p == parsed[<<"members", i + 1>>] IN
            IF p.error = "none" THEN Done(ObjectOf(p.value), p.next) ELSE p
      [] Is(s, i, "[") ->
            IF Is(s, SkipWs(s, i + 1), "]") THEN Done(Array(<<>>), SkipWs(s, i + 1) + 1) ELSE
            LET p == parsed[<<"items", i + 1>>] IN
            IF p.error = "none" THEN Done(Array(p.value), p.next) ELSE p
      [] Is(s, i, "quote") ->
            LET p == Strings(s)[i + 1] IN
            IF p.error = "none" THEN Done(String(p.value), p.next) ELSE p
      [] i <= Len(s) /\ s[i] \in {"true", "false"} -> Done(Boolean(s[i] = "true"), i + 1)
      [] Is(s, i, "null") -> Done(Null, i + 1)
      [] OTHER -> ParseNumber(s, i)

ParseArray(s, parsed, i) ==
    LET p == parsed[<<"value", i>>]
        k == SkipWs(s, p.next) IN
    CASE p.error # "none" -> p
      [] p.error = "none" /\ Is(s, k, "]") -> Done(<<p.value>>, k + 1)
      [] p.error = "none" /\ Is(s, k, ",") -> Then(p.value, parsed[<<"items", k + 1>>])
      [] OTHER -> Fails("JsonError")

ParseObject(s, parsed, start) ==
    LET i      == SkipWs(s, start)
        key    == Strings(s)[i + 1]
        colon  == SkipWs(s, key.next)
        p      == parsed[<<"value", colon + 1>>]
        k      == SkipWs(s, p.next)
        member == <<key.value, p.value>> IN
    CASE ~Is(s, i, "quote") -> Fails("JsonError")
      [] Is(s, i, "quote") /\ key.error # "none" -> key
      [] Is(s, i, "quote") /\ key.error = "none" /\ ~Is(s, colon, ":") -> Fails("JsonError")
      [] OTHER -> CASE p.error # "none" -> p
                    [] p.error = "none" /\ Is(s, k, "}") -> Done(<<member>>, k + 1)
                    [] p.error = "none" /\ Is(s, k, ",") -> Then(member, parsed[<<"members", k + 1>>])
                    [] OTHER -> Fails("JsonError")

Kinds == {"value", "items", "members"}

ParseAt(s, parsed, x) ==
    CASE x[1] = "value"   -> ParseValue(s, parsed, x[2])
      [] x[1] = "items"   -> ParseArray(s, parsed, x[2])
      [] x[1] = "members" -> ParseObject(s, parsed, x[2])

Parsed(s) == LET parsed[x \in Kinds \X Places(s)] == ParseAt(s, parsed, x) IN parsed

\* What follows the value is not looked at.
Parse(s) == Parsed(s)[<<"value", 1>>]

=============================================================================
