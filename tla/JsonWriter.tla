----------------------------- MODULE JsonWriter -----------------------------
(***************************************************************************)
(* Json::dump of json.cpp: the text of a value, without spaces.            *)
(***************************************************************************)
EXTENDS Json

\* A whole number of less than 1e15.  What %.17g makes of the others, fractions and
\* larger magnitudes, is left out, as the parser leaves them out.
RECURSIVE NumberText(_)
NumberText(n) ==
    CASE n < 0  -> <<"-">> \o NumberText(-n)
      [] n \in 0..9 -> <<Digits[n + 1]>>
      [] n > 9  -> Append(NumberText(n \div 10), Digits[(n % 10) + 1])

Short == [quote |-> "quote", backslash |-> "backslash", newline |-> "n", return |-> "r", tab |-> "t"]

EscapedBy(short, c) ==
    CASE c \in DOMAIN short -> <<"backslash", short[c]>>
      [] c \in DOMAIN Controls \ DOMAIN short -> <<"backslash", "u", "0", "0", "0", Controls[c]>>
      [] OTHER -> <<c>>

\* Mutant: a backslash is written as it is.
EscapedButBackslash(c) == EscapedBy([x \in DOMAIN Short \ {"backslash"} |-> Short[x]], c)

Escaped(c) == EscapedBy(Short, c)

StringText(s) == <<"quote">> \o FlattenSeq([i \in DOMAIN s |-> Escaped(s[i])]) \o <<"quote">>

Separated(texts) ==
    FlattenSeq([i \in DOMAIN texts |-> IF i = 1 THEN texts[i] ELSE <<",">> \o texts[i]])

RECURSIVE Dump(_)
Dump(j) ==
    CASE j.type = "null"    -> <<"null">>
      [] j.type = "boolean" -> <<IF j.bool THEN "true" ELSE "false">>
      [] j.type = "number"  -> NumberText(j.num)
      [] j.type = "string"  -> StringText(j.str)
      [] j.type = "array"   ->
            <<"[">> \o Separated([i \in DOMAIN j.arr |-> Dump(j.arr[i])]) \o <<"]">>
      [] j.type = "object"  ->
            <<"{">> \o Separated([i \in DOMAIN j.obj |->
                           StringText(j.obj[i][1]) \o <<":">> \o Dump(j.obj[i][2])]) \o <<"}">>

=============================================================================
