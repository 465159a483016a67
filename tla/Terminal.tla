------------------------------ MODULE Terminal ------------------------------
(***************************************************************************)
(* The terminal of each invocation of ebl, what is typed on it, and the    *)
(* two ways in which the program reads it: readKey (tui_input.cpp), a byte *)
(* at a time from the descriptor in raw mode, and std::getline on std::cin *)
(* (prompt.cpp), a line at a time through stdio's buffer.                  *)
(*                                                                         *)
(* The line discipline is Linux's.  RawModeGuard clears ICANON and ECHO    *)
(* only: a Ctrl-C is a signal in every mode.  Bytes that wait when raw     *)
(* mode ends are given to the next read of a line together, however many   *)
(* lines they are.                                                         *)
(***************************************************************************)
EXTENDS Naturals, SequencesExt

CONSTANTS Invocations,
          Words,      \* what is typed as the text of an answer
          MaxOdd,     \* bound on the keys pressed that are neither a word nor Enter
          MaxAhead    \* bound on the bytes that wait to be read

\* A word is the text of an answer: no empty one, and no key.
ASSUME TerminalAssumption == MaxOdd \in Nat /\ MaxAhead \in Nat /\ Words \cap {"", "ESC"} = {}

VARIABLES
    mode,      \* the terminal's settings
    queue,     \* the bytes the terminal has and nobody has read
    together,  \* how many of them the next read of a line takes at once
    stdio,     \* the bytes in the buffer of stdin
    arriving,  \* the bytes of the last key that are still on their way
    reading,   \* where readKey is
    keys,      \* how many keys were pressed
    odd,       \* bound: how many of them were no word and no Enter
    escaped,   \* history: the terminals on which Escape, or a key that begins with
               \* ESC and no bracket, was pressed
    split      \* history: a sequence was not there in time

typedVars    == <<queue, arriving, keys, odd, escaped>>
terminalVars == <<mode, typedVars, together, stdio, reading, split>>

Keys == [up |-> <<"ESC", "[", "A">>, down |-> <<"ESC", "[", "B">>, delete |-> <<"ESC", "[", "3", "~">>,
         escape |-> <<"ESC">>, f1 |-> <<"ESC", "O", "P">>, ctrlC |-> <<"ETX">>, enter |-> <<"newline">>]

BytesOf == [k \in DOMAIN Keys \cup Words |-> IF k \in DOMAIN Keys THEN Keys[k] ELSE <<k>>]

TerminalInit ==
    /\ mode = [i \in Invocations |-> "cooked"]
    /\ queue = [i \in Invocations |-> <<>>]
    /\ together = [i \in Invocations |-> 0]
    /\ stdio = [i \in Invocations |-> <<>>]
    /\ arriving = [i \in Invocations |-> <<>>]
    /\ reading = [i \in Invocations |-> "no"]
    /\ keys = [i \in Invocations |-> 0]
    /\ odd = [i \in Invocations |-> 0]
    /\ escaped = {}
    /\ split = {}

-----------------------------------------------------------------------------
(* The user and the line.                                                  *)

\* A key is pressed; its bytes will arrive one by one.
Press(i, key) ==
    /\ arriving[i] = <<>>
    /\ odd' = IF key \in Words \cup {"enter"} THEN odd ELSE [odd EXCEPT ![i] = @ + 1]
    /\ odd'[i] <= MaxOdd
    /\ keys' = [keys EXCEPT ![i] = @ + 1]
    /\ arriving' = [arriving EXCEPT ![i] = BytesOf[key]]
    /\ escaped' = IF key \in {"escape", "f1"} THEN escaped \cup {i} ELSE escaped
    /\ UNCHANGED <<mode, queue, together, stdio, reading, split>>

ByteArrives(i) ==
    /\ arriving[i] # <<>>
    /\ Head(arriving[i]) # "ETX"
    /\ Len(queue[i]) < MaxAhead
    /\ queue' = [queue EXCEPT ![i] = Append(@, Head(arriving[i]))]
    /\ arriving' = [arriving EXCEPT ![i] = Tail(@)]
    /\ UNCHANGED <<mode, together, stdio, reading, keys, odd, escaped, split>>

\* SIGINT: the terminal drops what it has.
InterruptArrives(i) ==
    /\ arriving[i] # <<>>
    /\ Head(arriving[i]) = "ETX"
    /\ arriving' = [arriving EXCEPT ![i] = <<>>]
    /\ queue' = [queue EXCEPT ![i] = <<>>]
    /\ together' = [together EXCEPT ![i] = 0]
    /\ UNCHANGED <<mode, stdio, reading, keys, odd, escaped, split>>

-----------------------------------------------------------------------------
(* readKey.                                                                *)

\* RawModeGuard.
EnterRaw(i) ==
    /\ reading[i] = "no"
    /\ reading' = [reading EXCEPT ![i] = "first"]
    /\ mode' = [mode EXCEPT ![i] = "raw"]
    /\ together' = [together EXCEPT ![i] = 0]
    /\ UNCHANGED <<typedVars, stdio, split>>

ReadByte(i) ==
    /\ queue[i] # <<>>
    /\ queue' = [queue EXCEPT ![i] = Tail(@)]
    /\ UNCHANGED <<arriving, keys, odd, escaped>>

\* readKey goes on: the start of a sequence.
ReadMore(i) ==
    /\ \/ /\ reading[i] = "first" /\ ReadByte(i) /\ Head(queue[i]) = "ESC"
          /\ reading' = [reading EXCEPT ![i] = "escape"]
       \/ /\ reading[i] = "escape" /\ ReadByte(i) /\ Head(queue[i]) = "["
          /\ reading' = [reading EXCEPT ![i] = "bracket"]
    /\ UNCHANGED <<mode, together, stdio, split>>

\* ~RawModeGuard.
LeaveRaw(i) ==
    /\ reading' = [reading EXCEPT ![i] = "no"]
    /\ mode' = [mode EXCEPT ![i] = "cooked"]
    /\ together' = [together EXCEPT ![i] = Len(queue'[i])]
    /\ UNCHANGED stdio

\* Mutant: select does not see what stdio has taken.
NothingMoreOnTheDescriptor(i) == TRUE

\* moreInputWithin(50): nothing came.
NothingMore(i) == queue[i] = <<>>

TimesOut(i, key) ==
    /\ NothingMore(i)
    /\ \/ reading[i] = "escape" /\ key = "escape"
       \/ reading[i] = "bracket" /\ key = "other"
    /\ split' = IF arriving[i] # <<>> THEN split \cup {i} ELSE split
    /\ UNCHANGED typedVars

KeyOfByte(i, byte) ==
    CASE reading[i] = "first"   -> IF byte = "newline" THEN "enter" ELSE "other"
      [] reading[i] = "escape"  -> "escape"
      [] reading[i] = "bracket" -> CASE byte = "A" -> "up" [] byte = "B" -> "down" [] OTHER -> "other"

BytesMakeKey(i, key) ==
    /\ reading[i] # "no"
    /\ ReadByte(i)
    /\ ~(reading[i] = "first" /\ Head(queue[i]) = "ESC")
    /\ ~(reading[i] = "escape" /\ Head(queue[i]) = "[")
    /\ key = KeyOfByte(i, Head(queue[i]))
    /\ UNCHANGED split

ReadKey(i, key) ==
    /\ TimesOut(i, key) \/ BytesMakeKey(i, key)
    /\ LeaveRaw(i)

-----------------------------------------------------------------------------
(* promptString and promptHidden.                                          *)

\* What one read of a line takes: what was left over by raw mode, or a line.
LineEnds(i) == {n \in 1..Len(queue[i]) : n = together[i] \/ (n > together[i] /\ queue[i][n] = "newline")}

\* stdio has no line: it fills its buffer.
FillStdin(i) ==
    /\ reading[i] = "no"
    /\ \A n \in DOMAIN stdio[i] : stdio[i][n] # "newline"
    /\ LineEnds(i) # {}
    /\ LET n == Min(LineEnds(i)) IN
       /\ stdio' = [stdio EXCEPT ![i] = @ \o SubSeq(queue[i], 1, n)]
       /\ queue' = [queue EXCEPT ![i] = SubSeq(@, n + 1, Len(@))]
    /\ together' = [together EXCEPT ![i] = 0]
    /\ UNCHANGED <<mode, arriving, reading, keys, odd, escaped, split>>

\* std::getline on std::cin.
GetLine(i, line) ==
    /\ \E n \in DOMAIN stdio[i] : stdio[i][n] = "newline"
    /\ LET n == Min({m \in DOMAIN stdio[i] : stdio[i][m] = "newline"}) IN
       /\ line = SubSeq(stdio[i], 1, n - 1)
       /\ stdio' = [stdio EXCEPT ![i] = SubSeq(@, n + 1, Len(@))]
    /\ UNCHANGED <<typedVars, together, reading, split>>

=============================================================================
