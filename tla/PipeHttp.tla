------------------------------ MODULE PipeHttp ------------------------------
(***************************************************************************)
(* One request over Docker Desktop's named pipe (http_client_win.cpp): the *)
(* framing of the answer, read in whatever pieces ReadFile gives, from a   *)
(* daemon that may end the connection at any byte.  The bytes of a head,   *)
(* of a size and of a line end are one token each: "blank" ends the head,  *)
(* "crlf" a line.                                                          *)
(***************************************************************************)
EXTENDS DockerStream

CONSTANTS Answers,  \* answers of the daemon: records of the fields below
          SizeOf    \* the number that a size token stands for

FirstBlank(bytes, i) == bytes[i] = "blank" /\ \A h \in 1..i - 1 : bytes[h] # "blank"

\* Its size, what it holds of the body, and the chunk that comes next.
ChunkAt(a, c) ==
    LET n == SizeOf[a.bytes[c.at]] IN
    /\ c.at \in 1..Len(a.bytes) - 1 /\ a.bytes[c.at] \in DOMAIN SizeOf /\ a.bytes[c.at + 1] = "crlf"
    /\ c.before \in 0..Len(a.body)
    /\ n = 0 => c.before = Len(a.body)
    /\ n > 0 => /\ c.at + n < Len(a.bytes) /\ c.before + n <= Len(a.body)
                /\ \A i \in 1..n : a.bytes[c.at + 1 + i] = a.body[c.before + i]
                /\ [at |-> c.at + n + 3, before |-> c.before + n] \in a.chunks

\* HTTP/1.1.  chunks: where each chunk is in the bytes, and how much of the body
\* comes before it.
Framed(a) ==
    \E i \in DOMAIN a.bytes :
        /\ FirstBlank(a.bytes, i)
        /\ a.framing = "close" => a.body = SubSeq(a.bytes, i + 1, Len(a.bytes))
        /\ a.framing = "length" => /\ a.length = Len(a.body) /\ i + a.length <= Len(a.bytes)
                                   /\ \A k \in 1..a.length : a.bytes[i + k] = a.body[k]
        /\ a.framing = "chunked" => /\ [at |-> i + 1, before |-> 0] \in a.chunks
                                    /\ \A c \in a.chunks : ChunkAt(a, c)

\* refused: after how many bytes of the body onChunk has thrown.  The images are
\* listed in a body of known length; no stream has one.
ASSUME PipeAssumption ==
    /\ SizeOf \in [DOMAIN SizeOf -> Nat] /\ "crlf" \notin DOMAIN SizeOf
    /\ \A a \in Answers :
         /\ DOMAIN a = {"call", "status", "framing", "length", "bytes", "chunks", "body", "refused"}
         /\ a.call \in {"build", "pull", "exists"} /\ a.framing \in {"chunked", "length", "close"}
         /\ a.bytes \in Seq(STRING) /\ a.body \in Seq(STRING) /\ a.length \in Nat /\ Framed(a)
         /\ \A c \in a.chunks : c = [at |-> c.at, before |-> c.before]
         /\ a.refused = {n \in 0..Len(a.body) : Throws(a.call, SubSeq(a.body, 1, n))}
         /\ a.framing = "length" /\ a.status = 200 =>
              a.call = "exists" /\ a.body # <<>> /\ a.body[1] = "["

VARIABLES
    answer, wire,   \* the answer, and its bytes that are still to be read
    open, cut,      \* whether the pipe is open; whether the daemon ends too early
    at,             \* where the client is
    pending, left,  \* bytes read and not used; how many of a body or a chunk are missing
    chunk, taken    \* what takeBytes has of this chunk; what onChunk got

vars == <<answer, wire, open, cut, at, pending, left, chunk, taken>>

Init ==
    /\ answer \in Answers
    /\ \E n \in 0..Len(answer.bytes) : wire = SubSeq(answer.bytes, 1, n)
    /\ open = TRUE /\ cut = (wire # answer.bytes)
    /\ at = "connecting"
    /\ pending = <<>> /\ left = 0
    /\ chunk = <<>> /\ taken = <<>>

Over == at \in {"returned", "thrown"}

-----------------------------------------------------------------------------

\* The daemon closes the pipe; nobody can tell when before it is empty.
Closes ==
    /\ open /\ wire = <<>>
    /\ open' = FALSE
    /\ UNCHANGED <<answer, wire, cut, at, pending, left, chunk, taken>>

Goes(from, to) ==
    /\ at = from
    /\ at' = to

\* performRequest writes the request.
Connect ==
    /\ Goes("connecting", "head")
    /\ UNCHANGED <<answer, wire, open, cut, pending, left, chunk, taken>>

\* There is no pipe, or it stays busy.
CannotConnect ==
    /\ Goes("connecting", "thrown")
    /\ UNCHANGED <<answer, wire, open, cut, pending, left, chunk, taken>>

\* Whether readSome is called: refill calls it on an empty buffer only.
Waits ==
    \/ at = "head" /\ "blank" \notin Range(pending)
    \/ at \in {"size", "trailer", "close"} /\ pending = <<>>
    \/ at \in {"data", "crlf", "length"} /\ pending = <<>> /\ left > 0

ReadSome ==
    /\ Waits
    /\ \E n \in 1..Len(wire) :
         /\ pending' = pending \o SubSeq(wire, 1, n)
         /\ wire' = SubSeq(wire, n + 1, Len(wire))
    /\ UNCHANGED <<answer, open, cut, at, left, chunk, taken>>

\* Mutant: a closed pipe is not told from an empty one.
KeepsWaiting ==
    /\ Waits /\ wire = <<>> /\ ~open
    /\ UNCHANGED vars

\* Mutant: a chunked body too may end with the connection.
AnyBodyEnds ==
    /\ Waits
    /\ wire = <<>> /\ ~open
    /\ at' = IF at = "head" THEN "thrown" ELSE "returned"
    /\ UNCHANGED <<answer, wire, open, cut, pending, left, chunk, taken>>

\* readSome returns false.  A body that ends with the connection is over, and so
\* is one of a known length.
ReadsTheEnd ==
    /\ Waits
    /\ wire = <<>> /\ ~open
    /\ at' = IF at \in {"length", "close"} THEN "returned" ELSE "thrown"
    /\ UNCHANGED <<answer, wire, open, cut, pending, left, chunk, taken>>

\* Of the three calls only imageExists has a timeout.
TimesOut ==
    /\ Waits /\ answer.call = "exists"
    /\ at' = "thrown"
    /\ UNCHANGED <<answer, wire, open, cut, pending, left, chunk, taken>>

Drop(n) == pending' = SubSeq(pending, n + 1, Len(pending))

ReadResponseHead ==
    /\ at = "head"
    /\ \E i \in DOMAIN pending : FirstBlank(pending, i) /\ Drop(i)
    /\ at' = CASE answer.framing = "chunked" -> "size"
               [] answer.framing = "length"  -> "length"
               [] answer.framing = "close"   -> "close"
    /\ left' = answer.length
    /\ UNCHANGED <<answer, wire, open, cut, chunk, taken>>

\* readLine: the first line that ends in the buffer has i bytes with its end.
LineOf(i) == pending[i] = "crlf" /\ \A h \in 1..i - 1 : pending[h] # "crlf"

\* A size of zero ends the body.
ReadSize ==
    /\ at = "size"
    /\ \E i \in DOMAIN pending : LineOf(i) /\ Drop(i)
    /\ left' = IF pending[1] \in DOMAIN SizeOf THEN SizeOf[pending[1]] ELSE 0
    /\ at' = CASE pending[1] \notin DOMAIN SizeOf -> "thrown"
               [] pending[1] \in DOMAIN SizeOf -> IF left' = 0 THEN "trailer" ELSE "data"
    /\ UNCHANGED <<answer, wire, open, cut, chunk, taken>>

ReadTrailer ==
    /\ at = "trailer"
    /\ \E i \in DOMAIN pending :
         /\ LineOf(i) /\ Drop(i)
         /\ at' = IF i = 1 THEN "returned" ELSE "trailer"
    /\ UNCHANGED <<answer, wire, open, cut, left, chunk, taken>>

\* A line of which only a part was read: refill reads nothing, and readLine looks
\* again at what it has.
Spinning == at \in {"size", "trailer"} /\ pending # <<>> /\ "crlf" \notin Range(pending)
Spin     == Spinning /\ UNCHANGED vars

Some(n) == SubSeq(pending, 1, IF n < Len(pending) THEN n ELSE Len(pending))

\* Mutant: a chunk takes all that was read.
TakesWhatThereIs ==
    /\ at \in {"data", "crlf"}
    /\ left > 0 /\ pending # <<>>
    /\ chunk' = chunk \o pending
    /\ left' = 0
    /\ pending' = <<>>
    /\ UNCHANGED <<answer, wire, open, cut, at, taken>>

TakeBytes ==
    /\ at \in {"data", "crlf"}
    /\ left > 0 /\ pending # <<>>
    /\ chunk' = chunk \o Some(left)
    /\ left' = left - Len(Some(left))
    /\ Drop(Len(Some(left)))
    /\ UNCHANGED <<answer, wire, open, cut, at, taken>>

\* onChunk; what it throws ends the request.
Deliver(data, next) ==
    /\ taken' = taken \o data
    /\ at' = IF Len(taken') \in answer.refused THEN "thrown" ELSE next

\* Two bytes more after its data.
EndOfChunk ==
    /\ at = "data" /\ left = 0
    /\ Deliver(chunk, "crlf")
    /\ left' = 1
    /\ chunk' = <<>>
    /\ UNCHANGED <<answer, wire, open, cut, pending>>

NextChunk ==
    /\ Goes("crlf", "size")
    /\ left = 0
    /\ chunk' = <<>>
    /\ UNCHANGED <<answer, wire, open, cut, pending, left, taken>>

\* What is beyond the length is dropped.
ByLength ==
    /\ at = "length" /\ pending # <<>>
    /\ Deliver(Some(left), "length")
    /\ left' = left - Len(Some(left))
    /\ pending' = <<>>
    /\ UNCHANGED <<answer, wire, open, cut, chunk>>

LengthReached ==
    /\ Goes("length", "returned")
    /\ left = 0 /\ pending = <<>>
    /\ UNCHANGED <<answer, wire, open, cut, pending, left, chunk, taken>>

ToTheClose ==
    /\ at = "close" /\ pending # <<>>
    /\ Deliver(pending, "close")
    /\ pending' = <<>>
    /\ UNCHANGED <<answer, wire, open, cut, left, chunk>>

Client ==
    \/ Connect \/ CannotConnect \/ ReadSome \/ ReadsTheEnd \/ TimesOut \/ ReadResponseHead
    \/ ReadSize \/ ReadTrailer \/ TakeBytes \/ EndOfChunk \/ NextChunk
    \/ ByLength \/ LengthReached \/ ToTheClose

Finished == Over /\ UNCHANGED vars

Next == Client \/ Closes \/ Spin \/ Finished

Spec == Init /\ [][Next]_vars

\* ebl runs, and the daemon closes the pipe in the end ("Connection: close").
FairSpec == Spec /\ WF_vars(Client) /\ WF_vars(Closes)

Outcome ==
    CASE at = "thrown" -> "failed"
      [] at = "returned" -> AnswerOf(answer.call, answer.status, taken)
      [] OTHER -> "none"

-----------------------------------------------------------------------------

\* However the reads divide the answer, and its chunks the lines, what is shown is
\* what the daemon reported, in order.
EventsInOrder ==
    answer.call # "exists" =>
        IsPrefix(Streamed(answer.call, taken).events, Streamed(answer.call, answer.body).events)

\* A call answers what it would answer to all that the daemon had to say, and a
\* build or a pull has seen it to its end; an answer that is cut is an exception,
\* unless the close of the connection is the only end that it has.
AnswerIsWhole ==
    Outcome \in {"ok", "yes", "no"} /\ ~(cut /\ answer.framing = "close") =>
        /\ Outcome = AnswerOf(answer.call, answer.status, answer.body)
        /\ answer.call # "exists" => taken = answer.body

\* http_client.hpp: every request returns or throws once the daemon has closed the
\* pipe, except one that was given a part of a size line.
RequestEnds == <>(Over \/ Spinning)

\* docs/CHANGELOG.md:1393 "Supports both Content-Length and chunked response
\* bodies": whatever the reads, a request over the pipe ends.
EveryRequestEnds == <>Over

=============================================================================
