---------------------------- MODULE DockerStream ----------------------------
(***************************************************************************)
(* What the lines of a streamed answer of the Docker Engine mean           *)
(* (docker_client.cpp): onChunk of buildImage and pullImage, as a function *)
(* of the bytes that it was given.                                         *)
(***************************************************************************)
EXTENDS Json

\* residual, what onLog or onEvent got, firstError, and whether onChunk has thrown.
Nothing == [residual |-> <<>>, events |-> <<>>, firstError |-> <<>>, threw |-> FALSE]

Key(name) == <<name>>

\* renderBar: how many of its 30 places are filled.
RenderBar(current, total) ==
    IF total <= 0 THEN 0 ELSE LET filled == (30 * current) \div total IN
                              IF filled < 0 THEN 0 ELSE IF filled > 30 THEN 30 ELSE filled

AsInt(j) == IF j.type = "number" THEN j.num ELSE 0

\* A total of zero has no bar.
Progress(event) ==
    LET detail == Get(event, Key("progressDetail"))
        total  == AsInt(Get(detail, Key("total"))) IN
    CASE AsString(Get(event, Key("progress"))) # <<>> -> AsString(Get(event, Key("progress")))
      [] AsString(Get(event, Key("progress"))) = <<>> /\ total > 0 ->
            <<ToString(RenderBar(AsInt(Get(detail, Key("current"))), total))>>
      [] OTHER -> <<>>

Logs(s, text) == [s EXCEPT !.events = Append(@, text)]

BuildEvent(s, event) ==
    CASE HasKey(event, Key("stream")) -> Logs(s, AsString(Get(event, Key("stream"))))
      [] HasKey(event, Key("status")) /\ ~HasKey(event, Key("stream")) ->
            Logs(s, AsString(Get(event, Key("status"))) \o AsString(Get(event, Key("progress"))))
      [] HasKey(event, Key("error")) /\ ~HasKey(event, Key("status")) /\ ~HasKey(event, Key("stream")) ->
            [s EXCEPT !.firstError = AsString(Get(event, Key("error")))]
      [] OTHER -> s

PullEvent(s, event) ==
    CASE HasKey(event, Key("error")) -> [s EXCEPT !.firstError = AsString(Get(event, Key("error")))]
      [] HasKey(event, Key("status")) /\ ~HasKey(event, Key("error")) ->
            Logs(s, AsString(Get(event, Key("id"))) \o AsString(Get(event, Key("status"))) \o Progress(event))
      [] OTHER -> s

\* A line, and what parsing it gave.  Only a JsonError is caught; buildImage shows
\* the line as it is.
Told(call, s, line, p) ==
    CASE p.error = "JsonError" -> IF call = "build" THEN Logs(s, line) ELSE s
      [] p.error = "none" -> IF call = "build" THEN BuildEvent(s, p.value) ELSE PullEvent(s, p.value)
      [] OTHER -> [s EXCEPT !.threw = TRUE]

Line(call, s, line) == IF line = <<>> THEN s ELSE Told(call, s, line, Parse(line))

\* residual grows until its line ends.
OnChunk(call, s, byte) ==
    CASE s.threw -> s
      [] ~s.threw /\ byte = "newline" -> Line(call, [s EXCEPT !.residual = <<>>], s.residual)
      [] OTHER -> [s EXCEPT !.residual = Append(@, byte)]

\* What a call has made of the first n bytes, in whatever pieces it was given them.
StreamOf(call, bytes) ==
    LET stream[n \in 0..Len(bytes)] == IF n = 0 THEN Nothing ELSE OnChunk(call, stream[n - 1], bytes[n])
    IN  stream

Streamed(call, bytes) == StreamOf(call, bytes)[Len(bytes)]

Throws(call, bytes) == call # "exists" /\ Streamed(call, bytes).threw

\* What the call answers when the request has ended; "failed" is an exception.
BuildOrPull(call, status, bytes) ==
    LET s == Streamed(call, bytes) IN
    IF s.threw \/ s.firstError # <<>> \/ status # 200 THEN "failed" ELSE "ok"

ImageExists(status, body) ==
    LET p == Parse(body) IN
    CASE status # 200 \/ p.error # "none" -> "failed"
      [] OTHER -> IF Size(p.value) > 0 THEN "yes" ELSE "no"

AnswerOf(call, status, bytes) ==
    IF call = "exists" THEN ImageExists(status, bytes) ELSE BuildOrPull(call, status, bytes)

=============================================================================
