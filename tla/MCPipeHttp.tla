----------------------------- MODULE MCPipeHttp -----------------------------
(* Answers of the Docker Engine, for TLC. *)
EXTENDS PipeHttp, JsonWriter, TLC

SizeTokens == <<"s0", "s1", "s2", "s3", "s4", "s5", "s6", "s7", "s8", "s9">>
Sizes == [token \in Range(SizeTokens) |-> (CHOOSE n \in 1..10 : SizeTokens[n] = token) - 1]

\* Chunks of n tokens each, and a last one of what remains.
RECURSIVE InChunks(_, _)
InChunks(body, n) ==
    IF Len(body) <= n
      THEN <<SizeTokens[Len(body) + 1], "crlf">> \o body \o
           (IF body = <<>> THEN <<>> ELSE <<"crlf", "s0", "crlf">>) \o <<"crlf">>
      ELSE <<SizeTokens[n + 1], "crlf">> \o SubSeq(body, 1, n) \o <<"crlf">> \o
           InChunks(SubSeq(body, n + 1, Len(body)), n)

\* Where they are, behind the two tokens of the head.
ChunksOf(body, n) ==
    LET last == (Len(body) - 1) \div n IN
    {[at |-> 3 + k * (n + 3), before |-> k * n] : k \in 0..last}
        \cup {[at |-> Len(body) + 3 * last + 6, before |-> Len(body)]}

Answer(call, status, framing, length, coded, chunks, body) ==
    [call |-> call, status |-> status, framing |-> framing, length |-> length,
     bytes |-> <<"head", "blank">> \o coded, chunks |-> chunks, body |-> body,
     refused |-> {n \in 0..Len(body) : Throws(call, SubSeq(body, 1, n))}]

Chunked(call, status, body, n) == Answer(call, status, "chunked", 0, InChunks(body, n), ChunksOf(body, n), body)
OfLength(status, body) == Answer("exists", status, "length", Len(body), body, {}, body)
ToClose(call, body) == Answer(call, 200, "close", 0, body, {}, body)

Text(json) == Append(Dump(json), "newline")
Says(key, value) == Object(<< <<Key(key), value>> >>)
Raw(key) == <<"{", "quote", key, "quote", "space", ":", "quote", "backslash", "backslash", "n", "quote", "}", "newline">>
Word(w) == String(<<w>>)

\* An image that is half there; a layer that cannot be read.
Layer == Object(<< <<Key("status"), Word("Downloading")>>, <<Key("id"), Word("layer")>>,
                   <<Key("progressDetail"), Object(<< <<Key("current"), Number(15)>>, <<Key("total"), Number(20)>> >>)>> >>)
Pull    == Text(Layer)
PullBad == Text(Says("status", Word("a"))) \o Raw("error")

\* A build that logs a line that is no JSON, and one whose number std::stod refuses.
Build    == Text(Says("stream", String(<<"tab", "newline", "formfeed">>))) \o <<"oops", "newline", "newline">> \o Text(Says("error", Word("x")))
BuildBad == Text(Says("stream", Word("a"))) \o <<"-", "newline">> \o Text(Says("stream", Word("b")))

Images == Text(Array(<<Says("Id", Word("i"))>>))

MCAnswers ==
    LET streams == {Chunked("pull", 200, Pull, 9), Chunked("pull", 200, PullBad, 4),
                    Chunked("pull", 404, Text(Says("message", Word("m"))), 7), Chunked("build", 200, Build, 7),
                    Chunked("build", 200, BuildBad, 3), ToClose("build", Text(Says("stream", Word("a"))))}
        lists   == {OfLength(200, Images), OfLength(200, Text(Array(<<>>))),
                    OfLength(500, Dump(Says("message", Word("m")))), Chunked("exists", 200, Images, 2)} IN
    streams \cup lists

-----------------------------------------------------------------------------

LinesOf(text) ==
    {SubSeq(text, i, j) : i \in {k \in 1..Len(text) : k = 1 \/ text[k - 1] = "newline"},
                          j \in {k \in 1..Len(text) : k = Len(text) \/ text[k + 1] = "newline"}}

\* Json::parse and Json::dump: what ebl has read it writes so that it reads the
\* same again, every line of these answers, whose numbers are whole.
RoundTrip ==
    at = "returned" =>
        \A line \in LinesOf(taken) :
            LET p == Parse(line) IN p.error = "none" => Parse(Dump(p.value)).value = p.value

=============================================================================
