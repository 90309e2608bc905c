----------------------------- MODULE HTTPDecoder -----------------------------
(***************************************************************************)
(* The HTTP decoder of NetAnalyzer (http/): a TCPStreamListener that finds *)
(* requests and responses in the two byte streams of one TCP connection    *)
(* and passes their headers and payload to its HTTPListeners.              *)
(*                                                                         *)
(* onDataFromInitiator() appends to a buffer and calls check() until it    *)
(* returns false; onClose() does so for both directions. One action here   *)
(* is one section of check() at work; `loop` holds the directions whose    *)
(* while-loop is still to be run, and nothing arrives before it is empty.  *)
(*                                                                         *)
(* A buffer is a sequence of cells: a header is a head and CR LF CR LF, a  *)
(* chunk size is one cell, a piece of payload is one cell. What does not   *)
(* begin with a head is no header, and no payload looks like one.          *)
(***************************************************************************)
EXTENDS Integers, Sequences

CONSTANTS
    Headers,    \* the headers that can be sent
    NoHeader,   \* nullptr
    NoLength    \* a header without content-length

Methods == {"GET", "POST", "HEAD", "RESPONSE", "BOGUS"}

\* `strange`: shorter than 14 bytes or longer than 32 KB; `nr` tells messages
\* with equal headers apart.
ASSUME HeadersAssumption ==
    /\ Headers \subseteq [nr : Nat, method : Methods, strange : BOOLEAN,
                          length : Nat \cup {NoLength}, chunked : BOOLEAN,
                          close : BOOLEAN, gzip : BOOLEAN]
    /\ NoHeader \notin Headers
    /\ NoLength \notin Nat

VARIABLES
    withZlib,   \* compiled WITH_ZLIB; never changes
    stream,     \* HTTPStream: a HTTPStreamDir for each direction
    stats,      \* HTTPDecoderStats
    loop,       \* directions for which check() is to be called until it returns false
    phase,      \* "open", "closing" while onClose() runs, "closed"
    log         \* what the listeners were told of each direction

vars == <<withZlib, stream, stats, loop, phase, log>>

Dirs == {"in", "out"}
Other(d) == IF d = "in" THEN "out" ELSE "in"

States == {"HEADER", "CONTENT", "UNKNOWN_CONTENT", "CHUNK_SIZE", "CHUNK_DATA",
           "CHUNK_END", "CORRUPTED"}
Counters == {"numHeaders", "numCompressed", "numNormal", "numChunked",
             "numUnkownSize", "numOK", "numWithoutPayload", "numDecompressErrors"}
Kinds == {"requests", "responses"}

Cell ==
    {c \in [kind : {"head", "cr", "lf", "size", "data"}, header : Headers \cup {NoHeader}, n : Nat] :
        c.kind = "head" => c.header \in Headers}

\* One event for each call of a listener, and one for each cell of traffic
Event == [what : {"header", "traffic", "unzipped", "done"},
          request : Headers \cup {NoHeader}, header : Headers \cup {NoHeader}, n : Nat]

Note(what, request, header, n) ==
    [what |-> what, request |-> request, header |-> header, n |-> n]

-----------------------------------------------------------------------------
(* The buffer *)

IsLineEnd(b, i) == i > 1 /\ b[i - 1].kind = "cr" /\ b[i].kind = "lf"

\* Where a line, or a header, in the buffer ends; indexOf() finds the first.
LineEnds(b) == {i \in 1 .. Len(b) : IsLineEnd(b, i)}

\* Mutant of HeaderEnds: a header ends with its first line.
HeaderEndsWithLine(b) == LineEnds(b)

HeaderEnds(b) == {i \in LineEnds(b) : i - 2 \in LineEnds(b)}
First(S) == CHOOSE i \in S : \A j \in S : i <= j

\* Mutant of Least: one too many.
OneMore(n, b) == IF n < Len(b) THEN n + 1 ELSE Len(b)

\* get(n): the first n cells, or as many as there are
Least(n, b) == IF n < Len(b) THEN n ELSE Len(b)

\* Mutant of Rest: what was used stays in the buffer.
NotRemoved(b, n) == b

Rest(b, n) == SubSeq(b, n + 1, Len(b))

\* hexStringToInt(): what is no number is 0.
ChunkSizeIn(line) == IF Len(line) > 0 /\ line[1].kind = "size" THEN line[1].n ELSE 0

-----------------------------------------------------------------------------
(* Control *)

KindOf(s) == IF s.isRequest THEN "requests" ELSE "responses"

\* ++curStats->... for each of the counters cs
Count(k, cs) ==
    [stats EXCEPT ![k] = [c \in Counters |-> stats[k][c] + (IF c \in cs THEN 1 ELSE 0)]]

\* Does one of the sections of check() find something to do?
HasWork(s) ==
    \/ s.state = "HEADER" /\ HeaderEnds(s.buffer) # {}
    \/ s.state = "UNKNOWN_CONTENT" /\ s.buffer # <<>>
    \/ s.state = "CHUNK_SIZE" /\ LineEnds(s.buffer) # {}
    \/ s.state = "CONTENT" /\ (s.buffer # <<>> \/ s.contentReceived = s.contentLength)
    \/ s.state = "CHUNK_DATA" /\ (s.buffer # <<>> \/ s.contentReceived = s.chunkLength)
    \/ s.state = "CHUNK_END" /\ Len(s.buffer) >= 2

Works(d, state) ==
    /\ loop # <<>> /\ loop[1] = d
    /\ stream[d].state = state
    /\ HasWork(stream[d])

Become(d, s) == stream' = [stream EXCEPT ![d] = s]

\* Mutant of Corrupt: the other direction goes on.
CorruptOne(d, s) == stream' = [stream EXCEPT ![d] = [s EXCEPT !.state = "CORRUPTED"]]

\* Both directions are ignored from now on.
Corrupt(d, s) ==
    stream' = [e \in Dirs |-> [(IF e = d THEN s ELSE stream[e]) EXCEPT !.state = "CORRUPTED"]]

Tell(d, events) == log' = [log EXCEPT ![d] = @ \o events]

-----------------------------------------------------------------------------
(* The section for headers *)

HeaderEnd(s) == First(HeaderEnds(s.buffer))
FirstCell(s) == s.buffer[1]

\* Mutant of FramingOf: "connection: close" has precedence.
FramingByClose(s, h) ==
    IF s.headerOnlyRequest THEN "none"
    ELSE IF h.close THEN "close"
    ELSE IF h.length # NoLength THEN "length"
    ELSE IF h.chunked THEN "chunked"
    ELSE "none"

\* How the payload of a message ends
FramingOf(s, h) ==
    IF s.headerOnlyRequest THEN "none"
    ELSE IF h.length # NoLength THEN "length"
    ELSE IF h.chunked THEN "chunked"
    ELSE IF h.close THEN "close"
    ELSE "none"

StateAfter(framing) ==
    CASE framing = "length" -> "CONTENT"
      [] framing = "chunked" -> "CHUNK_SIZE"
      [] framing = "close" -> "UNKNOWN_CONTENT"
      [] framing = "none" -> "HEADER"

\* Mutant of CountersFor: a message without payload is not counted as OK.
CountersNotOK(framing) ==
    CASE framing = "length" -> {"numNormal"}
      [] framing = "chunked" -> {"numChunked"}
      [] framing = "close" -> {"numUnkownSize"}
      [] framing = "none" -> {"numWithoutPayload"}

CountersFor(framing) ==
    CASE framing = "length" -> {"numNormal"}
      [] framing = "chunked" -> {"numChunked"}
      [] framing = "close" -> {"numUnkownSize"}
      [] framing = "none" -> {"numWithoutPayload", "numOK"}

\* A header of strange size stays in the buffer.
StrangeHeader(d) ==
    /\ Works(d, "HEADER")
    /\ FirstCell(stream[d]).kind = "head" => FirstCell(stream[d]).header.strange
    /\ Corrupt(d, stream[d])
    /\ UNCHANGED <<withZlib, stats, loop, phase, log>>

\* Mutant of Taken: the header is set once.
TakenOnce(s) ==
    [s EXCEPT !.header = IF @ = NoHeader THEN FirstCell(s).header ELSE @, !.unzip = FALSE,
              !.buffer = Rest(s.buffer, HeaderEnd(s))]

\* reset(), and the header is taken from the buffer.
Taken(s) ==
    [s EXCEPT !.header = FirstCell(s).header, !.unzip = FALSE,
              !.buffer = Rest(s.buffer, HeaderEnd(s))]

Parsed(s) == [Taken(s) EXCEPT !.isRequest = FirstCell(s).header.method # "RESPONSE"]

BogusHeader(d) ==
    /\ Works(d, "HEADER")
    /\ FirstCell(stream[d]).kind = "head" =>
          ~FirstCell(stream[d]).header.strange /\ FirstCell(stream[d]).header.method = "BOGUS"
    /\ Corrupt(d, Taken(stream[d]))
    /\ UNCHANGED <<withZlib, stats, loop, phase, log>>

IsGoodHeader(d) ==
    /\ Works(d, "HEADER")
    /\ FirstCell(stream[d]).kind = "head"
    /\ ~FirstCell(stream[d]).header.strange
    /\ FirstCell(stream[d]).header.method # "BOGUS"

\* A build without zlib gives up on compressed content.
UnsupportedHeader(d) ==
    /\ IsGoodHeader(d)
    /\ FirstCell(stream[d]).header.gzip /\ ~withZlib
    /\ Corrupt(d, Parsed(stream[d]))
    /\ UNCHANGED <<withZlib, stats, loop, phase, log>>

Supported(h) == h.gzip => withZlib
CompressedCounter(h) == IF h.gzip THEN {"numCompressed"} ELSE {}
Unzipping(s) == [Parsed(s) EXCEPT !.unzip = FirstCell(s).header.gzip]

\* A response before the first request
OrphanResponse(d) ==
    /\ IsGoodHeader(d)
    /\ LET h == FirstCell(stream[d]).header
       IN  /\ Supported(h)
           /\ h.method = "RESPONSE" /\ stream[Other(d)].header = NoHeader
           /\ stats' = Count("responses", {"numHeaders"} \cup CompressedCounter(h))
    /\ Corrupt(d, Unzipping(stream[d]))
    /\ UNCHANGED <<withZlib, loop, phase, log>>

GoodHeader(d) ==
    /\ IsGoodHeader(d)
    /\ LET s == Unzipping(stream[d])
           o == stream[Other(d)]
           framing == FramingOf(s, s.header)
       IN  /\ Supported(s.header)
           /\ s.isRequest \/ o.header # NoHeader
           /\ stats' = Count(KindOf(s), {"numHeaders"} \cup CompressedCounter(s.header)
                                           \cup CountersFor(framing))
           /\ Tell(d, <<Note("header", IF s.isRequest THEN NoHeader ELSE o.header, s.header, 0)>>)
           /\ stream' = [e \in Dirs |->
                IF e = d
                THEN [s EXCEPT !.headerOnlyRequest = FALSE,
                               !.state = StateAfter(framing),
                               !.contentLength = IF framing = "length" THEN s.header.length ELSE @]
                ELSE [o EXCEPT !.headerOnlyRequest = (s.header.method = "HEAD")]]
    /\ UNCHANGED <<withZlib, loop, phase>>

-----------------------------------------------------------------------------
(* The sections for payload *)

\* handleData(): n cells go to the listeners, each with the latest request.
Traffic(d, n) ==
    LET s == stream[d]
    IN  [i \in 1 .. n |->
            Note(IF s.unzip THEN "unzipped" ELSE "traffic",
                 IF s.isRequest THEN NoHeader ELSE stream[Other(d)].header,
                 s.header, s.buffer[i].n)]

\* GZipDecompress::append() may fail on any piece of payload.
DecompressErrors(d, n) ==
    IF stream[d].unzip /\ n > 0 THEN {{}, {"numDecompressErrors"}} ELSE {{}}

UnknownContent(d) ==
    /\ Works(d, "UNKNOWN_CONTENT")
    /\ LET s == stream[d]
           n == Len(s.buffer)
       IN  /\ \E errors \in DecompressErrors(d, n) : stats' = Count(KindOf(s), errors)
           /\ Tell(d, Traffic(d, n))
           /\ Become(d, [s EXCEPT !.buffer = <<>>, !.contentReceived = @ + n])
    /\ UNCHANGED <<withZlib, loop, phase>>

ChunkSize(d) ==
    /\ Works(d, "CHUNK_SIZE")
    /\ LET s == stream[d]
           end == First(LineEnds(s.buffer))
       IN  Become(d, [s EXCEPT !.chunkLength = ChunkSizeIn(SubSeq(s.buffer, 1, end - 2)),
                               !.buffer = Rest(s.buffer, end),
                               !.state = "CHUNK_DATA"])
    /\ UNCHANGED <<withZlib, stats, loop, phase, log>>

\* The content is complete with its last cell, at once if it is empty.
Content(d) ==
    /\ Works(d, "CONTENT")
    /\ LET s == stream[d]
           n == Least(s.contentLength - s.contentReceived, s.buffer)
           complete == s.contentReceived + n = s.contentLength
       IN  /\ \E errors \in DecompressErrors(d, n) :
                 stats' = Count(KindOf(s), errors \cup (IF complete THEN {"numOK"} ELSE {}))
           /\ Tell(d, Traffic(d, n) \o
                      (IF complete THEN <<Note("done", NoHeader, s.header, 0)>> ELSE <<>>))
           /\ Become(d, IF complete
                        THEN [s EXCEPT !.buffer = Rest(s.buffer, n), !.contentLength = 0,
                                       !.contentReceived = 0, !.state = "HEADER"]
                        ELSE [s EXCEPT !.buffer = Rest(s.buffer, n),
                                       !.contentReceived = s.contentReceived + n])
    /\ UNCHANGED <<withZlib, loop, phase>>

ChunkData(d) ==
    /\ Works(d, "CHUNK_DATA")
    /\ LET s == stream[d]
           n == Least(s.chunkLength - s.contentReceived, s.buffer)
           complete == s.contentReceived + n = s.chunkLength
       IN  /\ \E errors \in DecompressErrors(d, n) : stats' = Count(KindOf(s), errors)
           /\ Tell(d, Traffic(d, n))
           /\ Become(d, [s EXCEPT !.buffer = Rest(s.buffer, n),
                                  !.contentReceived = IF complete THEN 0 ELSE s.contentReceived + n,
                                  !.state = IF complete THEN "CHUNK_END" ELSE s.state])
    /\ UNCHANGED <<withZlib, loop, phase>>

\* Two bytes are dropped, whatever they are; a chunk of size 0 was the last.
ChunkEnd(d) ==
    /\ Works(d, "CHUNK_END")
    /\ LET s == stream[d]
           last == s.chunkLength = 0
       IN  /\ Become(d, [s EXCEPT !.buffer = Rest(s.buffer, 2), !.chunkLength = 0,
                                  !.contentReceived = 0,
                                  !.state = IF last THEN "HEADER" ELSE "CHUNK_SIZE"])
           /\ Tell(d, IF last THEN <<Note("done", NoHeader, s.header, 0)>> ELSE <<>>)
           /\ stats' = Count(KindOf(s), IF last THEN {"numOK"} ELSE {})
    /\ UNCHANGED <<withZlib, loop, phase>>

-----------------------------------------------------------------------------
(* The callbacks of TCPStreamListener *)

Section(d) ==
    \/ StrangeHeader(d) \/ BogusHeader(d) \/ UnsupportedHeader(d) \/ OrphanResponse(d)
    \/ GoodHeader(d)
    \/ UnknownContent(d)
    \/ ChunkSize(d)
    \/ Content(d)
    \/ ChunkData(d)
    \/ ChunkEnd(d)

\* Mutant of Return: check() is called once.
ReturnAtOnce ==
    /\ loop # <<>>
    /\ loop' = Tail(loop)
    /\ UNCHANGED <<withZlib, stream, stats, phase, log>>

\* check() returns false.
Return ==
    /\ loop # <<>>
    /\ ~HasWork(stream[loop[1]])
    /\ loop' = Tail(loop)
    /\ UNCHANGED <<withZlib, stream, stats, phase, log>>

OnData(d, cells) ==
    /\ phase = "open" /\ loop = <<>>
    /\ Become(d, [stream[d] EXCEPT !.buffer = @ \o cells])
    /\ loop' = <<d>>
    /\ UNCHANGED <<withZlib, stats, phase, log>>

\* Content of unknown size ends with the connection.
UnknownEnded(k) ==
    LET ended == {d \in Dirs : stream[d].state = "UNKNOWN_CONTENT" /\ KindOf(stream[d]) = k}
    IN  (IF "in" \in ended THEN 1 ELSE 0) + (IF "out" \in ended THEN 1 ELSE 0)

OnClose ==
    /\ phase = "open" /\ loop = <<>>
    /\ stats' = [k \in Kinds |-> [c \in Counters |->
                    stats[k][c] + (IF c = "numOK" THEN UnknownEnded(k) ELSE 0)]]
    /\ loop' = <<"in", "out">>
    /\ phase' = "closing"
    /\ UNCHANGED <<withZlib, stream, log>>

\* onHttpClose(), and the decoder is deleted.
Closed ==
    /\ phase = "closing" /\ loop = <<>>
    /\ phase' = "closed"
    /\ UNCHANGED <<withZlib, stream, stats, loop, log>>

NewStreamDir ==
    [buffer |-> <<>>, header |-> NoHeader, state |-> "HEADER", contentLength |-> 0,
     chunkLength |-> 0, contentReceived |-> 0, headerOnlyRequest |-> FALSE,
     isRequest |-> FALSE, unzip |-> FALSE]

Init ==
    /\ withZlib \in BOOLEAN
    /\ stream = [d \in Dirs |-> NewStreamDir]
    /\ stats = [k \in Kinds |-> [c \in Counters |-> 0]]
    /\ loop = <<>>
    /\ phase = "open"
    /\ log = [d \in Dirs |-> <<>>]

Handle == (\E d \in Dirs : Section(d)) \/ Return \/ Closed

Next ==
    \/ \E d \in Dirs : \E cells \in Seq(Cell) : OnData(d, cells)
    \/ OnClose
    \/ Handle

Spec == Init /\ [][Next]_vars

-----------------------------------------------------------------------------
(* Types and properties *)

StreamDir ==
    [buffer : Seq(Cell), header : Headers \cup {NoHeader}, state : States,
     contentLength : Nat, chunkLength : Nat, contentReceived : Nat,
     headerOnlyRequest : BOOLEAN, isRequest : BOOLEAN, unzip : BOOLEAN]

\* What a direction counts fits the state it is in: never more than the
\* payload it waits for, and nothing is left of a message when the next
\* header is waited for.
CountersFit(s) ==
    /\ s.state = "HEADER" => s.contentLength = 0 /\ s.chunkLength = 0 /\ s.contentReceived = 0
    /\ s.state = "CONTENT" => s.contentReceived <= s.contentLength /\ s.chunkLength = 0
    /\ s.state = "CHUNK_SIZE" => s.contentReceived = 0 /\ s.chunkLength = 0 /\ s.contentLength = 0
    /\ s.state = "CHUNK_DATA" => s.contentReceived <= s.chunkLength /\ s.contentLength = 0
    /\ s.state = "CHUNK_END" => s.contentReceived = 0 /\ s.contentLength = 0
    /\ s.state \notin {"HEADER", "CORRUPTED"} => s.header # NoHeader

\* Every variable has the type of its C++ counterpart, no uint32_t difference
\* of two counters is below zero, and listeners never get a null header.
TypeOK ==
    /\ withZlib \in BOOLEAN
    /\ stream \in [Dirs -> StreamDir]
    /\ \A d \in Dirs : CountersFit(stream[d])
    /\ stats \in [Kinds -> [Counters -> Nat]]
    /\ loop \in Seq(Dirs)
    /\ phase \in {"open", "closing", "closed"}
    /\ log \in [Dirs -> Seq(Event)]

\* A connection is given up in both directions or in none.
CorruptedTogether ==
    stream["in"].state = "CORRUPTED" <=> stream["out"].state = "CORRUPTED"

\* A connection that was given up stays silent.
CorruptedIsSilent ==
    [][\A d \in Dirs : stream[d].state = "CORRUPTED" =>
          stream'[d].state = "CORRUPTED" /\ log' = log /\ stats' = stats]_vars

\* What is left to do for a while-loop that runs: cells above all, and the
\* sections that may run without taking one
Rank(state) ==
    CASE state \in {"CONTENT", "CHUNK_DATA"} -> 2
      [] state = "CORRUPTED" -> 0
      [] OTHER -> 1
Left(s) == 3 * Len(s.buffer) + Rank(s.state)

\* Every handler returns: whatever is in the buffer, each call of check() that
\* asks to be called again has left less to do, in its own direction, and
\* nothing new for the other one.
LoopEnds ==
    [][loop # <<>> =>
          \/ loop' = Tail(loop)
          \/ /\ loop' = loop
             /\ Left(stream'[loop[1]]) < Left(stream[loop[1]])
             /\ HasWork(stream'[Other(loop[1])]) => HasWork(stream[Other(loop[1])])]_vars

=============================================================================
