---------------------------- MODULE HTTPExchange ----------------------------
(***************************************************************************)
(* HTTPDecoder on the two byte streams of an HTTP connection: requests and *)
(* responses, encoded as HTTP/1.1 says and cut into segments anywhere.     *)
(* Both directions come from a sniffer, so how their segments interleave   *)
(* is one of                                                               *)
(*   "sequential"  the client waits for a response before it goes on,      *)
(*   "pipelined"   it does not, but no response precedes its request,      *)
(*   "any"         the segments of one direction may be seen late.         *)
(***************************************************************************)
EXTENDS HTTPDecoder, SequencesExt

CONSTANTS
    Exchanges,  \* what is sent: [requests, responses, order, withZlib]
    Chunks      \* the sizes of the chunks of a chunked message

ASSUME ExchangesAssumption ==
    Exchanges \subseteq [requests : Seq(Headers), responses : Seq(Headers),
                         order : {"sequential", "pipelined", "any"}, withZlib : BOOLEAN]

\* A chunk of size 0 is the last one, and added to those.
ASSUME ChunksAssumption == Chunks \in Seq(Nat \ {0})

VARIABLES
    exchange,   \* what this connection sends
    sent        \* how many cells of each direction have been captured

exchangeVars == <<vars, exchange, sent>>

-----------------------------------------------------------------------------
(* A message on the wire: a sequence of cells, each with the events that a *)
(* listener may expect once the cell has come.                             *)

Wired(kind, header, n, events) ==
    [cell |-> [kind |-> kind, header |-> header, n |-> n], events |-> events]

Plain(kind) == Wired(kind, NoHeader, 0, <<>>)

\* The request of exchange x that the response h answers
Asked(x, h) == IF h.method = "RESPONSE" THEN x.requests[h.nr] ELSE NoHeader

\* Does payload follow the header h, and what ends it?
Framing(x, h) ==
    IF h.method = "RESPONSE" /\ Asked(x, h).method = "HEAD" THEN "none"
    ELSE IF h.chunked THEN "chunked"
    ELSE IF h.length # NoLength THEN "length"
    ELSE IF h.close THEN "close"
    ELSE "none"

Finished(h) == Note("done", NoHeader, h, 0)

Heading(x, h) ==
    <<Wired("head", h, 0, <<>>), Plain("cr"), Plain("lf"), Plain("cr"),
      Wired("lf", NoHeader, 0,
            <<Note("header", Asked(x, h), h, 0)>>
              \o (IF Framing(x, h) = "length" /\ h.length = 0 THEN <<Finished(h)>> ELSE <<>>))>>

Piece(x, h, i, last) ==
    Wired("data", NoHeader, i,
          <<Note(IF h.gzip THEN "unzipped" ELSE "traffic", Asked(x, h), h, i)>>
            \o (IF last THEN <<Finished(h)>> ELSE <<>>))

Chunk(x, h, n) ==
    <<Wired("size", NoHeader, n, <<>>), Plain("cr"), Plain("lf")>>
      \o [i \in 1 .. n |-> Piece(x, h, i, FALSE)]
      \o <<Plain("cr"), IF n > 0 THEN Plain("lf") ELSE Wired("lf", NoHeader, 0, <<Finished(h)>>)>>

\* A body that ends with the connection has two cells.
Body(x, h) ==
    CASE Framing(x, h) = "length" -> [i \in 1 .. h.length |-> Piece(x, h, i, i = h.length)]
      [] Framing(x, h) = "chunked" ->
            FlattenSeq([k \in DOMAIN Chunks |-> Chunk(x, h, Chunks[k])]) \o Chunk(x, h, 0)
      [] Framing(x, h) = "close" /\ h.method = "RESPONSE" -> [i \in 1 .. 2 |-> Piece(x, h, i, FALSE)]
      [] OTHER -> <<>>

MessagesOf(x, d) == IF d = "in" THEN x.requests ELSE x.responses

\* What direction d of x carries up to its k-th message
WireUpTo(x, d, k) ==
    FlattenSeq([j \in 1 .. k |-> LET h == MessagesOf(x, d)[j] IN Heading(x, h) \o Body(x, h)])

\* The wire of every exchange, where its messages end, and the events that
\* are due with the first n cells
Wires == [x \in Exchanges |-> [d \in Dirs |-> WireUpTo(x, d, Len(MessagesOf(x, d)))]]
EndsOf == [x \in Exchanges |-> [d \in Dirs |->
              [k \in 0 .. Len(MessagesOf(x, d)) |-> Len(WireUpTo(x, d, k))]]]
DueWith == [x \in Exchanges |-> [d \in Dirs |->
              [n \in 0 .. Len(Wires[x][d]) |-> FlattenSeq([i \in 1 .. n |-> Wires[x][d][i].events])]]]

Messages(d) == MessagesOf(exchange, d)
Wire(d) == Wires[exchange][d]
Ends(d) == EndsOf[exchange][d]

\* The number of messages of direction d that have been captured to their end
Complete(d) == CHOOSE k \in DOMAIN Ends(d) :
                  /\ Ends(d)[k] <= sent[d]
                  /\ k + 1 \in DOMAIN Ends(d) => Ends(d)[k + 1] > sent[d]

\* What two ends do that agree with each other: messages are numbered in their
\* order, each response answers a request, no message has two ways to end, what
\* only ends with the connection comes last, and after HEAD a client waits.
Conforms(x) ==
    /\ \A k \in DOMAIN x.requests : x.requests[k].nr = k /\ x.requests[k].method # "RESPONSE"
    /\ \A k \in DOMAIN x.responses : x.responses[k].nr = k /\ x.responses[k].method = "RESPONSE"
    /\ Len(x.responses) <= Len(x.requests)
    /\ \A d \in Dirs : \A k \in DOMAIN MessagesOf(x, d) :
          LET h == MessagesOf(x, d)[k]
          IN  /\ ~(h.chunked /\ h.length # NoLength)
              /\ k < Len(MessagesOf(x, d)) => Framing(x, h) # "close"
    /\ (\E k \in DOMAIN x.requests : x.requests[k].method = "HEAD") => x.order = "sequential"

Conforming == \A x \in Exchanges : Conforms(x)

-----------------------------------------------------------------------------
(* What is captured *)

\* How far direction d may get
Limit(d) ==
    IF exchange.order = "any" \/ (exchange.order = "pipelined" /\ d = "in")
    THEN Len(Wire(d))
    ELSE LET k == IF d = "in" THEN Complete("out") + 1 ELSE Complete("in")
         IN  Ends(d)[IF k \in DOMAIN Ends(d) THEN k ELSE Len(Messages(d))]

Capture(d) ==
    \E n \in sent[d] + 1 .. Limit(d) :
        /\ OnData(d, [i \in 1 .. n - sent[d] |-> Wire(d)[sent[d] + i].cell])
        /\ sent' = [sent EXCEPT ![d] = n]
        /\ UNCHANGED exchange

Decode == Handle /\ UNCHANGED <<exchange, sent>>

Close == OnClose /\ UNCHANGED <<exchange, sent>>

ExchangeInit ==
    /\ exchange \in Exchanges
    /\ Init
    /\ withZlib = exchange.withZlib
    /\ sent = [d \in Dirs |-> 0]

ExchangeNext == (\E d \in Dirs : Capture(d)) \/ Close \/ Decode

ExchangeSpec == ExchangeInit /\ [][ExchangeNext]_exchangeVars

-----------------------------------------------------------------------------
(* Properties *)

IsCorrupted == stream["in"].state = "CORRUPTED"

\* The events due with what has been captured of direction d
Due(d) == DueWith[exchange][d][sent[d]]

\* The same without the requests that responses are told with
Unpaired(events) == [i \in DOMAIN events |-> [events[i] EXCEPT !.request = NoHeader]]

\* Wherever the streams are cut, between handlers the listeners know exactly
\* what has come: each header, each byte of payload and each end of a message,
\* in order and once. A connection that is given up was told right until then.
DecodedAsSent ==
    /\ \A d \in Dirs : loop = <<>> /\ ~IsCorrupted =>
          Unpaired(log[d]) = Unpaired(Due(d))
    /\ \A d \in Dirs : IsPrefix(Unpaired(log[d]), Unpaired(Due(d)))

\* As long as the client waits for each response, it is the request that a
\* response answers that listeners are told with it and all of its payload.
AnswersItsRequest ==
    exchange.order = "sequential" =>
        \A d \in Dirs : IsPrefix(log[d], Due(d))

\* A connection is only given up for a reason: a header that is strange,
\* bogus or not supported, or a response seen before the first request.
GivenUpForAReason ==
    IsCorrupted =>
        \/ \E d \in Dirs : \E k \in DOMAIN Messages(d) :
              LET h == Messages(d)[k]
              IN  h.strange \/ h.method = "BOGUS" \/ (h.gzip /\ ~withZlib)
        \/ exchange.order = "any" /\ log["in"] = <<>>

HeadersTold(d) == {i \in DOMAIN log[d] : log[d][i].what = "header"}

\* The statistics say what happened: each header told is counted once and
\* under one kind of payload, and numOK are those that were processed to
\* their end, which for payload of unknown size is the end of the connection.
StatsTellMessages ==
    \A d \in Dirs :
        LET k == IF d = "in" THEN "requests" ELSE "responses"
            told == {log[d][i].header : i \in HeadersTold(d)}
            over == {h \in told : \E n \in 0 .. Complete(d) : n > 0 /\ Messages(d)[n] = h}
            endless == {h \in told : Framing(exchange, h) = "close"}
        IN  loop = <<>> /\ ~IsCorrupted =>
              /\ stats[k]["numHeaders"] = Cardinality(told)
              /\ stats[k]["numNormal"] + stats[k]["numChunked"] + stats[k]["numUnkownSize"]
                    + stats[k]["numWithoutPayload"] = Cardinality(told)
              /\ stats[k]["numOK"] = Cardinality(over \ endless)
                    + (IF phase = "open" THEN 0 ELSE Cardinality(endless))

\* Once onClose() runs, the data was processed already and the connection ends.
CloseFinds ==
    phase # "open" => \A d \in Dirs : ~HasWork(stream[d])

\* Only the header of the response to a HEAD request is told, as the response
\* has no payload.
HeadHasNoPayload ==
    \A i \in DOMAIN log["out"] :
        log["out"][i].what # "header" => Asked(exchange, log["out"][i].header).method # "HEAD"

=============================================================================
