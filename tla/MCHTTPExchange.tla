--------------------------- MODULE MCHTTPExchange ---------------------------
(* Connections of two requests and their responses.                        *)
EXTENDS HTTPExchange

Sent(nr, method, length) ==
    [nr |-> nr, method |-> method, strange |-> FALSE, length |-> length,
     chunked |-> FALSE, close |-> FALSE, gzip |-> FALSE]

Requests(nr) ==
    {Sent(nr, "GET", NoLength), Sent(nr, "HEAD", NoLength), Sent(nr, "POST", 2)}

LastRequests(nr) ==
    {Sent(nr, "GET", 0), [Sent(nr, "GET", NoLength) EXCEPT !.close = TRUE],
     Sent(nr, "BOGUS", NoLength)}

Responses(nr) ==
    {Sent(nr, "RESPONSE", 0), Sent(nr, "RESPONSE", 2),
     [Sent(nr, "RESPONSE", NoLength) EXCEPT !.chunked = TRUE]}

LastResponses(nr) ==
    {Sent(nr, "RESPONSE", NoLength),
     [Sent(nr, "RESPONSE", NoLength) EXCEPT !.close = TRUE, !.gzip = TRUE],
     [Sent(nr, "RESPONSE", 1) EXCEPT !.close = TRUE],
     [Sent(nr, "RESPONSE", NoLength) EXCEPT !.strange = TRUE]}

MCHeaders == Requests(1) \cup Responses(1) \cup LastRequests(2) \cup LastResponses(2)

\* HEAD requests only where the client waits for the response.
MCExchanges ==
    {[requests |-> <<q1, q2>>, responses |-> <<r1, r2>>, order |-> o, withZlib |-> z] :
        q1 \in Requests(1), q2 \in LastRequests(2), r1 \in Responses(1), r2 \in LastResponses(2),
        o \in {"sequential", "pipelined", "any"}, z \in BOOLEAN}

MCSound == {x \in MCExchanges :
    /\ x.withZlib \/ x.responses[2].gzip
    /\ x.requests[1].method = "HEAD" => x.order = "sequential"}

\* The theorems about conversations speak of these.
ASSUME ConformingAssumption == \A x \in MCSound : Conforms(x)

\* HEAD, then GET before the response to the first
MCPipelinedHead == {x \in MCExchanges :
    /\ x.requests[1].method = "HEAD" /\ x.requests[2].method = "GET"
    /\ x.responses[1].length = 2 /\ x.order = "pipelined" /\ x.withZlib}

MCChunks == <<2, 1>>

=============================================================================
