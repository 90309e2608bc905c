---------------------------- MODULE HTTPAnalyzer ----------------------------
(***************************************************************************)
(* HTTPAnalyzer (analyzer/): what an HTTPListener makes of the responses   *)
(* of one connection. Each pair of compressor and decompressor that is     *)
(* configured gets the payload, and the Summary counts by content type,    *)
(* apart for answers that came fast ("static") and slowly ("dynamic").     *)
(*                                                                         *)
(* There is one pair of each kind of Codecs, an LZWDict pair for one of    *)
(* the dictionaries and a HuffmanCompress, which has no decompressor. A    *)
(* piece of payload is one byte.                                           *)
(***************************************************************************)
EXTENDS LZWDictCompress, Codecs

CONSTANTS
    ContentTypes,       \* of the responses that have one
    Unknown,            \* what getContentType() says of those that have none
    MaxLatency,         \* maxLatency
    StaticDynamicThreshold,
    WordBits, CodeBits  \* see Huffman

ASSUME AnalyzerAssumption ==
    /\ Unknown \notin ContentTypes
    /\ MaxLatency \in Nat /\ StaticDynamicThreshold \in Nat
    /\ WordBits \in Nat \ {0} /\ CodeBits \in 1 .. WordBits

H == INSTANCE Huffman

VARIABLES
    pair,           \* the dictionary of the LZWDict pair
    tree,           \* the counters the tree of HuffmanCompress is made from
    comp,           \* the compressor of each kind
    decompAt,       \* how much its decompressor has read since it was reset
    back,           \* and given since
    bits,           \* the BitstreamOut of HuffmanCompress
    packed,         \* the words that came out of it since it was opened
    summary,        \* Summary.HTTP.byContentType
    statsByLatency, \* the HTTPStats of the response that is on
    payload         \* its payload

analyzerVars == <<comp, decompAt, back, bits, packed, summary, statsByLatency, payload>>
configVars == <<pair, tree>>

AllTypes == ContentTypes \cup {Unknown}
Classes == {"response", "responseStatic", "responseDynamic"}
Pairs == Kinds \cup {"lzw"}

NewStats == [numHeaders |-> 0, latencies |-> 0, sizePayload |-> 0,
             decompressed |-> [p \in Pairs |-> 0]]
NewContentType == [class \in Classes |-> NewStats]

-----------------------------------------------------------------------------
\* Whatever is counted for a type is counted for its responses, and for those
\* of one class.
Counted(type, class, Change(_)) ==
    [summary EXCEPT !.stats[type]["response"] = Change(@), !.stats[type][class] = Change(@)]

\* What came out of each decompressor adds to its size.
Sized(stats, pieces) ==
    [stats EXCEPT !.decompressed = [p \in Pairs |-> @[p] + Len(pieces[p])]]

\* The pairs of Codecs, after calls with these results
Passed(results) ==
    LET bytes == [k \in Kinds |-> Decompressed(k, decompAt[k], results[k])]
    IN  /\ comp' = [k \in Kinds |-> results[k].comp]
        /\ decompAt' = [k \in Kinds |-> decompAt[k] + Len(bytes[k])]
        /\ back' = [k \in Kinds |-> back[k] \o bytes[k]]

\* What the decompressors have given with this call
Pieces ==
    [p \in Pairs |-> IF p = "lzw" THEN SubSeq(given'[pair], Len(given[pair]) + 1, Len(given'[pair]))
                     ELSE SubSeq(back'[p], Len(back[p]) + 1, Len(back'[p]))]

-----------------------------------------------------------------------------
(* The callbacks of HTTPListener *)

\* Mutant of OpenCompressors: no reset().
OpenCompressorsOnly ==
    /\ comp' = [k \in Kinds |-> Opened(comp[k])]
    /\ decompAt' = [k \in Kinds |-> 0]
    /\ back' = [k \in Kinds |-> <<>>]
    /\ Open(pair)
    /\ bits' = H!EmptyStream
    /\ packed' = <<>>

\* openCompressors()
OpenCompressors ==
    /\ comp' = [k \in Kinds |-> Opened(Reset(comp[k]))]
    /\ decompAt' = [k \in Kinds |-> 0]
    /\ back' = [k \in Kinds |-> <<>>]
    /\ Open(pair)
    /\ bits' = H!EmptyStream
    /\ packed' = <<>>

OnHttpResponse(type, latency) ==
    LET class == IF latency < StaticDynamicThreshold THEN "responseStatic" ELSE "responseDynamic"
        answer(stats) == [stats EXCEPT !.numHeaders = @ + 1,
                                       !.latencies = @ + (IF latency <= MaxLatency THEN 1 ELSE 0)]
    IN  /\ OpenCompressors
        /\ statsByLatency' = [type |-> type, class |-> class]
        /\ summary' = Counted(type, class, answer)
        /\ payload' = <<>>

\* appendToCompressors() and HuffmanCompress::append()
AppendToCompressors(b) ==
    /\ \E results \in [Kinds -> UNION {Appended(k, comp[k], b) : k \in Kinds}] :
          /\ \A k \in Kinds : results[k] \in Appended(k, comp[k], b)
          /\ Passed(results)
    /\ Compress(pair, b)
    /\ LET stream == H!Encoded(H!Table(tree), bits, b)
       IN  packed' = packed \o stream.words /\ bits' = H!Rewound(stream)

OnHttpResponseTraffic(b) ==
    /\ AppendToCompressors(b)
    /\ LET receive(stats) == Sized([stats EXCEPT !.sizePayload = @ + 1], Pieces)
       IN  summary' = [Counted(statsByLatency.type, statsByLatency.class, receive)
                          EXCEPT !.counter[statsByLatency.type][b] = @ + 1]
    /\ payload' = Append(payload, b)
    /\ UNCHANGED statsByLatency

\* closeCompressors() and HuffmanCompress::close()
CloseCompressors ==
    /\ Passed([k \in Kinds |-> Closed(comp[k])])
    /\ Close(pair)
    /\ \E stream \in H!Flushed(bits) :
          packed' = packed \o stream.words /\ bits' = H!EmptyStream

\* Mutant of OnHttpDone: the end is counted for slow answers.
OnHttpDoneSlow(type) ==
    IF type = Unknown THEN UNCHANGED <<analyzerVars, pairVars>>
    ELSE /\ CloseCompressors
         /\ LET end(stats) == Sized(stats, Pieces)
            IN  summary' = Counted(type, "responseDynamic", end)
         /\ UNCHANGED <<statsByLatency, payload>>

\* onHttpDone(), of a response: without a content type, nothing is closed.
OnHttpDone(type) ==
    IF type = Unknown THEN UNCHANGED <<analyzerVars, pairVars>>
    ELSE /\ CloseCompressors
         /\ LET end(stats) == Sized(stats, Pieces)
            IN  summary' = Counted(type, statsByLatency.class, end)
         /\ UNCHANGED <<statsByLatency, payload>>

\* Mutant of OnHttpClose: the pairs serve the next connection, too, and only
\* their states are cleared.
OnHttpCloseOnly ==
    /\ comp' = [k \in Kinds |-> ClosedCompressor]
    /\ coder' = [coder EXCEPT ![pair] = [node |-> Root(pair), out |-> <<>>]]
    /\ bits' = H!EmptyStream
    /\ UNCHANGED <<decompAt, back, packed, taken, given, payload, summary, statsByLatency>>

\* onHttpClose() deletes the analyzer; the next connection has another one,
\* whose compressors are copies of the prototypes.
OnHttpClose ==
    /\ comp' = [k \in Kinds |-> ClosedCompressor]
    /\ decompAt' = [k \in Kinds |-> 0]
    /\ back' = [k \in Kinds |-> <<>>]
    /\ Create(pair)
    /\ bits' = H!EmptyStream
    /\ packed' = <<>>
    /\ payload' = <<>>
    /\ UNCHANGED <<summary, statsByLatency>>

AnalyzerInit ==
    /\ PairInit
    /\ comp = [k \in Kinds |-> ClosedCompressor]
    /\ decompAt = [k \in Kinds |-> 0]
    /\ back = [k \in Kinds |-> <<>>]
    /\ bits = H!EmptyStream
    /\ packed = <<>>
    /\ summary = [stats |-> [type \in AllTypes |-> NewContentType],
                  counter |-> [type \in AllTypes |-> H!EmptyCounter(TRUE)]]
    /\ statsByLatency \in [type : {Unknown}, class : {"response"}]  \* no response yet
    /\ payload = <<>>

=============================================================================
