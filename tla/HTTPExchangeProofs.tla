------------------------- MODULE HTTPExchangeProofs -------------------------
(***************************************************************************)
(* Proofs about HTTPDecoder and HTTPExchange. Of the decoder alone, for    *)
(* any headers and any bytes, cut anywhere: its types, and that it goes    *)
(* on. Of a conversation of two ends that agree with each other, of any    *)
(* length and cut anywhere: that the listeners are told what was sent.     *)
(*                                                                         *)
(* What is sent is described first, cell by cell, and what is right of one *)
(* direction; then each section of check() keeps its direction right, and  *)
(* what comes keeps the two directions in turn. The invariant IInv says so *)
(* of the whole connection, and the properties follow from it.             *)
(***************************************************************************)
EXTENDS HTTPExchange, SequenceLemmas, FiniteSetTheorems

-----------------------------------------------------------------------------
(* The buffer *)

\* What a search finds in a buffer lies inside of it.
LEMMA Search ==
    ASSUME NEW b \in Seq(Cell)
    PROVE  /\ LineEnds(b) # {} => First(LineEnds(b)) \in 2 .. Len(b)
           /\ HeaderEnds(b) # {} => First(HeaderEnds(b)) \in 4 .. Len(b)
  <1>1. Len(b) \in Nat
    BY LenProperties
  <1>2. LineEnds(b) \subseteq 2 .. Len(b)
    BY <1>1 DEF LineEnds, IsLineEnd
  <1>3. HeaderEnds(b) \subseteq 4 .. Len(b)
    BY <1>1, <1>2 DEF HeaderEnds
  <1>4. ASSUME NEW S, S \subseteq Nat, S # {}
        PROVE  First(S) \in S
    BY <1>4, LeastExists DEF First
  <1>5. LineEnds(b) # {} => First(LineEnds(b)) \in LineEnds(b)
    BY <1>1, <1>2, <1>4
  <1>6. HeaderEnds(b) # {} => First(HeaderEnds(b)) \in HeaderEnds(b)
    BY <1>1, <1>3, <1>4
  <1>7. QED
    BY <1>2, <1>3, <1>5, <1>6

\* What stays in a buffer is shorter by what was taken.
LEMMA RestOK ==
    ASSUME NEW b \in Seq(Cell), NEW n \in 0 .. Len(b)
    PROVE  /\ Rest(b, n) \in Seq(Cell)
           /\ Len(Rest(b, n)) = Len(b) - n
  <1>1. Len(b) \in Nat
    BY LenProperties
  <1>2. \A i \in n + 1 .. Len(b) : b[i] \in Cell
    BY <1>1, ElementOfSeq
  <1>3. /\ SubSeq(b, n + 1, Len(b)) \in Seq(Cell)
        /\ Len(SubSeq(b, n + 1, Len(b))) = IF n + 1 <= Len(b) THEN Len(b) - (n + 1) + 1 ELSE 0
    BY <1>1, <1>2, SubSeqProperties
  <1>4. QED
    BY <1>1, <1>3 DEF Rest

\* The size of a chunk is a number, whatever the line says.
LEMMA ChunkSizeOK ==
    ASSUME NEW b \in Seq(Cell), NEW n \in Int, n <= Len(b)
    PROVE  ChunkSizeIn(SubSeq(b, 1, n)) \in Nat
  <1>1. Len(b) \in Nat
    BY LenProperties
  <1>2. \A i \in 1 .. n : b[i] \in Cell
    BY <1>1, ElementOfSeq
  <1>3. SubSeq(b, 1, n) \in Seq(Cell)
    BY <1>2, SubSeqProperties
  <1>4. Len(SubSeq(b, 1, n)) > 0 => SubSeq(b, 1, n)[1] \in Cell
    BY <1>3, ElementOfSeq, LenProperties
  <1>5. QED
    BY <1>4 DEF ChunkSizeIn, Cell

-----------------------------------------------------------------------------
(* What the sections hand over *)

\* A direction of the right type, whose counters fit its state
OKDir(s) == s \in StreamDir /\ CountersFit(s)

\* The parts of a state the sections start from
LEMMA StateOK ==
    ASSUME TypeOK, NEW d \in Dirs
    PROVE  /\ OKDir(stream[d])
           /\ stream[d].buffer \in Seq(Cell)
           /\ Len(stream[d].buffer) \in Nat
           /\ Other(d) \in Dirs /\ Other(d) # d
           /\ KindOf(stream[d]) \in Kinds
  <1>1. stream[d] \in StreamDir
    BY DEF TypeOK
  <1>2. stream[d].buffer \in Seq(Cell)
    BY <1>1 DEF StreamDir
  <1>3. QED
    BY <1>1, <1>2, LenProperties DEF TypeOK, OKDir, Dirs, Other, KindOf, Kinds

\* Counters only go up.
LEMMA CountOK ==
    ASSUME TypeOK, NEW k \in Kinds, NEW cs
    PROVE  Count(k, cs) \in [Kinds -> [Counters -> Nat]]
  <1>1. [c \in Counters |-> stats[k][c] + (IF c \in cs THEN 1 ELSE 0)] \in [Counters -> Nat]
    BY DEF TypeOK
  <1>2. QED
    BY <1>1 DEF Count, TypeOK

\* What is told are events.
LEMMA TellOK ==
    ASSUME TypeOK, NEW d \in Dirs, NEW events \in Seq(Event), Tell(d, events)
    PROVE  log' \in [Dirs -> Seq(Event)]
  <1>1. log[d] \in Seq(Event)
    BY DEF TypeOK
  <1>2. log[d] \o events \in Seq(Event)
    BY <1>1, ConcatProperties
  <1>3. QED
    BY <1>2 DEF Tell, TypeOK

\* Reporting to the traffic callback adds events and moves no other state.
LEMMA TrafficOK ==
    ASSUME TypeOK, NEW d \in Dirs, NEW n \in 0 .. Len(stream[d].buffer)
    PROVE  Traffic(d, n) \in Seq(Event)
  <1>1. \A e \in Dirs : stream[e].header \in Headers \cup {NoHeader}
    BY DEF TypeOK, StreamDir
  <1>2. ASSUME NEW i \in 1 .. n
        PROVE  stream[d].buffer[i].n \in Nat
    <2>1. stream[d].buffer \in Seq(Cell) /\ Len(stream[d].buffer) \in Nat
      BY StateOK
    <2>2. i \in 1 .. Len(stream[d].buffer)
      BY <2>1
    <2>3. stream[d].buffer[i] \in Cell
      BY <2>1, <2>2, ElementOfSeq
    <2>4. QED
      BY <2>3 DEF Cell
  <1>3. \A i \in 1 .. n :
          Note(IF stream[d].unzip THEN "unzipped" ELSE "traffic",
               IF stream[d].isRequest THEN NoHeader ELSE stream[Other(d)].header,
               stream[d].header, stream[d].buffer[i].n) \in Event
    BY <1>1, <1>2, StateOK DEF Note, Event
  <1>4. n \in Nat
    BY StateOK
  <1>5. QED
    BY <1>3, <1>4 DEF Traffic

\* A direction that changed alone
LEMMA BecomeOK ==
    ASSUME TypeOK, NEW d \in Dirs, NEW s, OKDir(s), Become(d, s)
    PROVE  /\ stream' \in [Dirs -> StreamDir]
           /\ \A e \in Dirs : CountersFit(stream'[e])
           /\ stream'[d] = s
           /\ stream'[Other(d)] = stream[Other(d)]
  BY StateOK DEF Become, TypeOK, OKDir

\* A connection that is given up
LEMMA CorruptOK ==
    ASSUME TypeOK, NEW d \in Dirs, NEW s \in StreamDir, Corrupt(d, s)
    PROVE  /\ stream' \in [Dirs -> StreamDir]
           /\ \A e \in Dirs : CountersFit(stream'[e])
           /\ \A e \in Dirs : stream'[e].state = "CORRUPTED"
           /\ stream'[d].buffer = s.buffer
  <1>1. \A e \in Dirs : (IF e = d THEN s ELSE stream[e]) \in StreamDir
    BY DEF TypeOK
  <1>2. \A t \in StreamDir : [t EXCEPT !.state = "CORRUPTED"] \in StreamDir
                             /\ [t EXCEPT !.state = "CORRUPTED"].state = "CORRUPTED"
                             /\ [t EXCEPT !.state = "CORRUPTED"].buffer = t.buffer
    BY DEF StreamDir, States
  <1>3. ASSUME NEW e \in Dirs
        PROVE  /\ stream'[e] \in StreamDir
               /\ stream'[e].state = "CORRUPTED"
    <2>1. stream'[e] = [(IF e = d THEN s ELSE stream[e]) EXCEPT !.state = "CORRUPTED"]
      BY DEF Corrupt
    <2>2. QED
      BY <1>1, <1>2, <2>1
  <1>4. stream'[d].buffer = s.buffer
    BY <1>1, <1>2 DEF Corrupt
  <1>5. stream' \in [Dirs -> StreamDir]
    BY <1>3 DEF Corrupt
  <1>6. \A e \in Dirs : CountersFit(stream'[e])
    BY <1>3 DEF CountersFit
  <1>7. QED
    BY <1>3, <1>4, <1>5, <1>6

-----------------------------------------------------------------------------
(* What every section does to the directions, and with it to the loop      *)

\* A section gives up, or leaves less to do, and gives the other direction no work.
Progress(d) ==
    /\ Left(stream'[d]) < Left(stream[d])
    /\ HasWork(stream'[Other(d)]) => HasWork(stream[Other(d)])
    /\ \/ \A e \in Dirs : stream'[e].state = "CORRUPTED"
       \/ /\ stream'[d].state # "CORRUPTED"
          /\ stream'[Other(d)].state = stream[Other(d)].state

\* How the states are ranked
LEMMA Ranks ==
    /\ Rank("CORRUPTED") = 0
    /\ \A state \in {"HEADER", "UNKNOWN_CONTENT", "CHUNK_SIZE", "CHUNK_END"} : Rank(state) = 1
    /\ \A state \in {"CONTENT", "CHUNK_DATA"} : Rank(state) = 2
  BY DEF Rank

\* Giving up is progress: a direction that is corrupted has nothing to do.
LEMMA GivingUp ==
    ASSUME TypeOK, NEW d \in Dirs, stream[d].state = "HEADER",
           NEW s \in StreamDir, Len(s.buffer) <= Len(stream[d].buffer), Corrupt(d, s)
    PROVE  /\ stream' \in [Dirs -> StreamDir]
           /\ \A e \in Dirs : CountersFit(stream'[e])
           /\ Progress(d)
  <1>1. /\ stream' \in [Dirs -> StreamDir]
        /\ \A e \in Dirs : CountersFit(stream'[e])
        /\ \A e \in Dirs : stream'[e].state = "CORRUPTED"
        /\ stream'[d].buffer = s.buffer
    BY CorruptOK
  <1>2. Len(s.buffer) \in Nat
    BY LenProperties DEF StreamDir
  <1>3. Left(stream'[d]) < Left(stream[d])
    <2>1. Left(stream'[d]) = 3 * Len(s.buffer) + 0
      BY <1>1, Ranks DEF Left
    <2>2. Left(stream[d]) = 3 * Len(stream[d].buffer) + 1
      BY Ranks DEF Left
    <2>3. QED
      BY <1>2, <2>1, <2>2, StateOK
  <1>4. ~HasWork(stream'[Other(d)])
    BY <1>1, StateOK DEF HasWork
  <1>5. QED
    BY <1>1, <1>3, <1>4 DEF Progress

\* A direction that goes on alone makes progress if less is left for it.
LEMMA GoingOn ==
    ASSUME TypeOK, NEW d \in Dirs, NEW s, OKDir(s), Become(d, s),
           s.state # "CORRUPTED", Left(s) < Left(stream[d])
    PROVE  /\ stream' \in [Dirs -> StreamDir]
           /\ \A e \in Dirs : CountersFit(stream'[e])
           /\ Progress(d)
  BY BecomeOK DEF Progress

\* A header in the buffer, and what is left when it is taken
LEMMA HeaderTaken ==
    ASSUME TypeOK, NEW d \in Dirs, Works(d, "HEADER")
    PROVE  LET s == stream[d]
           IN  /\ FirstCell(s) \in Cell
               /\ Taken(s) \in StreamDir /\ Parsed(s) \in StreamDir
               /\ \A t \in {Taken(s), Parsed(s)} :
                     /\ t.header = FirstCell(s).header
                     /\ t.state = "HEADER"
                     /\ t.contentLength = 0 /\ t.chunkLength = 0 /\ t.contentReceived = 0
                     /\ Len(t.buffer) \in Nat /\ Len(t.buffer) < Len(s.buffer)
  <1> DEFINE s == stream[d]
             e == HeaderEnd(s)
             b == s.buffer
             t1 == Taken(s)
             t2 == Parsed(s)
  <1>1. s \in StreamDir /\ CountersFit(s) /\ b \in Seq(Cell) /\ Len(b) \in Nat
    BY StateOK DEF OKDir
  <1>2. s.state = "HEADER" /\ HeaderEnds(b) # {}
    BY DEF Works, HasWork
  <1>3. e \in 4 .. Len(b)
    BY <1>1, <1>2, Search DEF HeaderEnd
  <1>4. FirstCell(s) \in Cell
    BY <1>1, <1>3, ElementOfSeq DEF FirstCell
  <1>5. Rest(b, e) \in Seq(Cell) /\ Len(Rest(b, e)) = Len(b) - e
    BY <1>1, <1>3, RestOK, SMTT(60)
  <1>6. FirstCell(s).header \in Headers \cup {NoHeader}
    BY <1>4 DEF Cell
  <1>7. s.contentLength = 0 /\ s.chunkLength = 0 /\ s.contentReceived = 0
    BY <1>1, <1>2 DEF CountersFit
  <1>8. /\ t1 \in StreamDir /\ t1.header = FirstCell(s).header /\ t1.state = "HEADER"
        /\ t1.contentLength = 0 /\ t1.chunkLength = 0 /\ t1.contentReceived = 0
        /\ t1.buffer = Rest(b, e)
    BY <1>1, <1>2, <1>5, <1>6, <1>7 DEF Taken, StreamDir
  <1>9. t2 = [t1 EXCEPT !.isRequest = FirstCell(s).header.method # "RESPONSE"]
    BY DEF Parsed
  <1>10. /\ t2 \in StreamDir /\ t2.header = FirstCell(s).header /\ t2.state = "HEADER"
         /\ t2.contentLength = 0 /\ t2.chunkLength = 0 /\ t2.contentReceived = 0
         /\ t2.buffer = Rest(b, e)
    <2> HIDE DEF t1
    <2>1. QED
      BY <1>8, <1>9 DEF StreamDir
  <1>11. QED
    <2> HIDE DEF t1, t2, s, e, b
    <2>1. Len(Rest(b, e)) \in Nat /\ Len(Rest(b, e)) < Len(b)
      BY <1>1, <1>3, <1>5
    <2>2. \A t \in {t1, t2} :
             /\ t.header = FirstCell(s).header
             /\ t.state = "HEADER"
             /\ t.contentLength = 0 /\ t.chunkLength = 0 /\ t.contentReceived = 0
             /\ Len(t.buffer) \in Nat /\ Len(t.buffer) < Len(b)
      BY <1>8, <1>10, <2>1
    <2>3. QED
      BY <1>4, <1>8, <1>10, <2>2, Zenon DEF t1, t2, s, b

\* A good header tells whether its payload is compressed.
LEMMA HeaderGood ==
    ASSUME TypeOK, NEW d \in Dirs, IsGoodHeader(d)
    PROVE  LET s == Unzipping(stream[d])
           IN  /\ FirstCell(stream[d]).header \in Headers
               /\ s \in StreamDir
               /\ s.header = FirstCell(stream[d]).header
               /\ s.isRequest = (s.header.method # "RESPONSE")
               /\ s.state = "HEADER"
               /\ s.contentLength = 0 /\ s.chunkLength = 0 /\ s.contentReceived = 0
               /\ Len(s.buffer) \in Nat /\ Len(s.buffer) < Len(stream[d].buffer)
  <1> DEFINE t == Parsed(stream[d])
             h == FirstCell(stream[d]).header
             s == Unzipping(stream[d])
  <1>1. /\ FirstCell(stream[d]) \in Cell
        /\ t \in StreamDir
        /\ t.header = h
        /\ t.state = "HEADER"
        /\ t.contentLength = 0 /\ t.chunkLength = 0 /\ t.contentReceived = 0
        /\ Len(t.buffer) \in Nat /\ Len(t.buffer) < Len(stream[d].buffer)
    BY HeaderTaken DEF IsGoodHeader
  <1>2. h \in Headers
    BY <1>1 DEF Cell, IsGoodHeader
  <1>3. h.gzip \in BOOLEAN
    BY <1>2, HeadersAssumption
  <1>4. t.isRequest = (h.method # "RESPONSE")
    <2>1. Taken(stream[d]) \in StreamDir
      BY HeaderTaken DEF IsGoodHeader
    <2>2. QED
      BY <2>1 DEF Parsed, StreamDir
  <1>5. s = [t EXCEPT !.unzip = h.gzip]
    BY DEF Unzipping
  <1>6. /\ s \in StreamDir
        /\ s.header = t.header /\ s.isRequest = t.isRequest /\ s.state = t.state
        /\ s.contentLength = t.contentLength /\ s.chunkLength = t.chunkLength
        /\ s.contentReceived = t.contentReceived /\ s.buffer = t.buffer
    <2> HIDE DEF t, h, s
    <2>1. QED
      BY <1>1, <1>3, <1>5 DEF StreamDir
  <1>7. QED
    <2> HIDE DEF t, h, s
    <2>1. QED
      BY <1>1, <1>2, <1>4, <1>6 DEF s, h

-----------------------------------------------------------------------------
(* One lemma for each section: types are kept, and less is left to do.     *)

\* A header that is no HTTP header empties the buffer of its direction.
LEMMA StrangeHeaderStep ==
    ASSUME TypeOK, NEW d \in Dirs, StrangeHeader(d)
    PROVE  TypeOK' /\ Progress(d)
  <1>1. stream[d] \in StreamDir /\ stream[d].state = "HEADER"
        /\ Len(stream[d].buffer) <= Len(stream[d].buffer)
    BY StateOK DEF StrangeHeader, Works, OKDir
  <1>2. /\ stream' \in [Dirs -> StreamDir]
        /\ \A e \in Dirs : CountersFit(stream'[e])
        /\ Progress(d)
    BY <1>1, GivingUp DEF StrangeHeader
  <1>3. QED
    BY <1>2 DEF StrangeHeader, TypeOK

\* A header with a content length that makes no sense gives the connection up.
LEMMA BogusHeaderStep ==
    ASSUME TypeOK, NEW d \in Dirs, BogusHeader(d)
    PROVE  TypeOK' /\ Progress(d)
  <1>1. Works(d, "HEADER") /\ stream[d].state = "HEADER"
    BY DEF BogusHeader, Works
  <1>2. /\ Taken(stream[d]) \in StreamDir
        /\ Len(Taken(stream[d]).buffer) <= Len(stream[d].buffer)
    BY <1>1, HeaderTaken, StateOK
  <1>3. /\ stream' \in [Dirs -> StreamDir]
        /\ \A e \in Dirs : CountersFit(stream'[e])
        /\ Progress(d)
    BY <1>1, <1>2, GivingUp DEF BogusHeader
  <1>4. QED
    BY <1>3 DEF BogusHeader, TypeOK

\* A header whose transfer is not supported gives the connection up.
LEMMA UnsupportedHeaderStep ==
    ASSUME TypeOK, NEW d \in Dirs, UnsupportedHeader(d)
    PROVE  TypeOK' /\ Progress(d)
  <1>1. Works(d, "HEADER") /\ stream[d].state = "HEADER"
    BY DEF UnsupportedHeader, IsGoodHeader, Works
  <1>2. /\ Parsed(stream[d]) \in StreamDir
        /\ Len(Parsed(stream[d]).buffer) <= Len(stream[d].buffer)
    BY <1>1, HeaderTaken, StateOK
  <1>3. /\ stream' \in [Dirs -> StreamDir]
        /\ \A e \in Dirs : CountersFit(stream'[e])
        /\ Progress(d)
    BY <1>1, <1>2, GivingUp DEF UnsupportedHeader
  <1>4. QED
    BY <1>3 DEF UnsupportedHeader, TypeOK

\* A response without a request gives the connection up.
LEMMA OrphanResponseStep ==
    ASSUME TypeOK, NEW d \in Dirs, OrphanResponse(d)
    PROVE  TypeOK' /\ Progress(d)
  <1>1. IsGoodHeader(d) /\ stream[d].state = "HEADER"
    BY DEF OrphanResponse, IsGoodHeader, Works
  <1>2. /\ Unzipping(stream[d]) \in StreamDir
        /\ Len(Unzipping(stream[d]).buffer) <= Len(stream[d].buffer)
    BY <1>1, HeaderGood, StateOK
  <1>3. /\ stream' \in [Dirs -> StreamDir]
        /\ \A e \in Dirs : CountersFit(stream'[e])
        /\ Progress(d)
    BY <1>1, <1>2, GivingUp DEF OrphanResponse
  <1>4. stats' \in [Kinds -> [Counters -> Nat]]
    BY CountOK DEF OrphanResponse, Kinds
  <1>5. QED
    BY <1>3, <1>4 DEF OrphanResponse, TypeOK

\* The state a good header leads to: counters fit it, and its rank is at most 2.
LEMMA HeaderLeadsTo ==
    ASSUME NEW s \in StreamDir, s.header \in Headers,
           s.contentLength = 0, s.chunkLength = 0, s.contentReceived = 0,
           NEW t, t = LET framing == FramingOf(s, s.header)
                      IN  [s EXCEPT !.headerOnlyRequest = FALSE,
                                    !.state = StateAfter(framing),
                                    !.contentLength = IF framing = "length" THEN s.header.length ELSE @]
    PROVE  /\ OKDir(t)
           /\ t.state \in States \ {"CORRUPTED"}
           /\ t.buffer = s.buffer
  <1> DEFINE framing == FramingOf(s, s.header)
  <1>1. s.header # NoHeader /\ s.header.length \in Nat \cup {NoLength}
    BY HeadersAssumption
  <1>2. framing \in {"none", "length", "chunked", "close"}
    BY DEF FramingOf
  <1>3. framing = "length" => s.header.length \in Nat
    BY <1>1 DEF FramingOf
  <1>4. StateAfter(framing) = IF framing = "length" THEN "CONTENT"
                              ELSE IF framing = "chunked" THEN "CHUNK_SIZE"
                              ELSE IF framing = "close" THEN "UNKNOWN_CONTENT"
                              ELSE "HEADER"
    <2> HIDE DEF framing
    <2>1. QED
      BY <1>2 DEF StateAfter
  <1>5. t = [s EXCEPT !.headerOnlyRequest = FALSE,
                      !.state = StateAfter(framing),
                      !.contentLength = IF framing = "length" THEN s.header.length ELSE @]
    OBVIOUS
  <1>6. QED
    <2> HIDE DEF framing
    <2>1. t \in StreamDir /\ t.state \in States \ {"CORRUPTED"} /\ t.buffer = s.buffer
      BY <1>2, <1>3, <1>4, <1>5 DEF StreamDir, States
    <2>2. /\ t.state = StateAfter(framing) /\ t.header = s.header
          /\ t.contentLength = IF framing = "length" THEN s.header.length ELSE 0
          /\ t.chunkLength = 0 /\ t.contentReceived = 0
      BY <1>5 DEF StreamDir
    <2>3. CountersFit(t)
      BY <1>1, <1>2, <1>3, <1>4, <2>2 DEF CountersFit
    <2>4. QED
      BY <2>1, <2>3 DEF OKDir

\* A good header leads to its content, to its chunks or to the next header.
LEMMA GoodHeaderStep ==
    ASSUME TypeOK, NEW d \in Dirs, GoodHeader(d)
    PROVE  TypeOK' /\ Progress(d)
  <1> DEFINE s == Unzipping(stream[d])
             o == stream[Other(d)]
             framing == FramingOf(s, s.header)
             t == [s EXCEPT !.headerOnlyRequest = FALSE,
                            !.state = StateAfter(framing),
                            !.contentLength = IF framing = "length" THEN s.header.length ELSE @]
             u == [o EXCEPT !.headerOnlyRequest = (s.header.method = "HEAD")]
             event == Note("header", IF s.isRequest THEN NoHeader ELSE o.header, s.header, 0)
  <1>1. IsGoodHeader(d) /\ stream[d].state = "HEADER"
    BY DEF GoodHeader, IsGoodHeader, Works
  <1>2. /\ s \in StreamDir /\ s.header \in Headers
        /\ s.contentLength = 0 /\ s.chunkLength = 0 /\ s.contentReceived = 0
        /\ Len(s.buffer) \in Nat /\ Len(s.buffer) < Len(stream[d].buffer)
    BY <1>1, HeaderGood
  <1>3. OKDir(t) /\ t.state \in States \ {"CORRUPTED"} /\ t.buffer = s.buffer
    BY <1>2, HeaderLeadsTo
  <1>4. o \in StreamDir /\ CountersFit(o)
    BY StateOK DEF OKDir, TypeOK
  <1>5. /\ u \in StreamDir /\ CountersFit(u)
        /\ u.state = o.state /\ (HasWork(u) => HasWork(o))
    BY <1>4 DEF StreamDir, CountersFit, HasWork
  <1>6. stream' = [e \in Dirs |-> IF e = d THEN t ELSE u]
    BY DEF GoodHeader
  <1>7. stream'[d] = t /\ stream'[Other(d)] = u
    BY <1>6, StateOK
  <1>8. stream' \in [Dirs -> StreamDir] /\ \A e \in Dirs : CountersFit(stream'[e])
    <2> HIDE DEF t, u
    <2>1. QED
      BY <1>3, <1>5, <1>6 DEF OKDir
  <1>9. stats' \in [Kinds -> [Counters -> Nat]]
    <2>1. KindOf(s) \in Kinds
      BY DEF KindOf, Kinds
    <2>2. QED
      BY <2>1, CountOK DEF GoodHeader
  <1>10. log' \in [Dirs -> Seq(Event)]
    <2>1. o.header \in Headers \cup {NoHeader}
      BY <1>4 DEF StreamDir
    <2>2. event \in Event
      BY <1>2, <2>1 DEF Note, Event
    <2>3. <<event>> \in Seq(Event)
      <3> HIDE DEF event
      <3>1. QED
        BY <2>2
    <2>4. Tell(d, <<event>>)
      BY DEF GoodHeader
    <2>5. QED
      <3> HIDE DEF event
      <3>1. QED
        BY <2>3, <2>4, TellOK
  <1>11. Left(stream'[d]) < Left(stream[d])
    <2>1. Rank(t.state) \in {1, 2}
      BY <1>3, Ranks DEF States
    <2>2. Left(stream'[d]) = 3 * Len(s.buffer) + Rank(t.state)
      BY <1>3, <1>7 DEF Left
    <2>3. Left(stream[d]) = 3 * Len(stream[d].buffer) + 1
      BY <1>1, Ranks DEF Left
    <2>4. QED
      <3> HIDE DEF t, s
      <3>1. QED
        BY <1>2, <2>1, <2>2, <2>3, StateOK
  <1>12. Progress(d)
    BY <1>3, <1>5, <1>7, <1>11 DEF Progress
  <1>13. QED
    BY <1>8, <1>9, <1>10, <1>12 DEF GoodHeader, TypeOK

\* Content of unknown length is passed on as it comes, all of the buffer.
LEMMA UnknownContentStep ==
    ASSUME TypeOK, NEW d \in Dirs, UnknownContent(d)
    PROVE  TypeOK' /\ Progress(d)
  <1> DEFINE s == stream[d]
             n == Len(s.buffer)
             t == [s EXCEPT !.buffer = <<>>, !.contentReceived = @ + n]
  <1>1. /\ s \in StreamDir /\ CountersFit(s) /\ s.buffer \in Seq(Cell) /\ n \in Nat
        /\ s.state = "UNKNOWN_CONTENT" /\ s.buffer # <<>>
    BY StateOK DEF OKDir, UnknownContent, Works, HasWork
  <1>2. n > 0
    BY <1>1, EmptySeq
  <1>3. /\ t \in StreamDir /\ t.state = s.state /\ t.buffer = <<>> /\ t.header = s.header
    <2>1. <<>> \in Seq(Cell) /\ s.contentReceived + n \in Nat
      BY <1>1, EmptySeq DEF StreamDir
    <2>2. QED
      <3> HIDE DEF n
      <3>1. QED
        BY <1>1, <2>1 DEF StreamDir
  <1>4. OKDir(t)
    BY <1>1, <1>3 DEF OKDir, CountersFit
  <1>5. Become(d, t)
    BY DEF UnknownContent
  <1>6. Left(t) < Left(s)
    <2>1. Left(t) = 1 /\ Left(s) = 3 * n + 1
      BY <1>1, <1>3, Ranks DEF Left
    <2>2. QED
      BY <1>1, <1>2, <2>1
  <1>7. /\ stream' \in [Dirs -> StreamDir]
        /\ \A e \in Dirs : CountersFit(stream'[e])
        /\ Progress(d)
    <2> HIDE DEF t
    <2>1. QED
      BY <1>1, <1>3, <1>4, <1>5, <1>6, GoingOn
  <1>8. stats' \in [Kinds -> [Counters -> Nat]]
    BY CountOK, StateOK DEF UnknownContent
  <1>9. log' \in [Dirs -> Seq(Event)]
    BY <1>1, TrafficOK, TellOK DEF UnknownContent
  <1>10. QED
    BY <1>7, <1>8, <1>9 DEF UnknownContent, TypeOK

\* A chunk size line leads to the data of the chunk or to the end.
LEMMA ChunkSizeStep ==
    ASSUME TypeOK, NEW d \in Dirs, ChunkSize(d)
    PROVE  TypeOK' /\ Progress(d)
  <1> DEFINE s == stream[d]
             end == First(LineEnds(s.buffer))
             size == ChunkSizeIn(SubSeq(s.buffer, 1, end - 2))
             rest == Rest(s.buffer, end)
             t == [s EXCEPT !.chunkLength = size, !.buffer = rest, !.state = "CHUNK_DATA"]
  <1>1. /\ s \in StreamDir /\ CountersFit(s) /\ s.buffer \in Seq(Cell) /\ Len(s.buffer) \in Nat
        /\ s.state = "CHUNK_SIZE" /\ LineEnds(s.buffer) # {}
    BY StateOK DEF OKDir, ChunkSize, Works, HasWork
  <1>2. end \in 2 .. Len(s.buffer)
    BY <1>1, Search
  <1>3. size \in Nat
    <2>1. end - 2 \in Int /\ end - 2 <= Len(s.buffer)
      BY <1>1, <1>2
    <2> HIDE DEF end
    <2> QED
      BY <1>1, <2>1, ChunkSizeOK
  <1>4. rest \in Seq(Cell) /\ Len(rest) = Len(s.buffer) - end
    <2>1. end \in 0 .. Len(s.buffer)
      BY <1>1, <1>2
    <2> HIDE DEF end
    <2> QED
      BY <1>1, <2>1, RestOK
  <1>5. Become(d, t)
    BY DEF ChunkSize
  <1> HIDE DEF end, size, rest
  <1>6. /\ t \in StreamDir /\ t.state = "CHUNK_DATA" /\ t.buffer = rest /\ t.chunkLength = size
        /\ t.contentReceived = s.contentReceived /\ t.contentLength = s.contentLength
        /\ t.header = s.header
    BY <1>1, <1>3, <1>4 DEF StreamDir, States
  <1>7. OKDir(t)
    BY <1>1, <1>3, <1>6 DEF OKDir, CountersFit
  <1>8. Left(t) < Left(s)
    <2>1. Left(t) = 3 * Len(rest) + 2 /\ Left(s) = 3 * Len(s.buffer) + 1
      BY <1>1, <1>6, Ranks DEF Left
    <2>2. QED
      BY <1>1, <1>2, <1>4, <2>1
  <1>9. /\ stream' \in [Dirs -> StreamDir]
        /\ \A e \in Dirs : CountersFit(stream'[e])
        /\ Progress(d)
    <2> HIDE DEF t
    <2>1. QED
      BY <1>5, <1>6, <1>7, <1>8, GoingOn
  <1>10. QED
    BY <1>9 DEF ChunkSize, TypeOK

\* What get() may take: never more than there is, and all of it is taken or
\* the wanted number is reached.
LEMMA LeastOK ==
    ASSUME NEW b \in Seq(Cell), NEW wanted \in Nat
    PROVE  /\ Least(wanted, b) \in 0 .. Len(b)
           /\ Least(wanted, b) <= wanted
           /\ Least(wanted, b) = 0 => wanted = 0 \/ b = <<>>
  <1>1. Len(b) \in Nat /\ (b # <<>> => Len(b) > 0)
    BY LenProperties, EmptySeq
  <1>2. QED
    BY <1>1 DEF Least

\* Content of known length ends when all of it was passed on.
LEMMA ContentStep ==
    ASSUME TypeOK, NEW d \in Dirs, Content(d)
    PROVE  TypeOK' /\ Progress(d)
  <1> DEFINE s == stream[d]
             wanted == s.contentLength - s.contentReceived
             n == Least(wanted, s.buffer)
             rest == Rest(s.buffer, n)
             complete == s.contentReceived + n = s.contentLength
             over == [s EXCEPT !.buffer = rest, !.contentLength = 0,
                               !.contentReceived = 0, !.state = "HEADER"]
             more == [s EXCEPT !.buffer = rest,
                               !.contentReceived = s.contentReceived + n]
             t == IF complete THEN over ELSE more
  <1>1. /\ s \in StreamDir /\ CountersFit(s) /\ s.buffer \in Seq(Cell) /\ Len(s.buffer) \in Nat
        /\ s.state = "CONTENT"
        /\ s.buffer # <<>> \/ s.contentReceived = s.contentLength
    BY StateOK DEF OKDir, Content, Works, HasWork
  <1>2. /\ s.contentLength \in Nat /\ s.contentReceived \in Nat
        /\ s.contentReceived <= s.contentLength /\ s.chunkLength = 0
        /\ s.header # NoHeader /\ s.header \in Headers \cup {NoHeader}
    BY <1>1 DEF StreamDir, CountersFit
  <1>3. n \in 0 .. Len(s.buffer) /\ n <= wanted /\ (n = 0 => wanted = 0 \/ s.buffer = <<>>)
    <2>1. wanted \in Nat
      BY <1>2
    <2>2. QED
      <3> HIDE DEF wanted
      <3>1. QED
        BY <1>1, <2>1, LeastOK
  <1>4. rest \in Seq(Cell) /\ Len(rest) = Len(s.buffer) - n
    BY <1>1, <1>3, RestOK
  <1>5. Become(d, t)
    BY DEF Content
  <1>6. log' \in [Dirs -> Seq(Event)]
    <2> DEFINE done == IF complete THEN <<Note("done", NoHeader, s.header, 0)>> ELSE <<>>
    <2>1. Traffic(d, n) \in Seq(Event)
      BY <1>3, TrafficOK
    <2>2. Note("done", NoHeader, s.header, 0) \in Event
      BY <1>2 DEF Note, Event
    <2>3. done \in Seq(Event)
      BY <2>2
    <2>4. Traffic(d, n) \o done \in Seq(Event)
      BY <2>1, <2>3, ConcatProperties
    <2>5. Tell(d, Traffic(d, n) \o done)
      BY DEF Content
    <2>6. QED
      BY <2>4, <2>5, TellOK
  <1>7. stats' \in [Kinds -> [Counters -> Nat]]
    BY CountOK, StateOK DEF Content
  <1> HIDE DEF n, rest
  <1>8. CASE complete
    <2>1. t = over
      BY <1>8
    <2>2. /\ over \in StreamDir /\ over.state = "HEADER" /\ over.buffer = rest
          /\ over.contentLength = 0 /\ over.contentReceived = 0 /\ over.chunkLength = 0
      BY <1>1, <1>2, <1>4 DEF StreamDir, States
    <2>3. OKDir(over)
      BY <2>2 DEF OKDir, CountersFit
    <2>4. Left(over) < Left(s)
      <3>1. Left(over) = 3 * Len(rest) + 1 /\ Left(s) = 3 * Len(s.buffer) + 2
        BY <1>1, <2>2, Ranks DEF Left
      <3>2. QED
        BY <1>1, <1>3, <1>4, <3>1
    <2>5. /\ stream' \in [Dirs -> StreamDir]
          /\ \A e \in Dirs : CountersFit(stream'[e])
          /\ Progress(d)
      <3> HIDE DEF over, more
      <3>1. QED
        BY <1>5, <2>1, <2>2, <2>3, <2>4, GoingOn
    <2>6. QED
      BY <1>6, <1>7, <2>5 DEF Content, TypeOK
  <1>9. CASE ~complete
    <2>1. t = more
      BY <1>9
    <2>2. n > 0
      BY <1>1, <1>2, <1>3, <1>9
    <2>3. s.contentReceived + n \in Nat /\ s.contentReceived + n <= s.contentLength
      BY <1>1, <1>2, <1>3
    <2>4. /\ more \in StreamDir /\ more.state = "CONTENT" /\ more.buffer = rest
          /\ more.contentLength = s.contentLength /\ more.contentReceived = s.contentReceived + n
          /\ more.chunkLength = 0 /\ more.header = s.header
      BY <1>1, <1>2, <1>4, <2>3 DEF StreamDir
    <2>5. OKDir(more)
      BY <1>2, <2>3, <2>4 DEF OKDir, CountersFit
    <2>6. Left(more) < Left(s)
      <3>1. Left(more) = 3 * Len(rest) + 2 /\ Left(s) = 3 * Len(s.buffer) + 2
        BY <1>1, <2>4, Ranks DEF Left
      <3>2. QED
        BY <1>1, <1>3, <1>4, <2>2, <3>1, SMTT(30)
    <2>7. /\ stream' \in [Dirs -> StreamDir]
          /\ \A e \in Dirs : CountersFit(stream'[e])
          /\ Progress(d)
      <3> HIDE DEF over, more
      <3>1. QED
        BY <1>5, <2>1, <2>4, <2>5, <2>6, GoingOn
    <2>8. QED
      BY <1>6, <1>7, <2>7 DEF Content, TypeOK
  <1>10. QED
    BY <1>8, <1>9

\* The data of a chunk ends when all of it was passed on.
LEMMA ChunkDataStep ==
    ASSUME TypeOK, NEW d \in Dirs, ChunkData(d)
    PROVE  TypeOK' /\ Progress(d)
  <1> DEFINE s == stream[d]
             wanted == s.chunkLength - s.contentReceived
             n == Least(wanted, s.buffer)
             rest == Rest(s.buffer, n)
             complete == s.contentReceived + n = s.chunkLength
             t == [s EXCEPT !.buffer = rest,
                            !.contentReceived = IF complete THEN 0 ELSE s.contentReceived + n,
                            !.state = IF complete THEN "CHUNK_END" ELSE s.state]
  <1>1. /\ s \in StreamDir /\ CountersFit(s) /\ s.buffer \in Seq(Cell) /\ Len(s.buffer) \in Nat
        /\ s.state = "CHUNK_DATA"
        /\ s.buffer # <<>> \/ s.contentReceived = s.chunkLength
    BY StateOK DEF OKDir, ChunkData, Works, HasWork
  <1>2. /\ s.chunkLength \in Nat /\ s.contentReceived \in Nat
        /\ s.contentReceived <= s.chunkLength /\ s.contentLength = 0
        /\ s.header # NoHeader
    BY <1>1 DEF StreamDir, CountersFit
  <1>3. n \in 0 .. Len(s.buffer) /\ n <= wanted /\ (n = 0 => wanted = 0 \/ s.buffer = <<>>)
    <2>1. wanted \in Nat
      BY <1>2
    <2>2. QED
      <3> HIDE DEF wanted
      <3>1. QED
        BY <1>1, <2>1, LeastOK
  <1>4. rest \in Seq(Cell) /\ Len(rest) = Len(s.buffer) - n
    BY <1>1, <1>3, RestOK
  <1>5. Become(d, t)
    BY DEF ChunkData
  <1>6. log' \in [Dirs -> Seq(Event)]
    BY <1>3, TrafficOK, TellOK DEF ChunkData
  <1>7. stats' \in [Kinds -> [Counters -> Nat]]
    BY CountOK, StateOK DEF ChunkData
  <1> HIDE DEF n, rest
  <1>8. s.contentReceived + n \in Nat /\ s.contentReceived + n <= s.chunkLength
    BY <1>1, <1>2, <1>3
  <1>9. /\ t \in StreamDir /\ t.state = (IF complete THEN "CHUNK_END" ELSE "CHUNK_DATA")
        /\ t.buffer = rest /\ t.header = s.header
        /\ t.contentLength = s.contentLength /\ t.chunkLength = s.chunkLength
        /\ t.contentReceived = (IF complete THEN 0 ELSE s.contentReceived + n)
    <2>1. CASE complete
      BY <1>1, <1>2, <1>4, <2>1 DEF StreamDir, States
    <2>2. CASE ~complete
      BY <1>1, <1>2, <1>4, <1>8, <2>2 DEF StreamDir, States
    <2>3. QED
      BY <2>1, <2>2
  <1> HIDE DEF t
  <1>10. OKDir(t)
    BY <1>2, <1>8, <1>9 DEF OKDir, CountersFit
  <1>11. Left(t) < Left(s)
    <2>1. Left(s) = 3 * Len(s.buffer) + 2
      BY <1>1, Ranks DEF Left
    <2>2. CASE complete
      <3>1. Left(t) = 3 * Len(rest) + 1
        BY <1>9, <2>2, Ranks DEF Left
      <3>2. QED
        BY <1>1, <1>3, <1>4, <2>1, <3>1
    <2>3. CASE ~complete
      <3>1. Left(t) = 3 * Len(rest) + 2
        BY <1>9, <2>3, Ranks DEF Left
      <3>2. n > 0
        BY <1>1, <1>2, <1>3, <2>3
      <3>3. QED
        BY <1>1, <1>3, <1>4, <2>1, <3>1, <3>2
    <2>4. QED
      BY <2>2, <2>3
  <1>12. /\ stream' \in [Dirs -> StreamDir]
         /\ \A e \in Dirs : CountersFit(stream'[e])
         /\ Progress(d)
    <2>1. t.state # "CORRUPTED"
      BY <1>9
    <2>2. QED
      BY <1>5, <1>10, <1>11, <2>1, GoingOn
  <1>13. QED
    BY <1>6, <1>7, <1>12 DEF ChunkData, TypeOK

\* The line end after a chunk leads to the next size line or to the next header.
LEMMA ChunkEndStep ==
    ASSUME TypeOK, NEW d \in Dirs, ChunkEnd(d)
    PROVE  TypeOK' /\ Progress(d)
  <1> DEFINE s == stream[d]
             last == s.chunkLength = 0
             rest == Rest(s.buffer, 2)
             t == [s EXCEPT !.buffer = rest, !.chunkLength = 0, !.contentReceived = 0,
                            !.state = IF last THEN "HEADER" ELSE "CHUNK_SIZE"]
             done == IF last THEN <<Note("done", NoHeader, s.header, 0)>> ELSE <<>>
  <1>1. /\ s \in StreamDir /\ CountersFit(s) /\ s.buffer \in Seq(Cell) /\ Len(s.buffer) \in Nat
        /\ s.state = "CHUNK_END" /\ Len(s.buffer) >= 2
    BY StateOK DEF OKDir, ChunkEnd, Works, HasWork
  <1>2. s.contentLength = 0 /\ s.header # NoHeader /\ s.header \in Headers \cup {NoHeader}
    BY <1>1 DEF StreamDir, CountersFit
  <1>3. rest \in Seq(Cell) /\ Len(rest) = Len(s.buffer) - 2
    <2>1. 2 \in 0 .. Len(s.buffer)
      BY <1>1
    <2>2. QED
      BY <1>1, <2>1, RestOK
  <1>4. Become(d, t)
    BY DEF ChunkEnd
  <1>5. log' \in [Dirs -> Seq(Event)]
    <2>1. Note("done", NoHeader, s.header, 0) \in Event
      BY <1>2 DEF Note, Event
    <2>2. done \in Seq(Event)
      BY <2>1
    <2>3. Tell(d, done)
      BY DEF ChunkEnd
    <2>4. QED
      BY <2>2, <2>3, TellOK
  <1>6. stats' \in [Kinds -> [Counters -> Nat]]
    BY CountOK, StateOK DEF ChunkEnd
  <1> HIDE DEF rest
  <1>7. /\ t \in StreamDir /\ t.state \in {"HEADER", "CHUNK_SIZE"}
        /\ t.buffer = rest /\ t.header = s.header
        /\ t.contentLength = 0 /\ t.chunkLength = 0 /\ t.contentReceived = 0
    BY <1>1, <1>2, <1>3 DEF StreamDir, States
  <1> HIDE DEF t
  <1>8. OKDir(t)
    BY <1>2, <1>7 DEF OKDir, CountersFit
  <1>9. Left(t) < Left(s)
    <2>1. Left(t) = 3 * Len(rest) + 1 /\ Left(s) = 3 * Len(s.buffer) + 1
      BY <1>1, <1>7, Ranks DEF Left
    <2>2. QED
      BY <1>1, <1>3, <2>1
  <1>10. /\ stream' \in [Dirs -> StreamDir]
         /\ \A e \in Dirs : CountersFit(stream'[e])
         /\ Progress(d)
    <2>1. t.state # "CORRUPTED"
      BY <1>7
    <2>2. QED
      BY <1>4, <1>8, <1>9, <2>1, GoingOn
  <1>11. QED
    BY <1>5, <1>6, <1>10 DEF ChunkEnd, TypeOK

\* All sections
LEMMA SectionStep ==
    ASSUME TypeOK, NEW d \in Dirs, Section(d)
    PROVE  TypeOK' /\ Progress(d)
  BY StrangeHeaderStep, BogusHeaderStep, UnsupportedHeaderStep, OrphanResponseStep,
     GoodHeaderStep, UnknownContentStep, ChunkSizeStep, ContentStep, ChunkDataStep,
     ChunkEndStep DEF Section

\* A section runs for the direction whose loop runs and leaves the loop alone.
LEMMA SectionRuns ==
    ASSUME NEW d \in Dirs, Section(d)
    PROVE  /\ loop # <<>> /\ loop[1] = d /\ loop' = loop
           /\ stream[d].state # "CORRUPTED"
  BY DEF Section, StrangeHeader, BogusHeader, UnsupportedHeader, OrphanResponse, GoodHeader,
         IsGoodHeader, UnknownContent, ChunkSize, Content, ChunkData, ChunkEnd, Works

\* Data that arrives is appended, nothing else changes.
LEMMA OnDataStep ==
    ASSUME TypeOK, NEW d \in Dirs, NEW cells \in Seq(Cell), OnData(d, cells)
    PROVE  /\ TypeOK'
           /\ \A e \in Dirs : stream'[e].state = stream[e].state
  <1> DEFINE s == stream[d]
             t == [s EXCEPT !.buffer = @ \o cells]
  <1>1. s \in StreamDir /\ CountersFit(s) /\ s.buffer \in Seq(Cell)
    BY StateOK DEF OKDir
  <1>2. s.buffer \o cells \in Seq(Cell)
    BY <1>1, ConcatProperties
  <1>3. /\ t \in StreamDir /\ t.state = s.state /\ t.header = s.header
        /\ t.contentLength = s.contentLength /\ t.chunkLength = s.chunkLength
        /\ t.contentReceived = s.contentReceived
    BY <1>1, <1>2 DEF StreamDir
  <1>4. OKDir(t)
    BY <1>1, <1>3 DEF OKDir, CountersFit
  <1>5. Become(d, t)
    BY DEF OnData
  <1> HIDE DEF t
  <1>6. /\ stream' \in [Dirs -> StreamDir]
        /\ \A e \in Dirs : CountersFit(stream'[e])
        /\ stream'[d] = t /\ stream'[Other(d)] = stream[Other(d)]
    BY <1>4, <1>5, BecomeOK
  <1>7. \A e \in Dirs : e = d \/ e = Other(d)
    BY DEF Dirs, Other
  <1>8. \A e \in Dirs : stream'[e].state = stream[e].state
    BY <1>3, <1>6, <1>7
  <1>9. loop' \in Seq(Dirs)
    BY DEF OnData
  <1>10. QED
    BY <1>6, <1>8, <1>9 DEF OnData, TypeOK

\* Closing keeps the types.
LEMMA OnCloseStep ==
    ASSUME TypeOK, OnClose
    PROVE  TypeOK'
  <1>1. \A k \in Kinds : UnknownEnded(k) \in Nat
    BY DEF UnknownEnded
  <1>2. stats' \in [Kinds -> [Counters -> Nat]]
    BY <1>1 DEF OnClose, TypeOK
  <1>3. loop' \in Seq(Dirs)
    BY DEF OnClose, Dirs
  <1>4. QED
    BY <1>2, <1>3 DEF OnClose, TypeOK

\* A handler that returns keeps the types.
LEMMA ReturnStep ==
    ASSUME TypeOK, Return
    PROVE  TypeOK'
  <1>1. loop' \in Seq(Dirs)
    BY HeadTailProperties DEF Return, TypeOK
  <1>2. QED
    BY <1>1 DEF Return, TypeOK

\* A connection that was closed keeps the types.
LEMMA ClosedStep ==
    ASSUME TypeOK, Closed
    PROVE  TypeOK'
  BY DEF Closed, TypeOK

\* A new connection has the types.
LEMMA TypesInit ==
    ASSUME Init
    PROVE  TypeOK
  <1>1. NewStreamDir \in StreamDir /\ CountersFit(NewStreamDir)
    BY DEF NewStreamDir, StreamDir, States, CountersFit
  <1>2. <<>> \in Seq(Dirs) /\ <<>> \in Seq(Event)
    OBVIOUS
  <1>3. QED
    BY <1>1, <1>2 DEF Init, TypeOK

\* Every step keeps the types.
LEMMA TypesStep ==
    ASSUME TypeOK, [Next]_vars
    PROVE  TypeOK'
  <1>1. CASE \E d \in Dirs : \E cells \in Seq(Cell) : OnData(d, cells)
    BY <1>1, OnDataStep
  <1>2. CASE OnClose
    BY <1>2, OnCloseStep
  <1>3. CASE \E d \in Dirs : Section(d)
    BY <1>3, SectionStep
  <1>4. CASE Return
    BY <1>4, ReturnStep
  <1>5. CASE Closed
    BY <1>5, ClosedStep
  <1>6. CASE UNCHANGED vars
    BY <1>6 DEF vars, TypeOK
  <1>7. QED
    BY <1>1, <1>2, <1>3, <1>4, <1>5, <1>6 DEF Next, Handle

\* The types hold for any headers, bytes and cuts: no difference of two
\* counters is negative, and no listener gets a null header.
THEOREM Typed == Spec => []TypeOK
  BY TypesInit, TypesStep, PTL DEF Spec

-----------------------------------------------------------------------------
(* Giving up *)

\* Every step gives up both directions or none.
LEMMA TogetherStep ==
    ASSUME TypeOK, CorruptedTogether, [Next]_vars
    PROVE  CorruptedTogether'
  <1>1. CASE \E d \in Dirs : \E cells \in Seq(Cell) : OnData(d, cells)
    BY <1>1, OnDataStep DEF CorruptedTogether, Dirs
  <1>2. CASE OnClose
    BY <1>2 DEF OnClose, CorruptedTogether
  <1>3. ASSUME NEW d \in Dirs, Section(d)
        PROVE  CorruptedTogether'
    <2>1. Progress(d) /\ stream[d].state # "CORRUPTED"
      BY <1>3, SectionStep, SectionRuns
    <2>2. QED
      BY <2>1 DEF Progress, CorruptedTogether, Dirs, Other
  <1>4. CASE Return
    BY <1>4 DEF Return, CorruptedTogether
  <1>5. CASE Closed
    BY <1>5 DEF Closed, CorruptedTogether
  <1>6. CASE UNCHANGED vars
    BY <1>6 DEF vars, CorruptedTogether
  <1>7. QED
    BY <1>1, <1>2, <1>3, <1>4, <1>5, <1>6 DEF Next, Handle

\* A connection is given up in both directions or in none, whatever was wrong.
THEOREM GivenUpTogether == Spec => []CorruptedTogether
  <1>1. Init => CorruptedTogether
    BY DEF Init, CorruptedTogether, NewStreamDir, Dirs
  <1>2. TypeOK /\ CorruptedTogether /\ [Next]_vars => CorruptedTogether'
    BY TogetherStep
  <1>3. QED
    BY <1>1, <1>2, Typed, PTL DEF Spec

\* A step from a connection that was given up tells its listeners nothing.
LEMMA SilentStep ==
    ASSUME TypeOK, CorruptedTogether, [Next]_vars,
           NEW e \in Dirs, stream[e].state = "CORRUPTED"
    PROVE  stream'[e].state = "CORRUPTED" /\ log' = log /\ stats' = stats
  <1>1. \A d \in Dirs : stream[d].state = "CORRUPTED"
    BY DEF CorruptedTogether, Dirs
  <1>2. CASE \E d \in Dirs : \E cells \in Seq(Cell) : OnData(d, cells)
    BY <1>2, OnDataStep DEF OnData
  <1>3. CASE OnClose
    <2>1. \A k \in Kinds : UnknownEnded(k) = 0
      BY <1>1 DEF UnknownEnded, Dirs
    <2>2. \A k \in Kinds : \A c \in Counters :
             stats[k][c] + (IF c = "numOK" THEN UnknownEnded(k) ELSE 0) = stats[k][c]
      BY <2>1 DEF TypeOK
    <2>3. stats' = [k \in Kinds |-> [c \in Counters |-> stats[k][c]]]
      BY <1>3, <2>2 DEF OnClose
    <2>4. stats' = stats
      BY <2>3 DEF TypeOK
    <2>5. QED
      BY <1>3, <2>4 DEF OnClose
  <1>4. CASE \E d \in Dirs : Section(d)
    BY <1>1, <1>4, SectionRuns
  <1>5. CASE Return
    BY <1>5 DEF Return
  <1>6. CASE Closed
    BY <1>6 DEF Closed
  <1>7. CASE UNCHANGED vars
    BY <1>7 DEF vars
  <1>8. QED
    BY <1>2, <1>3, <1>4, <1>5, <1>6, <1>7 DEF Next, Handle

\* A connection that was given up stays silent, also when it is closed.
THEOREM Silenced == Spec => CorruptedIsSilent
  <1>1. TypeOK /\ CorruptedTogether /\ [Next]_vars =>
          [\A d \in Dirs : stream[d].state = "CORRUPTED" =>
             stream'[d].state = "CORRUPTED" /\ log' = log /\ stats' = stats]_vars
    BY SilentStep
  <1>2. QED
    BY <1>1, Typed, GivenUpTogether, PTL DEF Spec, CorruptedIsSilent

-----------------------------------------------------------------------------
(* The loops *)

\* A call in the loop leaves less to do, and gives the other direction no work.
LEMMA LoopStep ==
    ASSUME TypeOK, [Next]_vars, loop # <<>>
    PROVE  \/ loop' = Tail(loop)
           \/ UNCHANGED vars
           \/ /\ loop' = loop
              /\ Left(stream'[loop[1]]) < Left(stream[loop[1]])
              /\ HasWork(stream'[Other(loop[1])]) => HasWork(stream[Other(loop[1])])
  <1>1. CASE \E d \in Dirs : Section(d)
    BY <1>1, SectionStep, SectionRuns DEF Progress
  <1>2. CASE Return
    BY <1>2 DEF Return
  <1>3. CASE UNCHANGED vars
    BY <1>3
  <1>4. QED
    BY <1>1, <1>2, <1>3 DEF Next, Handle, OnData, OnClose, Closed

\* Every handler returns, whatever is in the buffers: while (check()) has a
\* measure that each call decreases.
THEOREM HandlersReturn == Spec => LoopEnds
  <1>1. TypeOK /\ [Next]_vars =>
          [loop # <<>> =>
             \/ loop' = Tail(loop)
             \/ /\ loop' = loop
                /\ Left(stream'[loop[1]]) < Left(stream[loop[1]])
                /\ HasWork(stream'[Other(loop[1])]) => HasWork(stream[Other(loop[1])])]_vars
    BY LoopStep
  <1>2. QED
    BY <1>1, Typed, PTL DEF Spec, LoopEnds

-----------------------------------------------------------------------------
(* What is sent *)

\* A cell as it is sent
WireCell == [cell : Cell, events : Seq(Event)]

\* Nothing is told with the cell w.
Quiet(w, kind) == w.cell = [kind |-> kind, header |-> NoHeader, n |-> 0] /\ w.events = <<>>

\* What is left of an exchange that conforms, message by message
LEMMA MessageOK ==
    ASSUME Conforming, NEW x \in Exchanges, NEW d \in Dirs, NEW k \in 1 .. Len(MessagesOf(x, d))
    PROVE  LET h == MessagesOf(x, d)[k]
           IN  /\ h \in Headers /\ h # NoHeader
               /\ h.nr = k /\ h.length \in Nat \cup {NoLength}
               /\ h.chunked \in BOOLEAN /\ h.close \in BOOLEAN /\ h.gzip \in BOOLEAN
               /\ h.method = "RESPONSE" <=> d = "out"
               /\ Asked(x, h) = IF d = "out" THEN x.requests[k] ELSE NoHeader
               /\ Asked(x, h) \in Headers \cup {NoHeader}
               /\ d = "out" => k \in 1 .. Len(x.requests) /\ x.requests[k] \in Headers
               /\ ~(h.chunked /\ h.length # NoLength)
               /\ k < Len(MessagesOf(x, d)) => Framing(x, h) # "close"
  <1>1. x.requests \in Seq(Headers) /\ x.responses \in Seq(Headers) /\ Conforms(x)
    BY ExchangesAssumption DEF Conforming
  <1>2. MessagesOf(x, d) \in Seq(Headers) /\ k \in DOMAIN MessagesOf(x, d)
    BY <1>1, LenProperties DEF MessagesOf
  <1>3. MessagesOf(x, d)[k] \in Headers
    BY <1>2, ElementOfSeq
  <1>4. ASSUME d = "out" PROVE k \in 1 .. Len(x.requests) /\ x.requests[k] \in Headers
    <2>1. k \in 1 .. Len(x.requests)
      BY <1>1, <1>4, LenProperties DEF Conforms, MessagesOf
    <2> QED
      BY <1>1, <2>1, ElementOfSeq
  <1>5. MessagesOf(x, d)[k].nr = k /\ (MessagesOf(x, d)[k].method = "RESPONSE" <=> d = "out")
    BY <1>1, <1>2 DEF Conforms, MessagesOf, Dirs
  <1>6. /\ ~(MessagesOf(x, d)[k].chunked /\ MessagesOf(x, d)[k].length # NoLength)
        /\ k < Len(MessagesOf(x, d)) => Framing(x, MessagesOf(x, d)[k]) # "close"
    BY <1>1, <1>2 DEF Conforms
  <1>7. Asked(x, MessagesOf(x, d)[k]) = IF d = "out" THEN x.requests[k] ELSE NoHeader
    BY <1>5 DEF Asked
  <1> QED
    BY <1>3, <1>4, <1>5, <1>6, <1>7, HeadersAssumption

\* The payload of a message, cell by cell
LEMMA PieceOK ==
    ASSUME NEW x, NEW h \in Headers, Asked(x, h) \in Headers \cup {NoHeader}, NEW i \in Nat, NEW last \in BOOLEAN
    PROVE  /\ Piece(x, h, i, last) \in WireCell
           /\ Finished(h) \in Event
  <1>1. Note(IF h.gzip THEN "unzipped" ELSE "traffic", Asked(x, h), h, i) \in Event
    BY DEF Note, Event
  <1>2. Finished(h) \in Event
    BY DEF Finished, Note, Event
  <1>3. [kind |-> "data", header |-> NoHeader, n |-> i] \in Cell
    BY DEF Cell
  <1>4. <<Note(IF h.gzip THEN "unzipped" ELSE "traffic", Asked(x, h), h, i)>> \o (IF last THEN <<Finished(h)>> ELSE <<>>) \in Seq(Event)
    BY <1>1, <1>2, ConcatProperties
  <1> QED
    BY <1>2, <1>3, <1>4 DEF Piece, Wired, WireCell

\* The header of a message: five cells, and it is told with the last of them.
LEMMA HeadingOK ==
    ASSUME NEW x, NEW h \in Headers, Asked(x, h) \in Headers \cup {NoHeader}
    PROVE  LET w == Heading(x, h)
           IN  /\ w \in Seq(WireCell) /\ Len(w) = 5
               /\ w[1].cell = [kind |-> "head", header |-> h, n |-> 0] /\ w[1].events = <<>>
               /\ Quiet(w[2], "cr") /\ Quiet(w[3], "lf") /\ Quiet(w[4], "cr")
               /\ w[5].cell = [kind |-> "lf", header |-> NoHeader, n |-> 0]
               /\ w[5].events = <<Note("header", Asked(x, h), h, 0)>>
                     \o (IF Framing(x, h) = "length" /\ h.length = 0 THEN <<Finished(h)>> ELSE <<>>)
  <1> DEFINE told == <<Note("header", Asked(x, h), h, 0)>>
                     \o (IF Framing(x, h) = "length" /\ h.length = 0 THEN <<Finished(h)>> ELSE <<>>)
  <1>1. Note("header", Asked(x, h), h, 0) \in Event /\ Finished(h) \in Event
    BY DEF Finished, Note, Event
  <1>2. told \in Seq(Event)
    BY <1>1, ConcatProperties
  <1>3. /\ [kind |-> "head", header |-> h, n |-> 0] \in Cell
        /\ [kind |-> "lf", header |-> NoHeader, n |-> 0] \in Cell
        /\ [kind |-> "cr", header |-> NoHeader, n |-> 0] \in Cell
    BY DEF Cell
  <1> HIDE DEF told
  <1>4. /\ Wired("head", h, 0, <<>>) \in WireCell /\ Plain("cr") \in WireCell /\ Plain("lf") \in WireCell
        /\ Wired("lf", NoHeader, 0, told) \in WireCell
    BY <1>2, <1>3 DEF Wired, Plain, WireCell
  <1>5. Heading(x, h) = <<Wired("head", h, 0, <<>>), Plain("cr"), Plain("lf"), Plain("cr"),
                          Wired("lf", NoHeader, 0, told)>>
    BY DEF Heading, told
  <1>6. Heading(x, h) \in Seq(WireCell) /\ Len(Heading(x, h)) = 5
    BY <1>4, <1>5
  <1>7. /\ Wired("lf", NoHeader, 0, told).cell = [kind |-> "lf", header |-> NoHeader, n |-> 0]
        /\ Wired("lf", NoHeader, 0, told).events = told
        /\ Wired("head", h, 0, <<>>).cell = [kind |-> "head", header |-> h, n |-> 0]
        /\ Wired("head", h, 0, <<>>).events = <<>>
        /\ Quiet(Plain("cr"), "cr") /\ Quiet(Plain("lf"), "lf")
    BY DEF Wired, Plain, Quiet
  <1>8. /\ Heading(x, h)[1] = Wired("head", h, 0, <<>>) /\ Heading(x, h)[2] = Plain("cr")
        /\ Heading(x, h)[3] = Plain("lf") /\ Heading(x, h)[4] = Plain("cr")
        /\ Heading(x, h)[5] = Wired("lf", NoHeader, 0, told)
    BY <1>5
  <1> QED
    BY <1>6, <1>7, <1>8 DEF told

\* A chunk of n pieces: its size in a line, its data, and the end of a line,
\* with which the message ends if there was no data.
ChunkCells(w, x, h, n) ==
    /\ w[1].cell = [kind |-> "size", header |-> NoHeader, n |-> n] /\ w[1].events = <<>>
    /\ Quiet(w[2], "cr") /\ Quiet(w[3], "lf")
    /\ \A i \in 1 .. n : w[3 + i] = Piece(x, h, i, FALSE)
    /\ Quiet(w[n + 4], "cr")
    /\ w[n + 5].events = IF n > 0 THEN <<>> ELSE <<Finished(h)>>

\* What a chunk consists of
LEMMA ChunkOK ==
    ASSUME NEW x, NEW h \in Headers, Asked(x, h) \in Headers \cup {NoHeader}, NEW n \in Nat
    PROVE  /\ Chunk(x, h, n) \in Seq(WireCell) /\ Len(Chunk(x, h, n)) = n + 5
           /\ ChunkCells(Chunk(x, h, n), x, h, n)
  <1> DEFINE told == IF n > 0 THEN <<>> ELSE <<Finished(h)>>
             a == <<Wired("size", NoHeader, n, <<>>), Plain("cr"), Plain("lf")>>
             b == [i \in 1 .. n |-> Piece(x, h, i, FALSE)]
             end == IF n > 0 THEN Plain("lf") ELSE Wired("lf", NoHeader, 0, <<Finished(h)>>)
             c == <<Plain("cr"), end>>
  <1>1. Finished(h) \in Event
    BY DEF Finished, Note, Event
  <1>2. /\ [kind |-> "size", header |-> NoHeader, n |-> n] \in Cell
        /\ [kind |-> "lf", header |-> NoHeader, n |-> 0] \in Cell
        /\ [kind |-> "cr", header |-> NoHeader, n |-> 0] \in Cell
    BY DEF Cell
  <1>3. /\ Wired("size", NoHeader, n, <<>>) \in WireCell /\ Plain("cr") \in WireCell /\ Plain("lf") \in WireCell
        /\ end \in WireCell
    BY <1>1, <1>2 DEF Wired, Plain, WireCell
  <1>4. /\ end.cell = [kind |-> "lf", header |-> NoHeader, n |-> 0] /\ end.events = told
        /\ Wired("size", NoHeader, n, <<>>).cell = [kind |-> "size", header |-> NoHeader, n |-> n]
        /\ Wired("size", NoHeader, n, <<>>).events = <<>>
        /\ Quiet(Plain("cr"), "cr") /\ Quiet(Plain("lf"), "lf")
    BY DEF Wired, Plain, Quiet
  <1>5. Chunk(x, h, n) = (a \o b) \o c
    BY DEF Chunk
  <1> HIDE DEF end, told
  <1>6. a \in Seq(WireCell) /\ Len(a) = 3 /\ a[1] = Wired("size", NoHeader, n, <<>>)
        /\ a[2] = Plain("cr") /\ a[3] = Plain("lf")
    BY <1>3
  <1>7. c \in Seq(WireCell) /\ Len(c) = 2 /\ c[1] = Plain("cr") /\ c[2] = end
    BY <1>3
  <1>8. b \in Seq(WireCell) /\ Len(b) = n
    <2>1. ASSUME NEW i \in 1 .. n PROVE Piece(x, h, i, FALSE) \in WireCell
      <3>1. i \in Nat
        OBVIOUS
      <3> QED
        BY <3>1, PieceOK
    <2>2. b \in [1 .. n -> WireCell]
      BY <2>1
    <2> HIDE DEF b
    <2> QED
      BY <2>2, FunctionIsSeq
  <1>9. \A i \in 1 .. n : b[i] = Piece(x, h, i, FALSE)
    OBVIOUS
  <1> HIDE DEF a, b, c
  <1>10. /\ a \o b \in Seq(WireCell) /\ Len(a \o b) = 3 + n
         /\ \A i \in 1 .. 3 : (a \o b)[i] = a[i]
         /\ \A i \in 1 .. n : (a \o b)[3 + i] = b[i]
    <2>1. a \in Seq(WireCell) /\ b \in Seq(WireCell)
      BY <1>6, <1>8
    <2>2. a \o b \in Seq(WireCell) /\ Len(a \o b) = Len(a) + Len(b)
      BY <2>1, ConcatAt
    <2>3. /\ \A i \in 1 .. Len(a) : (a \o b)[i] = a[i]
          /\ \A i \in 1 .. Len(b) : (a \o b)[Len(a) + i] = b[i]
      BY <2>1, ConcatAt
    <2> QED
      BY <1>6, <1>8, <2>2, <2>3
  <1> DEFINE ab == a \o b
  <1> HIDE DEF ab
  <1>11. /\ ab \o c \in Seq(WireCell) /\ Len(ab \o c) = (3 + n) + 2
         /\ \A i \in 1 .. 3 + n : (ab \o c)[i] = ab[i]
         /\ \A i \in 1 .. 2 : (ab \o c)[(3 + n) + i] = c[i]
    <2>1. ab \in Seq(WireCell) /\ c \in Seq(WireCell) /\ Len(ab) = 3 + n
      BY <1>7, <1>10 DEF ab
    <2>2. ab \o c \in Seq(WireCell) /\ Len(ab \o c) = Len(ab) + Len(c)
      BY <2>1, ConcatAt
    <2>3. ab \in Seq(WireCell) /\ c \in Seq(WireCell)
      BY <2>1
    <2>4. /\ \A i \in 1 .. Len(ab) : (ab \o c)[i] = ab[i]
          /\ \A i \in 1 .. Len(c) : (ab \o c)[Len(ab) + i] = c[i]
      BY <2>3, ConcatAt
    <2> QED
      BY <1>7, <2>1, <2>2, <2>4
  <1> DEFINE w == ab \o c
  <1> HIDE DEF w
  <1>12. w[1] = a[1] /\ w[2] = a[2] /\ w[3] = a[3]
    <2>1. 1 \in 1 .. 3 + n /\ 2 \in 1 .. 3 + n /\ 3 \in 1 .. 3 + n
      OBVIOUS
    <2> QED
      <3>1. w[1] = ab[1] /\ w[2] = ab[2] /\ w[3] = ab[3]
        BY <1>11, <2>1 DEF w
      <3>2. ab[1] = a[1] /\ ab[2] = a[2] /\ ab[3] = a[3]
        BY <1>10 DEF ab
      <3> QED
        BY <3>1, <3>2
  <1>13. \A i \in 1 .. n : w[3 + i] = b[i]
    <2> SUFFICES ASSUME NEW i \in 1 .. n PROVE w[3 + i] = b[i]
      OBVIOUS
    <2>1. 3 + i \in 1 .. 3 + n
      OBVIOUS
    <2>2. w[3 + i] = ab[3 + i]
      BY <1>11, <2>1 DEF w
    <2> QED
      BY <1>10, <2>2 DEF ab
  <1>14. w[n + 4] = c[1] /\ w[n + 5] = c[2]
    <2>1. n + 4 = 3 + n + 1 /\ n + 5 = 3 + n + 2
      OBVIOUS
    <2> QED
      BY <1>11, <2>1 DEF w
  <1>15. w = Chunk(x, h, n) /\ w \in Seq(WireCell) /\ Len(w) = n + 5
    BY <1>5, <1>11 DEF w, ab
  <1>16. ChunkCells(w, x, h, n)
    BY <1>4, <1>6, <1>7, <1>9, <1>12, <1>13, <1>14 DEF told, ChunkCells
  <1> QED
    BY <1>15, <1>16

\* The size of the chunk behind the jth; behind the last one comes one of size 0.
NextSize(j) == IF j < Len(Chunks) THEN Chunks[j + 1] ELSE 0

\* All chunks of a message
AllChunks(x, h) == [j \in 1 .. Len(Chunks) + 1 |-> Chunk(x, h, NextSize(j - 1))]

\* Where the jth chunk of a message ends, from the end of its header
ChunkEndAt(x, h, j) == Len(Joined(AllChunks(x, h), j))

\* Only the last chunk has size 0.
LEMMA NextSizeIs ==
    /\ Len(Chunks) \in Nat
    /\ \A j \in 0 .. Len(Chunks) : NextSize(j) \in Nat /\ (NextSize(j) = 0 <=> j = Len(Chunks))
  <1>1. Len(Chunks) \in Nat
    BY ChunksAssumption, LenProperties
  <1>2. ASSUME NEW j \in 0 .. Len(Chunks)
        PROVE  NextSize(j) \in Nat /\ (NextSize(j) = 0 <=> j = Len(Chunks))
    <2>1. CASE j < Len(Chunks)
      <3>1. j + 1 \in 1 .. Len(Chunks)
        BY <1>1, <2>1
      <3>2. Chunks[j + 1] \in Nat \ {0}
        BY <3>1, ChunksAssumption, ElementOfSeq
      <3> QED
        BY <1>1, <2>1, <3>2 DEF NextSize
    <2>2. CASE ~(j < Len(Chunks))
      BY <1>1, <2>2 DEF NextSize
    <2> QED
      BY <2>1, <2>2
  <1> QED
    BY <1>1, <1>2

\* All chunks of a message are sequences of cells.
LEMMA AllChunksOK ==
    ASSUME NEW x, NEW h \in Headers, Asked(x, h) \in Headers \cup {NoHeader}
    PROVE  AllChunks(x, h) \in [1 .. Len(Chunks) + 1 -> Seq(WireCell)]
  <1>1. ASSUME NEW j \in 1 .. Len(Chunks) + 1
        PROVE  Chunk(x, h, NextSize(j - 1)) \in Seq(WireCell)
    <2>1. j - 1 \in 0 .. Len(Chunks)
      BY NextSizeIs
    <2>2. NextSize(j - 1) \in Nat
      BY <2>1, NextSizeIs
    <2> QED
      BY <2>2, ChunkOK
  <1> QED
    BY <1>1 DEF AllChunks

\* The body of a message
LEMMA BodyOK ==
    ASSUME NEW x, NEW h \in Headers, Asked(x, h) \in Headers \cup {NoHeader}
    PROVE  LET w == Body(x, h)
           IN  /\ w \in Seq(WireCell)
               /\ Framing(x, h) = "length" =>
                     /\ h.length \in Nat /\ Len(w) = h.length
                     /\ \A i \in 1 .. h.length : w[i] = Piece(x, h, i, i = h.length)
               /\ Framing(x, h) = "chunked" => w = Joined(AllChunks(x, h), Len(Chunks) + 1)
               /\ Framing(x, h) = "close" /\ h.method = "RESPONSE" =>
                     Len(w) = 2 /\ \A i \in 1 .. 2 : w[i] = Piece(x, h, i, FALSE)
               /\ Framing(x, h) = "close" /\ h.method # "RESPONSE" => w = <<>>
               /\ Framing(x, h) = "none" => w = <<>>
               /\ Framing(x, h) \in {"length", "chunked", "close", "none"}
  <1>1. CASE Framing(x, h) = "length"
    <2> DEFINE w == [i \in 1 .. h.length |-> Piece(x, h, i, i = h.length)]
    <2>1. h.length \in Nat
      BY <1>1, HeadersAssumption DEF Framing
    <2>2. w \in [1 .. h.length -> WireCell]
      <3>1. ASSUME NEW i \in 1 .. h.length PROVE Piece(x, h, i, i = h.length) \in WireCell
        <4>1. i \in Nat /\ (i = h.length) \in BOOLEAN
          BY <2>1
        <4> QED
          BY <4>1, PieceOK
      <3> QED
        BY <3>1
    <2>3. Body(x, h) = w
      BY <1>1 DEF Body
    <2>4. \A i \in 1 .. h.length : w[i] = Piece(x, h, i, i = h.length)
      OBVIOUS
    <2> HIDE DEF w
    <2>5. w \in Seq(WireCell) /\ Len(w) = h.length
      BY <2>1, <2>2, FunctionIsSeq
    <2> QED
      BY <1>1, <2>1, <2>3, <2>4, <2>5
  <1>2. CASE Framing(x, h) = "chunked"
    <2> DEFINE first == [k \in DOMAIN Chunks |-> Chunk(x, h, Chunks[k])]
               n == Len(Chunks)
    <2>1. n \in Nat /\ n + 1 \in 0 .. n + 1 /\ n + 1 \in 1 .. n + 1 /\ n + 1 \in Nat /\ (n + 1) - 1 = n /\ n \in 0 .. n
      BY NextSizeIs
    <2>2. AllChunks(x, h) \in [1 .. n + 1 -> Seq(WireCell)]
      BY AllChunksOK
    <2>3. Joined(AllChunks(x, h), n + 1) = Joined(AllChunks(x, h), n) \o AllChunks(x, h)[n + 1]
          /\ Joined(AllChunks(x, h), n + 1) \in Seq(WireCell)
      <3>1. \A k \in 1 .. n + 1 : Joined(AllChunks(x, h), k) = Joined(AllChunks(x, h), k - 1) \o AllChunks(x, h)[k]
        BY <2>1, <2>2, JoinedIs
      <3>2. \A k \in 0 .. n + 1 : Joined(AllChunks(x, h), k) \in Seq(WireCell)
        BY <2>1, <2>2, JoinedIs
      <3> QED
        BY <2>1, <3>1, <3>2
    <2>4. AllChunks(x, h)[n + 1] = Chunk(x, h, 0)
      BY <2>1 DEF AllChunks, NextSize
    <2>5. [i \in 1 .. n |-> AllChunks(x, h)[i]] = first
      <3>1. DOMAIN Chunks = 1 .. n
        BY ChunksAssumption, LenProperties
      <3>2. ASSUME NEW i \in 1 .. n PROVE AllChunks(x, h)[i] = Chunk(x, h, Chunks[i])
        <4>1. i \in 1 .. n + 1 /\ i - 1 < n /\ (i - 1) + 1 = i
          BY <2>1
        <4> QED
          BY <4>1 DEF AllChunks, NextSize
      <3> QED
        BY <3>1, <3>2
    <2>6. Body(x, h) = FlattenSeq(first) \o Chunk(x, h, 0)
      BY <1>2 DEF Body
    <2> HIDE DEF n, first
    <2>7. Body(x, h) = Joined(AllChunks(x, h), n + 1) /\ Body(x, h) \in Seq(WireCell)
      <3>1. Joined(AllChunks(x, h), n) = FlattenSeq(first)
        BY <2>5 DEF Joined
      <3> QED
        BY <2>3, <2>4, <2>6, <3>1
    <2> QED
      BY <1>2, <2>7 DEF n
  <1>3. CASE Framing(x, h) = "close" /\ h.method = "RESPONSE"
    <2> DEFINE w == [i \in 1 .. 2 |-> Piece(x, h, i, FALSE)]
    <2>1. Body(x, h) = w
      BY <1>3 DEF Body
    <2>2. w \in [1 .. 2 -> WireCell]
      <3>1. ASSUME NEW i \in 1 .. 2 PROVE Piece(x, h, i, FALSE) \in WireCell
        <4>1. i \in Nat /\ FALSE \in BOOLEAN
          OBVIOUS
        <4> QED
          BY <4>1, PieceOK
      <3> QED
        BY <3>1
    <2>3. \A i \in 1 .. 2 : w[i] = Piece(x, h, i, FALSE)
      OBVIOUS
    <2> HIDE DEF w
    <2>4. w \in Seq(WireCell) /\ Len(w) = 2
      BY <2>2, FunctionIsSeq
    <2> QED
      BY <1>3, <2>1, <2>3, <2>4
  <1>4. CASE Framing(x, h) = "close" /\ h.method # "RESPONSE"
    BY <1>4, EmptySeq DEF Body
  <1>5. CASE Framing(x, h) = "none"
    BY <1>5, EmptySeq DEF Body
  <1> QED
    BY <1>1, <1>2, <1>3, <1>4, <1>5 DEF Framing

\* The messages of direction d, one sequence of cells each
Parts(x, d) ==
    [j \in 1 .. Len(MessagesOf(x, d)) |->
        Heading(x, MessagesOf(x, d)[j]) \o Body(x, MessagesOf(x, d)[j])]

\* Each direction has a number of messages.
LEMMA CountOfMessages ==
    ASSUME NEW x \in Exchanges, NEW d \in Dirs
    PROVE  MessagesOf(x, d) \in Seq(Headers) /\ Len(MessagesOf(x, d)) \in Nat
  <1>1. MessagesOf(x, d) \in Seq(Headers)
    BY ExchangesAssumption DEF MessagesOf
  <1> QED
    BY <1>1, LenProperties

\* A part is the heading and the body of a message.
LEMMA PartsOK ==
    ASSUME Conforming, NEW x \in Exchanges, NEW d \in Dirs
    PROVE  /\ Parts(x, d) \in [1 .. Len(MessagesOf(x, d)) -> Seq(WireCell)]
           /\ \A k \in 1 .. Len(MessagesOf(x, d)) :
                 LET h == MessagesOf(x, d)[k]
                 IN  /\ Len(Parts(x, d)[k]) = 5 + Len(Body(x, h)) /\ Len(Body(x, h)) \in Nat
                     /\ \A i \in 1 .. 5 : Parts(x, d)[k][i] = Heading(x, h)[i]
                     /\ \A i \in 1 .. Len(Body(x, h)) : Parts(x, d)[k][5 + i] = Body(x, h)[i]
  <1>1. ASSUME NEW k \in 1 .. Len(MessagesOf(x, d))
        PROVE  LET h == MessagesOf(x, d)[k]
               IN  /\ Heading(x, h) \o Body(x, h) \in Seq(WireCell)
                   /\ Len(Heading(x, h) \o Body(x, h)) = 5 + Len(Body(x, h)) /\ Len(Body(x, h)) \in Nat
                   /\ \A i \in 1 .. 5 : (Heading(x, h) \o Body(x, h))[i] = Heading(x, h)[i]
                   /\ \A i \in 1 .. Len(Body(x, h)) : (Heading(x, h) \o Body(x, h))[5 + i] = Body(x, h)[i]
    <2> DEFINE h == MessagesOf(x, d)[k]
               a == Heading(x, h)
               b == Body(x, h)
    <2>1. h \in Headers /\ Asked(x, h) \in Headers \cup {NoHeader}
      BY MessageOK
    <2> HIDE DEF h
    <2>2. a \in Seq(WireCell) /\ b \in Seq(WireCell) /\ Len(a) = 5
      BY <2>1, HeadingOK, BodyOK
    <2> HIDE DEF a, b
    <2>3. a \in Seq(WireCell) /\ b \in Seq(WireCell)
      BY <2>2
    <2>4. a \o b \in Seq(WireCell) /\ Len(a \o b) = Len(a) + Len(b)
      BY <2>3, ConcatAt
    <2>5. /\ \A i \in 1 .. Len(a) : (a \o b)[i] = a[i]
          /\ \A i \in 1 .. Len(b) : (a \o b)[Len(a) + i] = b[i]
      BY <2>3, ConcatAt
    <2>6. Len(b) \in Nat
      BY <2>3, LenProperties
    <2>7. /\ a \o b \in Seq(WireCell) /\ Len(a \o b) = 5 + Len(b) /\ Len(b) \in Nat
          /\ \A i \in 1 .. 5 : (a \o b)[i] = a[i]
          /\ \A i \in 1 .. Len(b) : (a \o b)[5 + i] = b[i]
      BY <2>2, <2>4, <2>5, <2>6
    <2> QED
      BY <2>7 DEF a, b, h
  <1> QED
    BY <1>1 DEF Parts

\* Where the messages of a direction end
LEMMA EndsAre ==
    ASSUME Conforming, NEW x \in Exchanges, NEW d \in Dirs
    PROVE  /\ EndsOf[x][d][0] = 0
           /\ EndsOf[x][d][Len(MessagesOf(x, d))] = Len(Wires[x][d])
           /\ Wires[x][d] \in Seq(WireCell) /\ Len(Wires[x][d]) \in Nat
           /\ DOMAIN EndsOf[x][d] = 0 .. Len(MessagesOf(x, d))
           /\ \A k \in 0 .. Len(MessagesOf(x, d)) : EndsOf[x][d][k] \in Nat /\ EndsOf[x][d][k] <= Len(Wires[x][d])
           /\ \A k \in 1 .. Len(MessagesOf(x, d)) :
                 LET h == MessagesOf(x, d)[k]
                     e == EndsOf[x][d][k - 1]
                 IN  /\ EndsOf[x][d][k] = e + 5 + Len(Body(x, h)) /\ Len(Body(x, h)) \in Nat
                     /\ \A i \in 1 .. 5 : Wires[x][d][e + i] = Heading(x, h)[i]
                     /\ \A i \in 1 .. Len(Body(x, h)) : Wires[x][d][e + 5 + i] = Body(x, h)[i]
  <1> DEFINE n == Len(MessagesOf(x, d))
             f == Parts(x, d)
  <1>1. n \in Nat /\ n \in 0 .. n /\ 0 \in 0 .. n
    BY CountOfMessages
  <1>2. \A k \in 0 .. n : WireUpTo(x, d, k) = Joined(f, k)
    <2> SUFFICES ASSUME NEW k \in 0 .. n PROVE WireUpTo(x, d, k) = Joined(f, k)
      OBVIOUS
    <2>1. \A j \in 1 .. k : f[j] = Heading(x, MessagesOf(x, d)[j]) \o Body(x, MessagesOf(x, d)[j])
      BY <1>1 DEF Parts
    <2>2. [j \in 1 .. k |-> f[j]] = [j \in 1 .. k |-> Heading(x, MessagesOf(x, d)[j]) \o Body(x, MessagesOf(x, d)[j])]
      BY <2>1
    <2> QED
      BY <2>2 DEF WireUpTo, Joined
  <1>3. /\ Wires[x][d] = WireUpTo(x, d, n)
        /\ EndsOf[x][d] = [k \in 0 .. n |-> Len(WireUpTo(x, d, k))]
    BY DEF Wires, EndsOf
  <1>4. \A k \in 0 .. n : EndsOf[x][d][k] = Len(Joined(f, k))
    BY <1>2, <1>3
  <1>5. Wires[x][d] = Joined(f, n)
    BY <1>1, <1>2, <1>3
  <1>6. f \in [1 .. n -> Seq(WireCell)]
    BY PartsOK
  <1>7. \A k \in 0 .. n : Joined(f, k) \in Seq(WireCell) /\ Len(Joined(f, k)) \in Nat
    <2>1. \A k \in 0 .. n : Joined(f, k) \in Seq(WireCell)
      BY <1>1, <1>6, JoinedIs
    <2> QED
      BY <2>1, LenProperties
  <1>8. EndsOf[x][d][0] = 0
    <2>1. Joined(f, 0) = <<>>
      BY <1>1, <1>6, JoinedIs
    <2> QED
      BY <1>1, <1>4, <2>1, EmptySeq
  <1>9. \A k \in 0 .. n : Len(Joined(f, k)) <= Len(Joined(f, n))
    <2>1. \A j, k \in 0 .. n : j <= k => Begins(Joined(f, j), Joined(f, k))
      BY <1>1, <1>6, JoinedIs, Zenon
    <2> QED
      BY <1>1, <2>1 DEF Begins
  <1>10. ASSUME NEW k \in 1 .. n
         PROVE  LET h == MessagesOf(x, d)[k]
                    e == EndsOf[x][d][k - 1]
                IN  /\ EndsOf[x][d][k] = e + 5 + Len(Body(x, h)) /\ Len(Body(x, h)) \in Nat
                    /\ \A i \in 1 .. 5 : Wires[x][d][e + i] = Heading(x, h)[i]
                    /\ \A i \in 1 .. Len(Body(x, h)) : Wires[x][d][e + 5 + i] = Body(x, h)[i]
    <2> DEFINE h == MessagesOf(x, d)[k]
               e == EndsOf[x][d][k - 1]
               l == Len(Body(x, h))
    <2>1. k \in 0 .. n /\ k - 1 \in 0 .. n
      BY <1>1
    <2>2. e = Len(Joined(f, k - 1)) /\ e \in Nat /\ EndsOf[x][d][k] = Len(Joined(f, k))
      BY <1>4, <1>7, <2>1
    <2>3. /\ Len(f[k]) = 5 + l /\ l \in Nat
          /\ \A i \in 1 .. 5 : f[k][i] = Heading(x, h)[i]
          /\ \A i \in 1 .. l : f[k][5 + i] = Body(x, h)[i]
      BY PartsOK
    <2> HIDE DEF f, n
    <2>4. Adds(WireCell, f, n, k)
      BY <1>1, <1>6, JoinedAt
    <2>5. /\ Len(Joined(f, k)) = Len(Joined(f, k - 1)) + Len(f[k])
          /\ \A i \in 1 .. Len(f[k]) : Joined(f, n)[Len(Joined(f, k - 1)) + i] = f[k][i]
      BY <2>4 DEF Adds
    <2> HIDE DEF h, e, l
    <2>6. \A i \in 1 .. 5 + l : Wires[x][d][e + i] = f[k][i]
      BY <1>5, <2>2, <2>3, <2>5
    <2>7. ASSUME NEW i \in 1 .. l PROVE Wires[x][d][e + 5 + i] = Body(x, h)[i]
      <3>1. 5 + i \in 1 .. 5 + l /\ e + (5 + i) = e + 5 + i
        BY <2>2, <2>3
      <3>2. Wires[x][d][e + (5 + i)] = f[k][5 + i]
        BY <2>6, <3>1
      <3> QED
        BY <2>3, <3>1, <3>2
    <2>8. ASSUME NEW i \in 1 .. 5 PROVE Wires[x][d][e + i] = Heading(x, h)[i]
      <3>1. i \in 1 .. 5 + l
        BY <2>3
      <3> QED
        BY <2>3, <2>6, <3>1
    <2>9. EndsOf[x][d][k] = e + 5 + l
      BY <2>2, <2>3, <2>5
    <2> QED
      BY <2>3, <2>7, <2>8, <2>9, Zenon DEF h, e, l
  <1>11. DOMAIN EndsOf[x][d] = 0 .. n
    BY <1>3
  <1> HIDE DEF n, f
  <1> QED
    BY <1>1, <1>4, <1>5, <1>7, <1>8, <1>9, <1>10, <1>11 DEF n

\* Messages end one after the other, each with a header at least.
LEMMA EndsGrow ==
    ASSUME Conforming, NEW x \in Exchanges, NEW d \in Dirs
    PROVE  /\ \A k \in 0 .. Len(MessagesOf(x, d)) : EndsOf[x][d][k] \in Nat
           /\ \A k \in 0 .. Len(MessagesOf(x, d)) : \A j \in 0 .. k : EndsOf[x][d][j] <= EndsOf[x][d][k]
           /\ \A k \in 1 .. Len(MessagesOf(x, d)) : \A j \in 0 .. k - 1 : EndsOf[x][d][j] + 5 <= EndsOf[x][d][k]
  <1> DEFINE n == Len(MessagesOf(x, d))
             E == EndsOf[x][d]
  <1>1. /\ n \in Nat /\ \A k \in 0 .. n : E[k] \in Nat
        /\ \A k \in 1 .. n : E[k - 1] + 5 <= E[k]
    <2>1. ASSUME NEW k \in 1 .. n PROVE E[k - 1] + 5 <= E[k]
      <3> DEFINE l == Len(Body(x, MessagesOf(x, d)[k]))
      <3>1. E[k] = E[k - 1] + 5 + l /\ l \in Nat
        BY EndsAre
      <3>2. \A j \in 0 .. n : E[j] \in Nat
        BY EndsAre
      <3>3. E[k - 1] \in Nat
        <4>1. k - 1 \in 0 .. n
          BY CountOfMessages
        <4> QED
          BY <3>2, <4>1
      <3> HIDE DEF l
      <3> QED
        BY <3>1, <3>3, SMTT(30)
    <2>2. \A j \in 0 .. n : E[j] \in Nat
      BY EndsAre
    <2> QED
      BY <2>1, <2>2, CountOfMessages
  <1> HIDE DEF n, E
  <1>2. \A k \in 0 .. n : \A j \in 0 .. k : E[j] <= E[k]
    <2> DEFINE T == {k \in 0 .. n : \E j \in 0 .. k : ~(E[j] <= E[k])}
    <2>1. SUFFICES ASSUME T # {} PROVE FALSE
      OBVIOUS
    <2>2. PICK k \in T : \A i \in T : k <= i
      <3>1. T \subseteq Nat
        OBVIOUS
      <3> QED
        BY <2>1, <3>1, LeastExists
    <2>3. PICK j \in 0 .. k : ~(E[j] <= E[k])
      BY <2>2
    <2>4. CASE k = 0 \/ j = k
      <3>1. j = k /\ j \in 0 .. n
        BY <2>2, <2>3, <2>4
      <3> QED
        BY <1>1, <2>3, <3>1
    <2>5. CASE k # 0 /\ j # k
      <3>1. k \in 1 .. n /\ k - 1 \in 0 .. n /\ j \in 0 .. k - 1 /\ j \in 0 .. n /\ k \in 0 .. n
        BY <1>1, <2>2, <2>5
      <3>2. k - 1 \notin T
        <4>1. k \in Nat /\ ~(k <= k - 1)
          BY <2>2
        <4> HIDE DEF T
        <4> QED
          BY <2>2, <4>1
      <3>3. E[j] <= E[k - 1]
        BY <3>1, <3>2
      <3>4. E[k - 1] + 5 <= E[k] /\ E[j] \in Nat /\ E[k] \in Nat /\ E[k - 1] \in Nat
        BY <1>1, <3>1
      <3> QED
        BY <2>3, <3>3, <3>4
    <2> QED
      BY <2>4, <2>5
  <1>3. ASSUME NEW k \in 1 .. n, NEW j \in 0 .. k - 1
        PROVE  E[j] + 5 <= E[k]
    <2>1. k - 1 \in 0 .. n /\ k \in 0 .. n /\ j \in 0 .. n
      BY <1>1
    <2>2. E[j] <= E[k - 1] /\ E[k - 1] + 5 <= E[k] /\ E[j] \in Nat /\ E[k] \in Nat /\ E[k - 1] \in Nat
      BY <1>1, <1>2, <2>1
    <2> QED
      BY <2>2
  <1> QED
    BY <1>1, <1>2, <1>3 DEF n, E

\* The messages that end, and do not end, with the first u cells
LEMMA EndsOrder ==
    ASSUME Conforming, NEW x \in Exchanges, NEW d \in Dirs,
           NEW j \in 0 .. Len(MessagesOf(x, d)), NEW k \in 0 .. Len(MessagesOf(x, d)),
           EndsOf[x][d][j] < EndsOf[x][d][k]
    PROVE  j < k
  <1>1. Len(MessagesOf(x, d)) \in Nat
    BY CountOfMessages
  <1>2. ASSUME ~(j < k) PROVE FALSE
    <2>1. k \in 0 .. j /\ j \in 0 .. Len(MessagesOf(x, d))
      BY <1>1, <1>2
    <2>2. EndsOf[x][d][k] <= EndsOf[x][d][j] /\ EndsOf[x][d][k] \in Nat /\ EndsOf[x][d][j] \in Nat
      BY <2>1, EndsGrow
    <2> QED
      BY <2>2
  <1> QED
    BY <1>2

\* The chunks of the kth message of direction d
LEMMA ChunksAre ==
    ASSUME Conforming, NEW x \in Exchanges, NEW d \in Dirs, NEW k \in 1 .. Len(MessagesOf(x, d)),
           Framing(x, MessagesOf(x, d)[k]) = "chunked", NEW j \in 0 .. Len(Chunks)
    PROVE  LET h == MessagesOf(x, d)[k]
               at == EndsOf[x][d][k - 1] + 5 + ChunkEndAt(x, h, j)
               n == NextSize(j)
           IN  /\ ChunkEndAt(x, h, 0) = 0 /\ ChunkEndAt(x, h, j) \in Nat /\ n \in Nat
               /\ ChunkEndAt(x, h, j + 1) = ChunkEndAt(x, h, j) + n + 5
               /\ j = Len(Chunks) => EndsOf[x][d][k] = at + n + 5
               /\ at + n + 5 <= EndsOf[x][d][k]
               /\ \A i \in 1 .. n + 5 : Wires[x][d][at + i] = Chunk(x, h, n)[i]
  <1> DEFINE h == MessagesOf(x, d)[k]
             e == EndsOf[x][d][k - 1]
             c == ChunkEndAt(x, h, j)
             at == EndsOf[x][d][k - 1] + 5 + ChunkEndAt(x, h, j)
             n == NextSize(j)
             f == AllChunks(x, h)
             l == Len(Chunks) + 1
             b == Body(x, h)
  <1>1. h \in Headers /\ Asked(x, h) \in Headers \cup {NoHeader}
    BY MessageOK
  <1>2. /\ e \in Nat /\ EndsOf[x][d][k] = e + 5 + Len(b) /\ Len(b) \in Nat
    <2>1. k - 1 \in 0 .. Len(MessagesOf(x, d))
      BY CountOfMessages
    <2>2. \A i \in 0 .. Len(MessagesOf(x, d)) : EndsOf[x][d][i] \in Nat
      BY EndsAre
    <2> QED
      BY <2>1, <2>2, EndsAre
  <1>3. \A i \in 1 .. Len(b) : Wires[x][d][e + 5 + i] = b[i]
    BY EndsAre
  <1> HIDE DEF h
  <1>4. b = Joined(f, l)
    BY <1>1, BodyOK DEF h
  <1>5. f \in [1 .. l -> Seq(WireCell)]
    BY <1>1, AllChunksOK
  <1> DEFINE q == j + 1
  <1>6. /\ l \in Nat /\ q \in 1 .. l /\ q - 1 = j /\ q \in Nat /\ n \in Nat /\ Len(Chunks) \in Nat
        /\ j = Len(Chunks) => q = l
    BY NextSizeIs
  <1>7. f[q] = Chunk(x, h, n) /\ Len(Chunk(x, h, n)) = n + 5
    <2>1. f[q] = Chunk(x, h, NextSize(q - 1))
      BY <1>6 DEF AllChunks
    <2> QED
      BY <1>1, <1>6, <2>1, ChunkOK
  <1>8. c = Len(Joined(f, j)) /\ ChunkEndAt(x, h, q) = Len(Joined(f, q))
    BY DEF ChunkEndAt
  <1>9. ChunkEndAt(x, h, 0) = 0
    <2>1. Joined(f, 0) = <<>>
      BY <1>5, <1>6, JoinedIs
    <2> QED
      BY <2>1, EmptySeq DEF ChunkEndAt
  <1> HIDE DEF f, l, b, e, q, c, n
  <1>10. Adds(WireCell, f, l, q)
    BY <1>5, <1>6, JoinedAt
  <1>11. /\ c \in Nat /\ ChunkEndAt(x, h, q) = c + n + 5 /\ c + n + 5 <= Len(b)
         /\ j = Len(Chunks) => Len(b) = c + n + 5
    <2>1. /\ Len(Joined(f, q - 1)) \in Nat
          /\ Len(Joined(f, q)) = Len(Joined(f, q - 1)) + Len(f[q])
          /\ Len(Joined(f, q)) <= Len(Joined(f, l))
      BY <1>10 DEF Adds
    <2>2. /\ c \in Nat /\ Len(Joined(f, q)) = c + (n + 5) /\ Len(Joined(f, q)) <= Len(b)
      BY <1>4, <1>6, <1>7, <1>8, <2>1
    <2>3. j = Len(Chunks) => Len(b) = c + (n + 5)
      BY <1>4, <1>6, <2>2
    <2> QED
      BY <1>6, <1>8, <2>2, <2>3
  <1>12. ASSUME NEW i \in 1 .. n + 5
         PROVE  b[c + i] = Chunk(x, h, n)[i]
    <2>1. i \in 1 .. Len(f[q])
      BY <1>7
    <2>2. Joined(f, l)[Len(Joined(f, q - 1)) + i] = f[q][i]
      BY <1>10, <2>1 DEF Adds
    <2> QED
      BY <1>4, <1>6, <1>7, <1>8, <2>2
  <1>14. ASSUME NEW i \in 1 .. n + 5
         PROVE  Wires[x][d][e + 5 + c + i] = Chunk(x, h, n)[i]
    <2>1. c + i \in 1 .. Len(b) /\ e + 5 + (c + i) = e + 5 + c + i
      BY <1>2, <1>6, <1>11
    <2>2. Wires[x][d][e + 5 + (c + i)] = b[c + i]
      BY <1>3, <2>1
    <2> QED
      BY <1>12, <2>1, <2>2
  <1>13. /\ j = Len(Chunks) => EndsOf[x][d][k] = e + 5 + c + n + 5
         /\ e + 5 + c + n + 5 <= EndsOf[x][d][k]
    BY <1>2, <1>6, <1>11, SMTT(30)
  <1> QED
    BY <1>6, <1>9, <1>11, <1>13, <1>14 DEF h, e, c, n, q

-----------------------------------------------------------------------------
(* What is due *)

\* The events due with each cell of direction d
Events(x, d) == [i \in 1 .. Len(Wires[x][d]) |-> Wires[x][d][i].events]

\* What is due is joined from the events of the cells, and only grows.
LEMMA DueIs ==
    ASSUME Conforming, NEW x \in Exchanges, NEW d \in Dirs
    PROVE  /\ Events(x, d) \in [1 .. Len(Wires[x][d]) -> Seq(Event)]
           /\ Len(Wires[x][d]) \in Nat
           /\ \A n \in 0 .. Len(Wires[x][d]) : DueWith[x][d][n] = Joined(Events(x, d), n)
           /\ \A n \in 0 .. Len(Wires[x][d]) : DueWith[x][d][n] \in Seq(Event)
           /\ DueWith[x][d][0] = <<>>
           /\ \A n \in 0 .. Len(Wires[x][d]) : \A m \in 0 .. n : Begins(DueWith[x][d][m], DueWith[x][d][n])
  <1>1. Wires[x][d] \in Seq(WireCell) /\ Len(Wires[x][d]) \in Nat
    BY EndsAre
  <1> DEFINE l == Len(Wires[x][d])
             f == Events(x, d)
  <1>2. f \in [1 .. l -> Seq(Event)]
    <2>1. \A i \in 1 .. l : Wires[x][d][i] \in WireCell
      BY <1>1, ElementOfSeq
    <2> QED
      BY <2>1 DEF Events, WireCell
  <1>3. ASSUME NEW n \in 0 .. l PROVE DueWith[x][d][n] = Joined(f, n)
    <2>1. \A i \in 1 .. n : f[i] = Wires[x][d][i].events
      BY <1>1 DEF Events
    <2>2. [i \in 1 .. n |-> f[i]] = [i \in 1 .. n |-> Wires[x][d][i].events]
      BY <2>1
    <2>3. DueWith[x][d][n] = FlattenSeq([i \in 1 .. n |-> Wires[x][d][i].events])
      BY DEF DueWith
    <2> QED
      BY <2>2, <2>3 DEF Joined
  <1>4. l \in Nat
    BY <1>1
  <1> HIDE DEF l, f
  <1>5. \A n \in 0 .. l : Joined(f, n) \in Seq(Event)
    BY <1>2, <1>4, JoinedIs
  <1>6. Joined(f, 0) = <<>>
    BY <1>2, <1>4, JoinedIs
  <1>7. \A m, n \in 0 .. l : m <= n => Begins(Joined(f, m), Joined(f, n))
    BY <1>2, <1>4, JoinedIs
  <1>8. ASSUME NEW n \in 0 .. l, NEW m \in 0 .. n
        PROVE  Begins(DueWith[x][d][m], DueWith[x][d][n])
    <2>1. m \in 0 .. l /\ m <= n
      BY <1>4
    <2> QED
      BY <1>3, <1>7, <2>1
  <1>9. 0 \in 0 .. l
    BY <1>4
  <1> QED
    BY <1>2, <1>3, <1>4, <1>5, <1>6, <1>8, <1>9 DEF l, f

\* Nothing is due with quiet cells.
LEMMA DueNothing ==
    ASSUME Conforming, NEW x \in Exchanges, NEW d \in Dirs, NEW u \in Nat, NEW m \in Nat,
           u + m <= Len(Wires[x][d]), \A i \in 1 .. m : Wires[x][d][u + i].events = <<>>
    PROVE  DueWith[x][d][u + m] = DueWith[x][d][u]
  <1> DEFINE l == Len(Wires[x][d])
             f == Events(x, d)
  <1>1. f \in [1 .. l -> Seq(Event)] /\ l \in Nat
    BY DueIs
  <1>2. ASSUME NEW i \in u + 1 .. u + m PROVE f[i] = <<>>
    <2>1. i - u \in 1 .. m /\ u + (i - u) = i /\ i \in 1 .. l
      BY <1>1
    <2>2. Wires[x][d][u + (i - u)].events = <<>>
      BY <2>1
    <2>3. Wires[x][d][i].events = <<>>
      BY <2>1, <2>2
    <2> QED
      BY <2>1, <2>3 DEF Events
  <1>3. u \in 0 .. l /\ u + m \in 0 .. l /\ u + m <= l
    BY <1>1
  <1> HIDE DEF l, f
  <1>4. Joined(f, u + m) = Joined(f, u)
    BY <1>1, <1>2, <1>3, JoinedNothing, ZenonT(60)
  <1> QED
    BY <1>3, <1>4, DueIs DEF l, f

\* What is due with one cell
LEMMA DueNext ==
    ASSUME Conforming, NEW x \in Exchanges, NEW d \in Dirs, NEW u \in Nat, u + 1 <= Len(Wires[x][d])
    PROVE  DueWith[x][d][u + 1] = DueWith[x][d][u] \o Wires[x][d][u + 1].events
  <1> DEFINE l == Len(Wires[x][d])
             f == Events(x, d)
  <1>1. f \in [1 .. l -> Seq(Event)] /\ l \in Nat
    BY DueIs
  <1>2. u \in 0 .. l /\ u + 1 \in 0 .. l /\ u + 1 \in 1 .. l /\ (u + 1) - 1 = u
    BY <1>1
  <1>3. f[u + 1] = Wires[x][d][u + 1].events
    BY <1>2 DEF Events
  <1> HIDE DEF l, f
  <1>4. \A k \in 1 .. l : Joined(f, k) = Joined(f, k - 1) \o f[k]
    BY <1>1, JoinedIs
  <1>5. Joined(f, u + 1) = Joined(f, u) \o f[u + 1]
    BY <1>2, <1>4
  <1> QED
    BY <1>2, <1>3, <1>5, DueIs DEF l, f

\* Each of m cells carries one event, and these are g.
Carries(x, d, u, m, g) == \A i \in 1 .. m : Wires[x][d][u + i].events = <<g[i]>>

\* What is due with cells of payload
LEMMA DuePieces ==
    ASSUME Conforming, NEW x \in Exchanges, NEW d \in Dirs, NEW u \in Nat, NEW m \in Nat,
           NEW g \in [1 .. m -> Event],
           u + m <= Len(Wires[x][d]), Carries(x, d, u, m, g)
    PROVE  DueWith[x][d][u + m] = DueWith[x][d][u] \o g
  <1> DEFINE l == Len(Wires[x][d])
             f == Events(x, d)
  <1>1. f \in [1 .. l -> Seq(Event)] /\ l \in Nat
    BY DueIs
  <1>2. ASSUME NEW i \in 1 .. m PROVE f[u + i] = <<g[i]>>
    <2>1. u + i \in 1 .. l
      BY <1>1
    <2> QED
      BY <2>1 DEF Events, Carries
  <1>3. u \in 0 .. l /\ u + m \in 0 .. l /\ u + m <= l
    BY <1>1
  <1>4. Singles(f, u, m, g)
    BY <1>2 DEF Singles
  <1> HIDE DEF l, f
  <1>5. Appends(f, u, m, g)
    BY <1>1, <1>3, <1>4, JoinedSingles
  <1> QED
    BY <1>3, <1>5, DueIs DEF l, f, Appends

\* A cell carries an event and more.
CarriesMore(x, d, w, event, last) == Wires[x][d][w].events = <<event>> \o last

\* The events g and what comes last are due with m cells behind the first u.
DueBehind(x, d, u, m, g, last) == DueWith[x][d][u + m] = (DueWith[x][d][u] \o g) \o last

\* The same, and the last cell carries even more.
LEMMA DueLast ==
    ASSUME Conforming, NEW x \in Exchanges, NEW d \in Dirs, NEW u \in Nat, NEW m \in Nat, m > 0,
           NEW g \in [1 .. m -> Event], NEW last \in Seq(Event),
           u + m <= Len(Wires[x][d]), Carries(x, d, u, m - 1, g),
           CarriesMore(x, d, u + m, g[m], last)
    PROVE  DueBehind(x, d, u, m, g, last)
  <1> DEFINE l == Len(Wires[x][d])
             v == u + (m - 1)
             a == DueWith[x][d][u]
             b == Initial(g, m - 1)
             c == <<g[m]>>
  <1>1. /\ l \in Nat /\ m - 1 \in Nat /\ v \in Nat /\ v + 1 = u + m /\ m \in 1 .. m
        /\ u \in 0 .. l /\ v <= l /\ v + 1 <= l
    BY DueIs
  <1>2. b \in [1 .. m - 1 -> Event] /\ b \in Seq(Event) /\ b \o c = Initial(g, m) /\ Initial(g, m) = g
    <2>1. Initial(g, m) = g
      BY DEF Initial
    <2>2. Follows(Event, g, m)
      BY <1>1, OneByOne
    <2> QED
      BY <2>1, <2>2 DEF Follows
  <1>3. Carries(x, d, u, m - 1, b)
    BY DEF Carries, Initial
  <1>4. a \in Seq(Event) /\ c \in Seq(Event)
    <2>1. a \in Seq(Event)
      BY <1>1, DueIs
    <2> QED
      BY <1>1, <2>1
  <1>5. DueWith[x][d][v] = a \o b
    BY <1>1, <1>2, <1>3, DuePieces, ZenonT(60)
  <1>6. DueWith[x][d][v + 1] = DueWith[x][d][v] \o Wires[x][d][v + 1].events
    BY <1>1, DueNext
  <1> HIDE DEF a, b, c, v
  <1>7. DueWith[x][d][u + m] = (a \o b) \o (c \o last)
    BY <1>1, <1>5, <1>6 DEF c, CarriesMore
  <1>8. a \o b \in Seq(Event)
    BY <1>2, <1>4, ConcatProperties
  <1>9. (a \o b) \o (c \o last) = ((a \o b) \o c) \o last
    <2>1. AnyOrder(a \o b, c, last)
      BY <1>4, <1>8, Associative
    <2> QED
      BY <2>1 DEF AnyOrder
  <1>10. (a \o b) \o c = a \o (b \o c)
    <2>1. AnyOrder(a, b, c)
      BY <1>2, <1>4, Associative
    <2> QED
      BY <2>1 DEF AnyOrder
  <1> QED
    BY <1>2, <1>7, <1>9, <1>10, Zenon DEF a, DueBehind

-----------------------------------------------------------------------------
(* What is right of one direction. It speaks of                            *)
(*   x   the exchange, and d the direction,                                *)
(*   s   the decoder's state of it, n the cells captured, u those used,    *)
(*   c   its counters, k the messages that have begun,                     *)
(*   l   what its listeners were told,                                     *)
(*   closing   whether onClose() was called.                               *)

\* The counters of a direction
Kind(d) == IF d = "in" THEN "requests" ELSE "responses"

\* The cells used of n that were captured
Used(s, n) == n - Len(s.buffer)

\* The buffer is what was captured and not used yet.
Buffered(x, d, s, n) ==
    /\ Len(s.buffer) <= n /\ n <= Len(Wires[x][d])
    /\ \A i \in 1 .. Len(s.buffer) : s.buffer[i] = Wires[x][d][Used(s, n) + i].cell

\* The decoder is at the (j+1)st chunk of a body.
InChunk(x, s, body, u, j) ==
    LET at == body + ChunkEndAt(x, s.header, j)
    IN  /\ s.state = "CHUNK_SIZE" => u = at
        /\ s.state = "CHUNK_DATA" => s.chunkLength = NextSize(j) /\ u = at + 3 + s.contentReceived
        /\ s.state = "CHUNK_END" => s.chunkLength = NextSize(j) /\ u = at + 3 + NextSize(j)

\* The states within a chunked body
ChunkStates == {"CHUNK_SIZE", "CHUNK_DATA", "CHUNK_END"}

\* Within a message, the state says what is used of it.
InMessage(x, d, s, k, u) ==
    LET framing == Framing(x, s.header)
        body == EndsOf[x][d][k - 1] + 5
    IN  /\ s.state = "HEADER" => framing # "close" /\ u = EndsOf[x][d][k]
        /\ s.state = "CONTENT" =>
              /\ framing = "length" /\ s.contentLength = s.header.length /\ u = body + s.contentReceived
              /\ s.contentReceived < s.contentLength \/ s.contentLength = 0
        /\ s.state = "UNKNOWN_CONTENT" => framing = "close" /\ body <= u
        /\ s.state \in ChunkStates =>
              framing = "chunked" /\ \E j \in 0 .. Len(Chunks) : InChunk(x, s, body, u, j)

\* k messages have begun, and u cells are used.
Placed(x, d, s, k, u) ==
    /\ k \in 0 .. Len(MessagesOf(x, d)) /\ s.state # "CORRUPTED"
    /\ k = 0 => s.state = "HEADER" /\ s.header = NoHeader /\ u = 0
    /\ k > 0 =>
          /\ s.header = MessagesOf(x, d)[k] /\ s.unzip = s.header.gzip /\ s.isRequest = (d = "in")
          /\ InMessage(x, d, s, k, u)

\* Which request a response is told with can only be right in this order.
Seen(x, events) == IF x.order = "sequential" THEN events ELSE Unpaired(events)

\* The end of empty content is told by another call of check().
Pending(s) == IF s.state = "CONTENT" /\ s.contentLength = 0 THEN <<Finished(s.header)>> ELSE <<>>

\* What was told, and is to be told without more cells, is what is due.
Told(x, d, s, u, l) == Seen(x, l \o Pending(s)) = Seen(x, DueWith[x][d][u])

\* The headers told in l
HeadersIn(l) == {l[i].header : i \in {j \in DOMAIN l : l[j].what = "header"}}

\* The first k messages of direction d
FirstMessages(x, d, k) == {MessagesOf(x, d)[j] : j \in 1 .. k}

\* Is the latest message over, as far as it is counted?
IsOver(s, closing) == s.state = "HEADER" \/ (s.state = "UNKNOWN_CONTENT" /\ closing)

\* The counters count the messages that have begun.
Counted(x, d, s, k, c, l, closing) ==
    /\ HeadersIn(l) = FirstMessages(x, d, k)
    /\ c["numNormal"] + c["numChunked"] + c["numUnkownSize"] + c["numWithoutPayload"] = k
    /\ c["numOK"] = IF IsOver(s, closing) THEN k ELSE k - 1

\* All this of one direction
Right(x, d, s, n, c, l, closing) ==
    LET k == c["numHeaders"]
        u == Used(s, n)
    IN  /\ Buffered(x, d, s, n)
        /\ Placed(x, d, s, k, u)
        /\ Told(x, d, s, u, l)
        /\ Counted(x, d, s, k, c, l, closing)

-----------------------------------------------------------------------------
(* Of these parts *)

\* What an event says, but for the request that may be another one
SeenAs(x, e) == IF x.order = "sequential" THEN e ELSE [e EXCEPT !.request = NoHeader]

\* What is seen of events is a sequence of events.
LEMMA SeenIs ==
    ASSUME NEW x, NEW l \in Seq(Event)
    PROVE  /\ Seen(x, l) \in Seq(Event) /\ Len(Seen(x, l)) = Len(l) /\ Len(l) \in Nat
           /\ \A i \in 1 .. Len(l) : l[i] \in Event
           /\ \A i \in 1 .. Len(l) : Seen(x, l)[i] = SeenAs(x, l[i])
  <1>1. Len(l) \in Nat /\ DOMAIN l = 1 .. Len(l) /\ \A i \in 1 .. Len(l) : l[i] \in Event
    BY LenProperties, ElementOfSeq
  <1>2. \A e \in Event : [e EXCEPT !.request = NoHeader] \in Event
    BY DEF Event
  <1> DEFINE f == [i \in 1 .. Len(l) |-> [l[i] EXCEPT !.request = NoHeader]]
  <1>3. f \in [1 .. Len(l) -> Event] /\ Unpaired(l) = f
    BY <1>1, <1>2 DEF Unpaired
  <1>4. \A i \in 1 .. Len(l) : f[i] = [l[i] EXCEPT !.request = NoHeader]
    OBVIOUS
  <1> HIDE DEF f
  <1>5. f \in Seq(Event) /\ Len(f) = Len(l)
    BY <1>1, <1>3, FunctionIsSeq
  <1> QED
    BY <1>1, <1>3, <1>4, <1>5 DEF Seen, SeenAs

\* What is alike looks the same.
LEMMA SeenSame ==
    ASSUME NEW x, NEW l \in Seq(Event), NEW m \in Seq(Event), Len(l) = Len(m),
           \A i \in 1 .. Len(l) : SeenAs(x, l[i]) = SeenAs(x, m[i])
    PROVE  Seen(x, l) = Seen(x, m)
  <1>1. /\ Seen(x, l) \in Seq(Event) /\ Seen(x, m) \in Seq(Event)
        /\ Len(Seen(x, l)) = Len(l) /\ Len(Seen(x, m)) = Len(l) /\ Len(l) \in Nat
    BY SeenIs
  <1>2. ASSUME NEW i \in 1 .. Len(l) PROVE Seen(x, l)[i] = Seen(x, m)[i]
    <2>1. Seen(x, l)[i] = SeenAs(x, l[i]) /\ Seen(x, m)[i] = SeenAs(x, m[i])
      BY SeenIs
    <2> QED
      BY <2>1
  <1> QED
    BY <1>1, <1>2, SeqEqual

\* Event by event
LEMMA SeenConcat ==
    ASSUME NEW x, NEW l \in Seq(Event), NEW m \in Seq(Event)
    PROVE  Seen(x, l \o m) = Seen(x, l) \o Seen(x, m)
  <1> DEFINE a == Seen(x, l)
             b == Seen(x, m)
             lm == l \o m
             c == Seen(x, lm)
  <1>1. lm \in Seq(Event) /\ Len(lm) = Len(l) + Len(m)
    BY ConcatAt
  <1>2. /\ \A i \in 1 .. Len(l) : lm[i] = l[i]
        /\ \A i \in 1 .. Len(m) : lm[Len(l) + i] = m[i]
    BY ConcatAt
  <1> HIDE DEF lm
  <1>3. /\ a \in Seq(Event) /\ b \in Seq(Event) /\ Len(a) = Len(l) /\ Len(b) = Len(m)
        /\ c \in Seq(Event) /\ Len(c) = Len(lm) /\ Len(l) \in Nat /\ Len(m) \in Nat
    BY <1>1, SeenIs
  <1>4. /\ \A i \in 1 .. Len(l) : a[i] = SeenAs(x, l[i])
        /\ \A i \in 1 .. Len(m) : b[i] = SeenAs(x, m[i])
        /\ \A i \in 1 .. Len(lm) : c[i] = SeenAs(x, lm[i])
    BY <1>1, SeenIs
  <1> HIDE DEF a, b, c
  <1>5. a \in Seq(Event) /\ b \in Seq(Event)
    BY <1>3
  <1>6. a \o b \in Seq(Event) /\ Len(a \o b) = Len(a) + Len(b)
    BY <1>5, ConcatAt
  <1>7. /\ \A i \in 1 .. Len(a) : (a \o b)[i] = a[i]
        /\ \A i \in 1 .. Len(b) : (a \o b)[Len(a) + i] = b[i]
    BY <1>5, ConcatAt
  <1>8. ASSUME NEW i \in 1 .. Len(c) PROVE (a \o b)[i] = c[i]
    <2>1. CASE i <= Len(l)
      <3>1. i \in 1 .. Len(l) /\ i \in 1 .. Len(lm) /\ i \in 1 .. Len(a)
        BY <1>1, <1>3, <2>1
      <3>2. (a \o b)[i] = a[i] /\ lm[i] = l[i]
        BY <1>2, <1>7, <3>1
      <3> QED
        BY <1>4, <3>1, <3>2
    <2>2. CASE ~(i <= Len(l))
      <3>1. PICK j \in 1 .. Len(m) : i = Len(l) + j
        <4>1. i - Len(l) \in 1 .. Len(m) /\ i = Len(l) + (i - Len(l))
          BY <1>1, <1>3, <2>2
        <4> QED
          BY <4>1
      <3>2. j \in 1 .. Len(b) /\ i \in 1 .. Len(lm) /\ i = Len(a) + j
        BY <1>3, <3>1
      <3>3. (a \o b)[i] = b[j] /\ lm[i] = m[j]
        BY <1>2, <1>7, <3>1, <3>2
      <3>4. b[j] = SeenAs(x, m[j]) /\ c[i] = SeenAs(x, lm[i])
        BY <1>4, <3>2
      <3> QED
        BY <3>3, <3>4
    <2> QED
      BY <2>1, <2>2
  <1>9. Len(c) = Len(a \o b) /\ c \in Seq(Event)
    BY <1>1, <1>3, <1>6
  <1> QED
    BY <1>6, <1>8, <1>9, SeqEqual DEF a, b, c, lm

\* What is told goes on as what is due.
LEMMA SeenOn ==
    ASSUME NEW x, NEW l \in Seq(Event), NEW m \in Seq(Event), NEW told \in Seq(Event), NEW due \in Seq(Event),
           Seen(x, l) = Seen(x, m), Seen(x, told) = Seen(x, due)
    PROVE  Seen(x, l \o told) = Seen(x, m \o due)
  <1>1. Seen(x, l \o told) = Seen(x, l) \o Seen(x, told)
    BY SeenConcat
  <1>2. Seen(x, m \o due) = Seen(x, m) \o Seen(x, due)
    BY SeenConcat
  <1> QED
    BY <1>1, <1>2

\* The headers of a log that goes on
LEMMA HeadersConcat ==
    ASSUME NEW l \in Seq(Event), NEW m \in Seq(Event)
    PROVE  HeadersIn(l \o m) = HeadersIn(l) \cup HeadersIn(m)
  <1>1. l \o m \in Seq(Event) /\ Len(l \o m) = Len(l) + Len(m)
    BY ConcatAt
  <1>2. /\ \A i \in 1 .. Len(l) : (l \o m)[i] = l[i]
        /\ \A i \in 1 .. Len(m) : (l \o m)[Len(l) + i] = m[i]
    BY ConcatAt
  <1> DEFINE lm == l \o m
  <1> HIDE DEF lm
  <1>3. /\ Len(l) \in Nat /\ Len(m) \in Nat /\ Len(lm) = Len(l) + Len(m)
        /\ DOMAIN l = 1 .. Len(l) /\ DOMAIN m = 1 .. Len(m) /\ DOMAIN lm = 1 .. Len(lm)
    BY <1>1, LenProperties DEF lm
  <1>4. ASSUME NEW h \in HeadersIn(lm) PROVE h \in HeadersIn(l) \cup HeadersIn(m)
    <2>1. PICK i \in 1 .. Len(lm) : lm[i].what = "header" /\ h = lm[i].header
      BY <1>3 DEF HeadersIn
    <2>2. CASE i <= Len(l)
      <3>1. i \in 1 .. Len(l) /\ lm[i] = l[i]
        BY <1>2, <1>3, <2>2 DEF lm
      <3> QED
        BY <1>3, <2>1, <3>1 DEF HeadersIn
    <2>3. CASE ~(i <= Len(l))
      <3>1. i - Len(l) \in 1 .. Len(m) /\ Len(l) + (i - Len(l)) = i
        BY <1>3, <2>3
      <3>2. lm[i] = m[i - Len(l)]
        BY <1>2, <3>1 DEF lm
      <3> QED
        BY <1>3, <2>1, <3>1, <3>2 DEF HeadersIn
    <2> QED
      BY <2>2, <2>3
  <1>5. ASSUME NEW h \in HeadersIn(l) PROVE h \in HeadersIn(lm)
    <2>1. PICK i \in 1 .. Len(l) : l[i].what = "header" /\ h = l[i].header
      BY <1>3 DEF HeadersIn
    <2>2. i \in 1 .. Len(lm) /\ lm[i] = l[i]
      BY <1>2, <1>3 DEF lm
    <2> QED
      BY <1>3, <2>1, <2>2 DEF HeadersIn
  <1>6. ASSUME NEW h \in HeadersIn(m) PROVE h \in HeadersIn(lm)
    <2>1. PICK i \in 1 .. Len(m) : m[i].what = "header" /\ h = m[i].header
      BY <1>3 DEF HeadersIn
    <2>2. Len(l) + i \in 1 .. Len(lm) /\ lm[Len(l) + i] = m[i]
      BY <1>2, <1>3 DEF lm
    <2> QED
      BY <1>3, <2>1, <2>2 DEF HeadersIn
  <1> QED
    BY <1>4, <1>5, <1>6 DEF lm

\* Rest() is what lies behind.
LEMMA RestAt ==
    ASSUME NEW b \in Seq(Cell), NEW m \in 0 .. Len(b)
    PROVE  \A i \in 1 .. Len(b) - m : Rest(b, m)[i] = b[m + i]
  <1>1. Len(b) \in Nat
    BY LenProperties
  <1>2. \A i \in m + 1 .. Len(b) : b[i] \in Cell
    BY <1>1, ElementOfSeq
  <1>3. \A i \in 1 .. Len(b) - (m + 1) + 1 : SubSeq(b, m + 1, Len(b))[i] = b[m + 1 + i - 1]
    BY <1>1, <1>2, SubSeqProperties
  <1> SUFFICES ASSUME NEW i \in 1 .. Len(b) - m PROVE Rest(b, m)[i] = b[m + i]
    OBVIOUS
  <1>4. i \in 1 .. Len(b) - (m + 1) + 1 /\ m + 1 + i - 1 = m + i
    BY <1>1
  <1> QED
    BY <1>3, <1>4 DEF Rest

\* t is s without the first m cells of its buffer.
Takes(s, t, m) == s.buffer \in Seq(Cell) /\ m \in 0 .. Len(s.buffer) /\ t.buffer = Rest(s.buffer, m)

\* That many more are used.
Uses(x, d, s, t, n, m) == Buffered(x, d, t, n) /\ Used(t, n) = Used(s, n) + m

\* Taking m cells from the buffer uses them.
LEMMA BufferedRest ==
    ASSUME NEW x, NEW d, NEW s, NEW t, NEW n \in Nat, NEW m, Buffered(x, d, s, n), Takes(s, t, m)
    PROVE  Uses(x, d, s, t, n, m)
  <1> DEFINE b == s.buffer
             r == t.buffer
             u == Used(s, n)
  <1>5. b \in Seq(Cell) /\ m \in 0 .. Len(b) /\ r = Rest(b, m)
    BY DEF Takes
  <1>6. Len(b) \in Nat
    BY <1>5, LenProperties
  <1>7. Rest(b, m) \in Seq(Cell) /\ Len(Rest(b, m)) = Len(b) - m
    BY <1>5, RestOK
  <1>1. Len(b) \in Nat /\ r \in Seq(Cell) /\ Len(r) = Len(b) - m /\ m \in Nat /\ m <= Len(b)
    BY <1>5, <1>6, <1>7
  <1>2. u = n - Len(b) /\ u \in Int /\ Used(t, n) = u + m
    BY <1>1 DEF Used
  <1>3. ASSUME NEW i \in 1 .. Len(r) PROVE r[i] = Wires[x][d][u + m + i].cell
    <2>1. i \in 1 .. Len(b) - m /\ m + i \in 1 .. Len(b) /\ u + (m + i) = u + m + i
      BY <1>1, <1>2
    <2>2. r[i] = b[m + i]
      <3>1. \A e \in 1 .. Len(b) - m : Rest(b, m)[e] = b[m + e]
        BY <1>5, RestAt
      <3> QED
        BY <1>5, <2>1, <3>1
    <2>3. b[m + i] = Wires[x][d][u + (m + i)].cell
      BY <2>1 DEF Buffered
    <2> QED
      BY <2>1, <2>2, <2>3
  <1>4. Len(r) <= n /\ n <= Len(Wires[x][d])
    <2>1. Len(b) <= n /\ n <= Len(Wires[x][d])
      BY DEF Buffered
    <2> QED
      BY <1>1, <2>1
  <1> QED
    BY <1>2, <1>3, <1>4 DEF Buffered, Uses

-----------------------------------------------------------------------------
(* What the sections find in the buffer *)

\* The first of a set of numbers
LEMMA FirstIs ==
    ASSUME NEW S, S \subseteq Nat, NEW m \in S, \A i \in S : m <= i
    PROVE  First(S) = m
  <1> DEFINE f == First(S)
  <1>1. f \in S /\ \A j \in S : f <= j
    BY DEF First
  <1> HIDE DEF f
  <1>2. f <= m /\ m <= f /\ f \in Nat /\ m \in Nat
    BY <1>1
  <1>3. f = m
    BY <1>2
  <1> QED
    BY <1>3 DEF f

\* A header that comes ends with its fifth cell.
LEMMA HeaderEndIs ==
    ASSUME NEW b \in Seq(Cell),
           1 <= Len(b) => b[1].kind = "head",
           2 <= Len(b) => b[2].kind = "cr",
           3 <= Len(b) => b[3].kind = "lf",
           4 <= Len(b) => b[4].kind = "cr",
           5 <= Len(b) => b[5].kind = "lf"
    PROVE  /\ HeaderEnds(b) # {} <=> 5 <= Len(b)
           /\ HeaderEnds(b) # {} => First(HeaderEnds(b)) = 5
  <1>1. Len(b) \in Nat
    BY LenProperties
  <1>2. \A i \in HeaderEnds(b) : i \in 1 .. Len(b) /\ i - 2 > 1 /\ b[i].kind = "lf"
    BY <1>1 DEF HeaderEnds, LineEnds, IsLineEnd
  <1>3. ASSUME NEW i \in HeaderEnds(b) PROVE i \in Nat /\ 5 <= i /\ i <= Len(b)
    <2>1. i \in 4 .. Len(b)
      BY <1>1, <1>2
    <2>2. i # 4
      BY <1>1, <1>2, <2>1
    <2> QED
      BY <1>1, <2>1, <2>2
  <1>4. ASSUME 5 <= Len(b) PROVE 5 \in HeaderEnds(b)
    <2>1. b[2].kind = "cr" /\ b[3].kind = "lf" /\ b[4].kind = "cr" /\ b[5].kind = "lf"
      BY <1>1, <1>4
    <2>2. 3 \in LineEnds(b) /\ 5 \in LineEnds(b)
      BY <1>1, <1>4, <2>1 DEF LineEnds, IsLineEnd
    <2> QED
      BY <2>2 DEF HeaderEnds
  <1>5. HeaderEnds(b) # {} <=> 5 <= Len(b)
    BY <1>1, <1>3, <1>4
  <1>6. ASSUME HeaderEnds(b) # {} PROVE First(HeaderEnds(b)) = 5
    <2>1. 5 \in HeaderEnds(b) /\ HeaderEnds(b) \subseteq Nat /\ \A i \in HeaderEnds(b) : 5 <= i
      BY <1>3, <1>4, <1>5, <1>6
    <2> QED
      BY <2>1, FirstIs
  <1> QED
    BY <1>5, <1>6

\* The size of a chunk that comes ends with its third cell.
LEMMA SizeLineIs ==
    ASSUME NEW b \in Seq(Cell),
           1 <= Len(b) => b[1].kind = "size",
           2 <= Len(b) => b[2].kind = "cr",
           3 <= Len(b) => b[3].kind = "lf"
    PROVE  /\ LineEnds(b) # {} <=> 3 <= Len(b)
           /\ LineEnds(b) # {} => First(LineEnds(b)) = 3 /\ ChunkSizeIn(SubSeq(b, 1, 1)) = b[1].n
  <1>1. Len(b) \in Nat
    BY LenProperties
  <1>2. \A i \in LineEnds(b) : i \in 1 .. Len(b) /\ i > 1 /\ b[i - 1].kind = "cr"
    BY <1>1 DEF LineEnds, IsLineEnd
  <1>3. ASSUME NEW i \in LineEnds(b) PROVE i \in Nat /\ 3 <= i /\ i <= Len(b)
    <2>1. i \in 2 .. Len(b)
      BY <1>1, <1>2
    <2>2. i # 2
      BY <1>1, <1>2, <2>1
    <2> QED
      BY <1>1, <2>1, <2>2
  <1>4. ASSUME 3 <= Len(b) PROVE 3 \in LineEnds(b)
    BY <1>1, <1>4 DEF LineEnds, IsLineEnd
  <1>5. LineEnds(b) # {} <=> 3 <= Len(b)
    BY <1>1, <1>3, <1>4
  <1>6. ASSUME LineEnds(b) # {}
        PROVE  First(LineEnds(b)) = 3 /\ ChunkSizeIn(SubSeq(b, 1, 1)) = b[1].n
    <2>1. 3 \in LineEnds(b) /\ LineEnds(b) \subseteq Nat /\ \A i \in LineEnds(b) : 3 <= i
      BY <1>3, <1>4, <1>5, <1>6
    <2>2. First(LineEnds(b)) = 3
      BY <2>1, FirstIs
    <2>3. 3 <= Len(b)
      BY <1>5, <1>6
    <2>4. \A i \in 1 .. 1 : b[i] \in Cell
      BY <1>1, <2>3, ElementOfSeq
    <2>5. Len(SubSeq(b, 1, 1)) = 1 /\ SubSeq(b, 1, 1)[1] = b[1]
      <3>1. /\ Len(SubSeq(b, 1, 1)) = IF 1 <= 1 THEN 1 - 1 + 1 ELSE 0
            /\ \A i \in 1 .. 1 - 1 + 1 : SubSeq(b, 1, 1)[i] = b[1 + i - 1]
        BY <2>4, SubSeqProperties
      <3> QED
        BY <3>1
    <2>6. b[1].kind = "size"
      BY <2>3, <1>1
    <2> QED
      BY <2>2, <2>5, <2>6 DEF ChunkSizeIn
  <1> QED
    BY <1>5, <1>6

-----------------------------------------------------------------------------
(* Where the decoder is *)

\* The decoder is behind the header of the latest message, and not behind its end.
LEMMA PlacedIs ==
    ASSUME Conforming, NEW x \in Exchanges, NEW d \in Dirs, NEW s, OKDir(s), NEW n \in Nat, NEW k,
           Buffered(x, d, s, n), Placed(x, d, s, k, Used(s, n))
    PROVE  /\ k \in 0 .. Len(MessagesOf(x, d)) /\ Len(MessagesOf(x, d)) \in Nat
           /\ Used(s, n) \in Nat /\ Used(s, n) <= n /\ n <= Len(Wires[x][d]) /\ Len(Wires[x][d]) \in Nat
           /\ n = Used(s, n) + Len(s.buffer) /\ Len(s.buffer) \in Nat
           /\ EndsOf[x][d][k] \in Nat
           /\ k > 0 => EndsOf[x][d][k - 1] \in Nat /\ EndsOf[x][d][k - 1] + 5 <= Used(s, n)
           /\ Used(s, n) <= EndsOf[x][d][k]
           /\ s.state = "HEADER" => Used(s, n) = EndsOf[x][d][k]
  <1> DEFINE u == Used(s, n)
             K == Len(MessagesOf(x, d))
             L == Len(Wires[x][d])
             E == EndsOf[x][d]
  <1>1. k \in 0 .. K /\ K \in Nat
    BY CountOfMessages DEF Placed
  <1>2. /\ L \in Nat /\ E[0] = 0 /\ E[K] = L
        /\ \A i \in 0 .. K : E[i] \in Nat
    BY EndsAre
  <1>3. Len(s.buffer) \in Nat /\ s.buffer \in Seq(Cell)
    BY LenProperties DEF OKDir, StreamDir
  <1>4. Len(s.buffer) <= n /\ n <= L
    BY DEF Buffered
  <1>5. u \in Nat /\ u <= n /\ n = u + Len(s.buffer)
    BY <1>3, <1>4 DEF Used
  <1>6. CASE k = 0
    <2>1. u = 0 /\ s.state = "HEADER"
      BY <1>6 DEF Placed
    <2> QED
      BY <1>1, <1>2, <1>3, <1>4, <1>5, <1>6, <2>1
  <1>7. CASE k > 0
    <2> DEFINE h == MessagesOf(x, d)[k]
               l == Len(Body(x, h))
               body == E[k - 1] + 5
    <2>1. k \in 1 .. K /\ k - 1 \in 0 .. K
      BY <1>1, <1>7
    <2>2. E[k] = body + l /\ l \in Nat
      BY <2>1, EndsAre
    <2>3. h \in Headers /\ Asked(x, h) \in Headers \cup {NoHeader}
      BY <2>1, MessageOK
    <2>4. s.header = h /\ InMessage(x, d, s, k, u)
      BY <1>7 DEF Placed
    <2>5. body \in Nat /\ E[k] \in Nat /\ E[k - 1] \in Nat
      BY <1>2, <2>1, <1>1, SMTT(30)
    <2> HIDE DEF h, l
    <2>6. body <= u /\ u <= E[k] /\ (s.state = "HEADER" => u = E[k])
      <3>1. CASE s.state = "HEADER"
        <4>1. u = E[k]
          BY <2>4, <3>1 DEF InMessage
        <4> QED
          BY <2>2, <2>5, <4>1
      <3>2. CASE s.state = "CONTENT"
        <4>1. Framing(x, h) = "length" /\ s.contentLength = h.length /\ u = body + s.contentReceived
          BY <2>4, <3>2 DEF InMessage
        <4>2. l = h.length
          BY <2>3, <4>1, BodyOK DEF l
        <4>3. s.contentReceived \in Nat /\ s.contentReceived <= s.contentLength
          BY <3>2 DEF OKDir, CountersFit, StreamDir
        <4> QED
          BY <2>2, <2>5, <3>2, <4>1, <4>2, <4>3
      <3>3. CASE s.state = "UNKNOWN_CONTENT"
        <4>1. Framing(x, h) = "close" /\ body <= u
          BY <2>4, <3>3 DEF InMessage
        <4>2. ~(k < K)
          BY <2>1, <4>1, MessageOK DEF h
        <4>3. k = K
          BY <1>1, <4>2
        <4> QED
          BY <1>2, <1>4, <1>5, <3>3, <4>1, <4>3
      <3>4. CASE s.state \in ChunkStates
        <4>1. Framing(x, h) = "chunked" /\ \E j \in 0 .. Len(Chunks) : InChunk(x, s, body, u, j)
          BY <2>4, <3>4 DEF InMessage
        <4>2. PICK j \in 0 .. Len(Chunks) : InChunk(x, s, body, u, j)
          BY <4>1
        <4> DEFINE c == ChunkEndAt(x, h, j)
                   m == NextSize(j)
                   e == E[k]
                   r == s.contentReceived
        <4>3. m \in Nat /\ c \in Nat /\ body + c + m + 5 <= e
          BY <2>1, <4>1, ChunksAre DEF h
        <4>4. \/ u = body + c
              \/ s.chunkLength = m /\ u = body + c + 3 + r /\ s.state = "CHUNK_DATA"
              \/ u = body + c + 3 + m
          BY <2>4, <3>4, <4>2 DEF InChunk, ChunkStates
        <4>5. s.state = "CHUNK_DATA" => r \in Nat /\ r <= s.chunkLength
          BY DEF OKDir, CountersFit, StreamDir
        <4>6. body \in Nat /\ e \in Nat /\ u \in Nat
          BY <1>5, <2>5
        <4> HIDE DEF c, m, body, u, r, e
        <4>7. ASSUME u = body + c PROVE body <= u /\ u <= e
          BY <4>3, <4>6, <4>7
        <4>8. ASSUME s.chunkLength = m, u = body + c + 3 + r, s.state = "CHUNK_DATA"
              PROVE  body <= u /\ u <= e
          <5>1. r \in Nat /\ r <= m
            BY <4>5, <4>8
          <5> QED
            BY <4>3, <4>6, <4>8, <5>1
        <4>9. ASSUME u = body + c + 3 + m PROVE body <= u /\ u <= e
          BY <4>3, <4>6, <4>9
        <4>10. body <= u /\ u <= e
          BY <4>4, <4>7, <4>8, <4>9
        <4> QED
          BY <3>4, <4>10 DEF ChunkStates, body, u, e
      <3> QED
        BY <3>1, <3>2, <3>3, <3>4 DEF Placed, OKDir, StreamDir, States, ChunkStates
    <2> QED
      BY <1>1, <1>2, <1>3, <1>4, <1>5, <1>7, <2>5, <2>6
  <1> QED
    BY <1>1, <1>6, <1>7

\* The cell of a head, or of the size of a chunk
Starts(w, kind, header, n) == w.cell = [kind |-> kind, header |-> header, n |-> n] /\ w.events = <<>>

\* The heading of message h is what follows the first e cells.
HeadingAt(x, d, e, h) ==
    /\ Starts(Wires[x][d][e + 1], "head", h, 0)
    /\ Quiet(Wires[x][d][e + 2], "cr") /\ Quiet(Wires[x][d][e + 3], "lf") /\ Quiet(Wires[x][d][e + 4], "cr")
    /\ Wires[x][d][e + 5].cell = [kind |-> "lf", header |-> NoHeader, n |-> 0]
    /\ Wires[x][d][e + 5].events = <<Note("header", Asked(x, h), h, 0)>>
          \o (IF Framing(x, h) = "length" /\ h.length = 0 THEN <<Finished(h)>> ELSE <<>>)

\* Where a message begins
LEMMA HeadingIs ==
    ASSUME Conforming, NEW x \in Exchanges, NEW d \in Dirs, NEW k \in 1 .. Len(MessagesOf(x, d))
    PROVE  /\ HeadingAt(x, d, EndsOf[x][d][k - 1], MessagesOf(x, d)[k])
           /\ EndsOf[x][d][k - 1] \in Nat /\ EndsOf[x][d][k] \in Nat
           /\ EndsOf[x][d][k - 1] + 5 <= EndsOf[x][d][k]
           /\ EndsOf[x][d][k] <= Len(Wires[x][d])
  <1> DEFINE h == MessagesOf(x, d)[k]
             e == EndsOf[x][d][k - 1]
             w == Heading(x, h)
  <1>1. h \in Headers /\ Asked(x, h) \in Headers \cup {NoHeader}
    BY MessageOK
  <1>2. k \in 0 .. Len(MessagesOf(x, d)) /\ k - 1 \in 0 .. Len(MessagesOf(x, d))
    BY CountOfMessages
  <1>3. /\ e \in Nat /\ EndsOf[x][d][k] \in Nat /\ EndsOf[x][d][k] <= Len(Wires[x][d])
        /\ EndsOf[x][d][k] = e + 5 + Len(Body(x, h)) /\ Len(Body(x, h)) \in Nat
        /\ \A i \in 1 .. 5 : Wires[x][d][e + i] = w[i]
    BY <1>2, EndsAre
  <1> HIDE DEF h, e
  <1>4. /\ w[1].cell = [kind |-> "head", header |-> h, n |-> 0] /\ w[1].events = <<>>
        /\ Quiet(w[2], "cr") /\ Quiet(w[3], "lf") /\ Quiet(w[4], "cr")
        /\ w[5].cell = [kind |-> "lf", header |-> NoHeader, n |-> 0]
        /\ w[5].events = <<Note("header", Asked(x, h), h, 0)>>
              \o (IF Framing(x, h) = "length" /\ h.length = 0 THEN <<Finished(h)>> ELSE <<>>)
    BY <1>1, HeadingOK
  <1> HIDE DEF w
  <1>5. /\ Wires[x][d][e + 1] = w[1] /\ Wires[x][d][e + 2] = w[2] /\ Wires[x][d][e + 3] = w[3]
        /\ Wires[x][d][e + 4] = w[4] /\ Wires[x][d][e + 5] = w[5]
    BY <1>3
  <1>6. HeadingAt(x, d, e, h)
    BY <1>4, <1>5 DEF HeadingAt, Starts
  <1> QED
    BY <1>3, <1>6, SMTT(30) DEF h, e

\* A chunk of n pieces is what follows the first at cells.
ChunkAt(x, d, at, h, n) ==
    /\ Starts(Wires[x][d][at + 1], "size", NoHeader, n)
    /\ Quiet(Wires[x][d][at + 2], "cr") /\ Quiet(Wires[x][d][at + 3], "lf")
    /\ \A i \in 1 .. n : Wires[x][d][at + 3 + i] = Piece(x, h, i, FALSE)
    /\ Quiet(Wires[x][d][at + n + 4], "cr")
    /\ Wires[x][d][at + n + 5].events = IF n > 0 THEN <<>> ELSE <<Finished(h)>>

\* Where the chunks of a message are
LEMMA ChunkIs ==
    ASSUME Conforming, NEW x \in Exchanges, NEW d \in Dirs, NEW k \in 1 .. Len(MessagesOf(x, d)),
           Framing(x, MessagesOf(x, d)[k]) = "chunked", NEW j \in 0 .. Len(Chunks)
    PROVE  LET h == MessagesOf(x, d)[k]
               at == EndsOf[x][d][k - 1] + 5 + ChunkEndAt(x, h, j)
           IN  ChunkAt(x, d, at, h, NextSize(j)) /\ at \in Nat /\ NextSize(j) \in Nat
  <1> DEFINE h == MessagesOf(x, d)[k]
             at == EndsOf[x][d][k - 1] + 5 + ChunkEndAt(x, h, j)
             n == NextSize(j)
             w == Chunk(x, h, n)
  <1>1. h \in Headers /\ Asked(x, h) \in Headers \cup {NoHeader}
    BY MessageOK
  <1>2. /\ n \in Nat /\ \A i \in 1 .. n + 5 : Wires[x][d][at + i] = w[i]
    BY ChunksAre
  <1>3. at \in Nat
    <2> DEFINE e == EndsOf[x][d][k - 1]
               c == ChunkEndAt(x, h, j)
    <2>1. e \in Nat
      BY HeadingIs
    <2>2. c \in Nat
      BY ChunksAre
    <2>3. at = e + 5 + c
      OBVIOUS
    <2> HIDE DEF e, c, at
    <2> QED
      BY <2>1, <2>2, <2>3
  <1> HIDE DEF h, at, n
  <1>9. ChunkCells(w, x, h, n)
    <2>1. n \in Nat
      BY <1>2
    <2> QED
      BY <1>1, <2>1, ChunkOK
  <1> HIDE DEF w
  <1>4. Starts(w[1], "size", NoHeader, n)
    BY <1>9 DEF Starts, ChunkCells
  <1>5. /\ Wires[x][d][at + 1] = w[1] /\ Wires[x][d][at + 2] = w[2] /\ Wires[x][d][at + 3] = w[3]
    BY <1>2
  <1>6. Wires[x][d][at + n + 4] = w[n + 4] /\ Wires[x][d][at + n + 5] = w[n + 5]
    <2>1. n + 4 \in 1 .. n + 5 /\ n + 5 \in 1 .. n + 5 /\ at + (n + 4) = at + n + 4 /\ at + (n + 5) = at + n + 5
      BY <1>2, <1>3
    <2>2. Wires[x][d][at + (n + 4)] = w[n + 4] /\ Wires[x][d][at + (n + 5)] = w[n + 5]
      BY <1>2, <2>1
    <2> QED
      BY <2>1, <2>2
  <1>7. ASSUME NEW i \in 1 .. n PROVE Wires[x][d][at + 3 + i] = Piece(x, h, i, FALSE)
    <2>1. 3 + i \in 1 .. n + 5 /\ at + (3 + i) = at + 3 + i
      BY <1>2, <1>3
    <2>2. Wires[x][d][at + (3 + i)] = w[3 + i]
      BY <1>2, <2>1
    <2> QED
      BY <1>9, <2>1, <2>2 DEF ChunkCells
  <1>8. ChunkAt(x, d, at, h, n)
    BY <1>4, <1>5, <1>6, <1>7, <1>9 DEF ChunkAt, ChunkCells
  <1> QED
    BY <1>2, <1>3, <1>8 DEF h, at, n

-----------------------------------------------------------------------------
(* What waits *)

\* The decoder that waits for a header finds the next message, if it is complete.
LEMMA HeaderIs ==
    ASSUME Conforming, NEW x \in Exchanges, NEW d \in Dirs, NEW s, OKDir(s), NEW n \in Nat, NEW k,
           Buffered(x, d, s, n), Placed(x, d, s, k, Used(s, n)), s.state = "HEADER"
    PROVE  /\ HeaderEnds(s.buffer) # {} <=> 5 <= Len(s.buffer)
           /\ HeaderEnds(s.buffer) # {} =>
                 /\ HeaderEnd(s) = 5 /\ k + 1 \in 1 .. Len(MessagesOf(x, d))
                 /\ FirstCell(s).kind = "head" /\ FirstCell(s).header = MessagesOf(x, d)[k + 1]
  <1> DEFINE u == Used(s, n)
             b == s.buffer
             e == EndsOf[x][d][k]
             K == Len(MessagesOf(x, d))
  <1>1. /\ k \in 0 .. K /\ K \in Nat /\ u \in Nat /\ n = u + Len(b) /\ Len(b) \in Nat
        /\ e \in Nat /\ u = e /\ n <= Len(Wires[x][d]) /\ Len(Wires[x][d]) \in Nat
    BY PlacedIs
  <1>2. b \in Seq(Cell)
    BY DEF OKDir, StreamDir
  <1>3. \A i \in 1 .. Len(b) : b[i] = Wires[x][d][u + i].cell
    BY DEF Buffered
  <1>4. CASE k = K
    <2>1. e = Len(Wires[x][d])
      BY <1>4, EndsAre
    <2>2. Len(b) = 0
      BY <1>1, <2>1
    <2> QED
      BY <1>2, <2>2, HeaderEndIs
  <1>5. CASE k # K
    <2> DEFINE h == MessagesOf(x, d)[k + 1]
    <2>1. k + 1 \in 1 .. K /\ (k + 1) - 1 = k
      BY <1>1, <1>5
    <2>2. HeadingAt(x, d, EndsOf[x][d][(k + 1) - 1], h)
      BY <2>1, HeadingIs
    <2>3. HeadingAt(x, d, u, h)
      BY <1>1, <2>1, <2>2
    <2> HIDE DEF u, b, e, h, K
    <2>4. /\ 1 <= Len(b) => b[1].kind = "head" /\ b[1].header = h
          /\ 2 <= Len(b) => b[2].kind = "cr"
          /\ 3 <= Len(b) => b[3].kind = "lf"
          /\ 4 <= Len(b) => b[4].kind = "cr"
          /\ 5 <= Len(b) => b[5].kind = "lf"
      <3>1. /\ Wires[x][d][u + 1].cell.kind = "head" /\ Wires[x][d][u + 1].cell.header = h
            /\ Wires[x][d][u + 2].cell.kind = "cr"
            /\ Wires[x][d][u + 3].cell.kind = "lf"
            /\ Wires[x][d][u + 4].cell.kind = "cr"
            /\ Wires[x][d][u + 5].cell.kind = "lf"
        BY <2>3 DEF HeadingAt, Starts, Quiet
      <3>2. ASSUME NEW i \in 1 .. 5, i <= Len(b) PROVE b[i] = Wires[x][d][u + i].cell
        <4>1. i \in 1 .. Len(b)
          BY <1>1, <3>2
        <4> QED
          BY <1>3, <4>1
      <3> QED
        BY <3>1, <3>2
    <2>5. /\ HeaderEnds(b) # {} <=> 5 <= Len(b)
          /\ HeaderEnds(b) # {} => First(HeaderEnds(b)) = 5
      BY <1>2, <2>4, HeaderEndIs
    <2>6. 5 <= Len(b) => b[1].kind = "head" /\ b[1].header = h
      BY <1>1, <2>4
    <2> QED
      BY <2>1, <2>5, <2>6 DEF HeaderEnd, FirstCell, b, h, K
  <1> QED
    BY <1>4, <1>5

\* The decoder is at the chunk behind the jth, which begins behind the cell at.
OnChunk(x, d, s, k, u, j, at) ==
    /\ at = EndsOf[x][d][k - 1] + 5 + ChunkEndAt(x, s.header, j)
    /\ at \in Nat /\ NextSize(j) \in Nat
    /\ ChunkAt(x, d, at, s.header, NextSize(j))
    /\ at + NextSize(j) + 5 <= EndsOf[x][d][k]
    /\ s.state = "CHUNK_SIZE" => u = at
    /\ s.state = "CHUNK_DATA" => s.chunkLength = NextSize(j) /\ u = at + 3 + s.contentReceived
    /\ s.state = "CHUNK_END" => s.chunkLength = NextSize(j) /\ u = at + 3 + NextSize(j)

\* Where the decoder is in a chunked message
LEMMA ChunkPlace ==
    ASSUME Conforming, NEW x \in Exchanges, NEW d \in Dirs, NEW s, NEW u, NEW k,
           Placed(x, d, s, k, u), s.state \in ChunkStates
    PROVE  /\ k \in 1 .. Len(MessagesOf(x, d)) /\ s.header = MessagesOf(x, d)[k]
           /\ Framing(x, s.header) = "chunked"
           /\ \E j \in 0 .. Len(Chunks) : \E at \in Nat : OnChunk(x, d, s, k, u, j, at)
  <1> DEFINE h == MessagesOf(x, d)[k]
             e == EndsOf[x][d][k - 1]
  <1>1. k \in 0 .. Len(MessagesOf(x, d)) /\ Len(MessagesOf(x, d)) \in Nat /\ k # 0
    BY CountOfMessages DEF Placed, ChunkStates
  <1>2. k > 0 /\ k \in 1 .. Len(MessagesOf(x, d))
    BY <1>1
  <1>3. s.header = h /\ InMessage(x, d, s, k, u)
    BY <1>2 DEF Placed
  <1>4. Framing(x, h) = "chunked" /\ \E j \in 0 .. Len(Chunks) : InChunk(x, s, e + 5, u, j)
    BY <1>3 DEF InMessage
  <1>5. PICK j \in 0 .. Len(Chunks) : InChunk(x, s, e + 5, u, j)
    BY <1>4
  <1> DEFINE at == e + 5 + ChunkEndAt(x, h, j)
  <1>6. ChunkAt(x, d, at, h, NextSize(j)) /\ at \in Nat /\ NextSize(j) \in Nat
    BY <1>2, <1>4, ChunkIs
  <1>7. at + NextSize(j) + 5 <= EndsOf[x][d][k]
    BY <1>2, <1>4, ChunksAre
  <1>8. /\ s.state = "CHUNK_SIZE" => u = at
        /\ s.state = "CHUNK_DATA" => s.chunkLength = NextSize(j) /\ u = at + 3 + s.contentReceived
        /\ s.state = "CHUNK_END" => s.chunkLength = NextSize(j) /\ u = at + 3 + NextSize(j)
    BY <1>3, <1>5 DEF InChunk
  <1>9. at = EndsOf[x][d][k - 1] + 5 + ChunkEndAt(x, s.header, j)
    BY <1>3
  <1> HIDE DEF at, h, e
  <1>10. OnChunk(x, d, s, k, u, j, at)
    BY <1>3, <1>6, <1>7, <1>8, <1>9 DEF OnChunk
  <1> QED
    BY <1>2, <1>3, <1>4, <1>6, <1>10 DEF h

\* The size of the chunk behind the jth is found in the buffer, once its line is complete.
HasSize(s, j) ==
    /\ LineEnds(s.buffer) # {} <=> 3 <= Len(s.buffer)
    /\ LineEnds(s.buffer) # {} =>
          First(LineEnds(s.buffer)) = 3 /\ ChunkSizeIn(SubSeq(s.buffer, 1, 1)) = NextSize(j)

\* The decoder that waits for the size of a chunk finds it, if the line is complete.
LEMMA SizeIs ==
    ASSUME NEW x \in Exchanges, NEW d \in Dirs, NEW s, OKDir(s), NEW n \in Nat, NEW k, NEW u \in Nat,
           Buffered(x, d, s, n), u = Used(s, n), s.state = "CHUNK_SIZE",
           NEW j, NEW at \in Nat, OnChunk(x, d, s, k, u, j, at)
    PROVE  HasSize(s, j)
  <1> DEFINE b == s.buffer
             m == NextSize(j)
  <1>1. b \in Seq(Cell) /\ Len(b) \in Nat
    BY LenProperties DEF OKDir, StreamDir
  <1>2. \A i \in 1 .. Len(b) : b[i] = Wires[x][d][u + i].cell
    BY Zenon DEF Buffered
  <1>3. /\ u = at /\ Starts(Wires[x][d][at + 1], "size", NoHeader, m)
        /\ Quiet(Wires[x][d][at + 2], "cr") /\ Quiet(Wires[x][d][at + 3], "lf")
    BY Zenon DEF OnChunk, ChunkAt
  <1> HIDE DEF b, m
  <1>4. /\ Wires[x][d][u + 1].cell.kind = "size" /\ Wires[x][d][u + 1].cell.n = m
        /\ Wires[x][d][u + 2].cell.kind = "cr"
        /\ Wires[x][d][u + 3].cell.kind = "lf"
    BY <1>3 DEF Starts, Quiet
  <1>5. ASSUME NEW i \in 1 .. 3, i <= Len(b) PROVE b[i] = Wires[x][d][u + i].cell
    <2>1. i \in 1 .. Len(b)
      BY <1>1, <1>5
    <2> QED
      BY <1>2, <2>1
  <1>6. /\ 1 <= Len(b) => b[1].kind = "size" /\ b[1].n = m
        /\ 2 <= Len(b) => b[2].kind = "cr"
        /\ 3 <= Len(b) => b[3].kind = "lf"
    <2>1. 1 \in 1 .. 3 /\ 2 \in 1 .. 3 /\ 3 \in 1 .. 3
      OBVIOUS
    <2> QED
      BY <1>4, <1>5, <2>1, Zenon
  <1>7. /\ LineEnds(b) # {} <=> 3 <= Len(b)
        /\ LineEnds(b) # {} => First(LineEnds(b)) = 3 /\ ChunkSizeIn(SubSeq(b, 1, 1)) = b[1].n
    BY <1>1, <1>6, SizeLineIs
  <1>8. 3 <= Len(b) => b[1].n = m
    BY <1>1, <1>6
  <1> QED
    BY <1>7, <1>8 DEF b, m, HasSize

\* What a decoder that has nothing to do has told, and what it waits for
Waits(x, d, s, k, u, n) ==
    /\ Pending(s) = <<>>
    /\ DueWith[x][d][n] = DueWith[x][d][u]
    /\ u < EndsOf[x][d][k] => n < EndsOf[x][d][k]
    /\ k < Len(MessagesOf(x, d)) => n < EndsOf[x][d][k + 1]

\* q quiet cells wait, fewer than would complete what comes next.
LEMMA QuietWait ==
    ASSUME Conforming, NEW x \in Exchanges, NEW d \in Dirs, NEW k \in 1 .. Len(MessagesOf(x, d)),
           NEW s, NEW u \in Nat, NEW q \in Nat, Pending(s) = <<>>,
           u + q <= Len(Wires[x][d]), \A i \in 1 .. q : Wires[x][d][u + i].events = <<>>,
           u <= EndsOf[x][d][k], u < EndsOf[x][d][k] => u + q < EndsOf[x][d][k],
           u = EndsOf[x][d][k] => q = 0
    PROVE  Waits(x, d, s, k, u, u + q)
  <1>1. DueWith[x][d][u + q] = DueWith[x][d][u]
    BY DueNothing
  <1>2. ASSUME k < Len(MessagesOf(x, d)) PROVE u + q < EndsOf[x][d][k + 1]
    <2>1. Len(MessagesOf(x, d)) \in Nat
      BY CountOfMessages
    <2>2. k + 1 \in 1 .. Len(MessagesOf(x, d)) /\ (k + 1) - 1 = k
      BY <1>2, <2>1
    <2>3. EndsOf[x][d][(k + 1) - 1] + 5 <= EndsOf[x][d][k + 1] /\ EndsOf[x][d][(k + 1) - 1] \in Nat
          /\ EndsOf[x][d][k + 1] \in Nat
      BY <2>2, HeadingIs
    <2>4. EndsOf[x][d][k] + 5 <= EndsOf[x][d][k + 1] /\ EndsOf[x][d][k] \in Nat /\ EndsOf[x][d][k + 1] \in Nat
      BY <2>2, <2>3
    <2> QED
      BY <2>4, SMTT(30)
  <1> QED
    BY <1>1, <1>2 DEF Waits

\* Has the decoder nothing to do, it waits.
LEMMA IdleIs ==
    ASSUME Conforming, NEW x \in Exchanges, NEW d \in Dirs, NEW s, OKDir(s), NEW n \in Nat, NEW k,
           Buffered(x, d, s, n), Placed(x, d, s, k, Used(s, n)), ~HasWork(s)
    PROVE  Waits(x, d, s, k, Used(s, n), n)
  <1> DEFINE u == Used(s, n)
             b == s.buffer
             e == EndsOf[x][d][k]
             K == Len(MessagesOf(x, d))
             L == Len(Wires[x][d])
             q == Len(b)
  <1>1. /\ k \in 0 .. K /\ K \in Nat /\ u \in Nat /\ n = u + q /\ q \in Nat
        /\ e \in Nat /\ u <= e /\ n <= L /\ L \in Nat
    BY PlacedIs
  <1>2. /\ s.buffer \in Seq(Cell) /\ s.state \in States /\ s.state # "CORRUPTED"
        /\ b = <<>> => q = 0
    BY DEF OKDir, StreamDir, Placed
  <1>3. CASE s.state = "HEADER"
    <2>1. u = e
      BY <1>3, PlacedIs
    <2>2. q < 5
      <3>1. HeaderEnds(b) = {}
        BY <1>3 DEF HasWork
      <3>2. HeaderEnds(b) # {} <=> 5 <= q
        BY <1>3, HeaderIs
      <3> QED
        BY <1>1, <3>1, <3>2
    <2>3. Pending(s) = <<>>
      BY <1>3 DEF Pending
    <2>4. CASE k = K
      <3>1. e = L
        BY <2>4, EndsAre
      <3>2. n = u
        BY <1>1, <2>1, <3>1
      <3>3. ~(u < e) /\ ~(k < K)
        BY <1>1, <2>1, <2>4
      <3> QED
        BY <2>3, <3>2, <3>3 DEF Waits
    <2>5. CASE k # K
      <3> DEFINE h == MessagesOf(x, d)[k + 1]
                 next == EndsOf[x][d][k + 1]
      <3>1. k + 1 \in 1 .. K /\ (k + 1) - 1 = k
        BY <1>1, <2>5
      <3>2. /\ HeadingAt(x, d, EndsOf[x][d][(k + 1) - 1], h)
            /\ EndsOf[x][d][(k + 1) - 1] + 5 <= next /\ next \in Nat
        BY <3>1, HeadingIs
      <3>3. HeadingAt(x, d, u, h) /\ e + 5 <= next /\ next \in Nat
        BY <2>1, <3>1, <3>2
      <3> HIDE DEF h, next, e, q, u, L, K
      <3>4. ASSUME NEW i \in 1 .. q PROVE Wires[x][d][u + i].events = <<>>
        <4>1. i \in 1 .. 4
          BY <1>1, <2>2
        <4>2. /\ Wires[x][d][u + 1].events = <<>> /\ Wires[x][d][u + 2].events = <<>>
              /\ Wires[x][d][u + 3].events = <<>> /\ Wires[x][d][u + 4].events = <<>>
          BY <3>3 DEF HeadingAt, Starts, Quiet
        <4> QED
          BY <4>1, <4>2
      <3>5. u \in Nat /\ q \in Nat
        BY <1>1
      <3>8. u + q <= Len(Wires[x][d])
        BY <1>1 DEF L
      <3>6. DueWith[x][d][u + q] = DueWith[x][d][u]
        BY <3>4, <3>5, <3>8, DueNothing, ZenonT(60)
      <3>7. n < next /\ ~(u < e)
        BY <1>1, <2>1, <2>2, <3>3
      <3> QED
        BY <1>1, <2>3, <3>6, <3>7 DEF Waits, e, next, u
    <2> QED
      BY <2>4, <2>5
  <1>4. ASSUME s.state # "HEADER" PROVE k \in 1 .. K
    <2>1. k # 0
      BY <1>4 DEF Placed
    <2> QED
      BY <1>1, <2>1
  <1>5. CASE s.state \in {"CONTENT", "UNKNOWN_CONTENT", "CHUNK_DATA"}
    <2>1. b = <<>>
      BY <1>5 DEF HasWork
    <2>2. q = 0 /\ n = u /\ k \in 1 .. K
      BY <1>1, <1>2, <1>4, <1>5, <2>1
    <2>3. Pending(s) = <<>>
      <3>1. ASSUME s.state = "CONTENT" PROVE s.contentLength # 0
        <4>1. s.contentReceived # s.contentLength
          BY <3>1 DEF HasWork
        <4>2. s.contentReceived \in Nat /\ s.contentLength \in Nat /\ s.contentReceived <= s.contentLength
          BY <3>1 DEF OKDir, CountersFit, StreamDir
        <4> QED
          BY <4>1, <4>2
      <3> QED
        BY <3>1 DEF Pending
    <2>4. \A i \in 1 .. 0 : Wires[x][d][u + i].events = <<>>
      OBVIOUS
    <2>5. u + 0 <= L /\ u + 0 = n /\ (u < e => u + 0 < e)
      BY <1>1, <2>2
    <2> HIDE DEF u, q, e
    <2>6. Waits(x, d, s, k, u, u + 0)
      BY <1>1, <2>2, <2>3, <2>4, <2>5, QuietWait DEF e
    <2> QED
      BY <2>5, <2>6 DEF u
  <1>6. CASE s.state \in {"CHUNK_SIZE", "CHUNK_END"}
    <2>1. s.state \in ChunkStates /\ k \in 1 .. K
      BY <1>4, <1>6 DEF ChunkStates
    <2>2. PICK j \in 0 .. Len(Chunks) : \E at \in Nat : OnChunk(x, d, s, k, u, j, at)
      BY <2>1, ChunkPlace
    <2>3. PICK at \in Nat : OnChunk(x, d, s, k, u, j, at)
      BY <2>2
    <2> DEFINE m == NextSize(j)
    <2>4. m \in Nat /\ at + m + 5 <= e
      BY <2>3 DEF OnChunk
    <2>5. Pending(s) = <<>>
      BY <1>6 DEF Pending
    <2>6. /\ u < e /\ u + q < e
          /\ \A i \in 1 .. q : Wires[x][d][u + i].events = <<>>
      <3>1. CASE s.state = "CHUNK_SIZE"
        <4>1. u = at /\ Starts(Wires[x][d][at + 1], "size", NoHeader, m) /\ Quiet(Wires[x][d][at + 2], "cr")
          BY <2>3, <3>1, Zenon DEF OnChunk, ChunkAt
        <4>2. q < 3
          <5>1. LineEnds(b) = {}
            BY <3>1 DEF HasWork
          <5>2. LineEnds(b) # {} <=> 3 <= q
            <6>1. u \in Nat
              BY <1>1
            <6>2. HasSize(s, j)
              BY <2>3, <3>1, <6>1, SizeIs
            <6> QED
              BY <6>2 DEF HasSize
          <5> QED
            BY <1>1, <5>1, <5>2
        <4> HIDE DEF u, q, e, m
        <4>3. ASSUME NEW i \in 1 .. q PROVE Wires[x][d][u + i].events = <<>>
          <5>1. i \in 1 .. 2
            BY <1>1, <4>2
          <5>2. Wires[x][d][u + 1].events = <<>> /\ Wires[x][d][u + 2].events = <<>>
            BY <4>1 DEF Starts, Quiet
          <5>3. i = 1 \/ i = 2
            BY <5>1
          <5> QED
            BY <5>2, <5>3, Zenon
        <4>5. u = at /\ q \in Nat /\ e \in Nat /\ m \in Nat
          BY <1>1, <2>4, <4>1
        <4>4. u < e /\ u + q < e
          BY <2>4, <4>2, <4>5
        <4> QED
          BY <4>3, <4>4, Zenon
      <3>2. CASE s.state = "CHUNK_END"
        <4>1. u = at + 3 + m /\ Quiet(Wires[x][d][at + m + 4], "cr")
          BY <2>3, <3>2, Zenon DEF OnChunk, ChunkAt
        <4>2. q < 2
          BY <1>1, <3>2 DEF HasWork
        <4> HIDE DEF u, q, e, m
        <4>3. ASSUME NEW i \in 1 .. q PROVE Wires[x][d][u + i].events = <<>>
          <5>1. i = 1
            BY <1>1, <4>2
          <5>2. u + 1 = at + m + 4
            BY <2>4, <4>1
          <5>3. Wires[x][d][u + 1].events = <<>>
            BY <4>1, <5>2 DEF Quiet
          <5> QED
            BY <5>1, <5>3
        <4>4. u < e /\ u + q < e
          BY <1>1, <2>4, <4>1, <4>2
        <4> QED
          BY <4>3, <4>4
      <3> QED
        BY <1>6, <3>1, <3>2
    <2> HIDE DEF u, q, e, m
    <2>7. u + q <= L /\ u <= e /\ ~(u = e) /\ u + q = n
      BY <1>1, <2>6
    <2>8. Waits(x, d, s, k, u, u + q)
      BY <1>1, <2>1, <2>5, <2>6, <2>7, QuietWait DEF e
    <2> QED
      BY <2>7, <2>8 DEF u
  <1> QED
    BY <1>2, <1>3, <1>5, <1>6 DEF States

-----------------------------------------------------------------------------
(* Payload that is passed on *)

\* What the ith piece of the payload of h tells
PieceEvent(x, h, i) == Note(IF h.gzip THEN "unzipped" ELSE "traffic", Asked(x, h), h, i)

\* A piece of payload and its event
LEMMA PieceIs ==
    ASSUME NEW x, NEW h \in Headers, Asked(x, h) \in Headers \cup {NoHeader}, NEW i \in Nat
    PROVE  /\ PieceEvent(x, h, i) \in Event
           /\ \A last \in BOOLEAN : Piece(x, h, i, last).cell.n = i
           /\ Piece(x, h, i, FALSE).events = <<PieceEvent(x, h, i)>>
           /\ Piece(x, h, i, TRUE).events = <<PieceEvent(x, h, i)>> \o <<Finished(h)>>
  <1>1. PieceEvent(x, h, i) \in Event
    BY DEF PieceEvent, Note, Event
  <1>2. \A last \in BOOLEAN : Piece(x, h, i, last).cell.n = i
    BY DEF Piece, Wired
  <1>3. Piece(x, h, i, FALSE).events = <<PieceEvent(x, h, i)>> \o <<>>
    BY DEF Piece, Wired, PieceEvent
  <1>4. Piece(x, h, i, TRUE).events = <<PieceEvent(x, h, i)>> \o <<Finished(h)>>
    BY DEF Piece, Wired, PieceEvent
  <1>5. <<PieceEvent(x, h, i)>> \in Seq(Event)
    BY <1>1
  <1>6. <<PieceEvent(x, h, i)>> \o <<>> = <<PieceEvent(x, h, i)>>
    BY <1>5, ConcatEmptySeq
  <1> QED
    BY <1>1, <1>2, <1>3, <1>4, <1>6

\* The events of m pieces behind the rth
PiecesOf(x, h, r, m) == [i \in 1 .. m |-> PieceEvent(x, h, r + i)]

\* Traffic() of the first m cells in the buffer, with the request q
Passed(s, q, m) ==
    [i \in 1 .. m |-> Note(IF s.unzip THEN "unzipped" ELSE "traffic", q, s.header, s.buffer[i].n)]

\* The payload of a message and what is told of it
Payload(x, s, q, m) ==
    /\ s.header \in Headers /\ Asked(x, s.header) \in Headers \cup {NoHeader}
    /\ s.unzip = s.header.gzip /\ q \in Headers \cup {NoHeader}
    /\ m > 0 /\ x.order = "sequential" => q = Asked(x, s.header)

\* The m cells behind the first u are pieces of payload, numbered from r + 1.
Numbered(x, d, u, r, m) == \A i \in 1 .. m : Wires[x][d][u + i].cell.n = r + i

\* What is passed on is alike the pieces.
PassedOn(x, s, q, r, m) ==
    /\ Passed(s, q, m) \in Seq(Event) /\ PiecesOf(x, s.header, r, m) \in Seq(Event)
    /\ PiecesOf(x, s.header, r, m) \in [1 .. m -> Event]
    /\ Seen(x, Passed(s, q, m)) = Seen(x, PiecesOf(x, s.header, r, m))
    /\ HeadersIn(Passed(s, q, m)) = {}

\* What is passed on of the buffer is what was sent of the payload.
LEMMA PassedIs ==
    ASSUME NEW x, NEW d, NEW s, s.buffer \in Seq(Cell), NEW n \in Nat, Buffered(x, d, s, n), NEW u, u = Used(s, n),
           NEW q, NEW r \in Nat, NEW m \in 0 .. Len(s.buffer),
           Payload(x, s, q, m), Numbered(x, d, u, r, m)
    PROVE  PassedOn(x, s, q, r, m)
  <1> DEFINE p == Passed(s, q, m)
             g == PiecesOf(x, s.header, r, m)
             h == s.header
             what == IF h.gzip THEN "unzipped" ELSE "traffic"
  <1>1. Len(s.buffer) \in Nat /\ m \in Nat
    BY LenProperties
  <1>2. h \in Headers /\ Asked(x, h) \in Headers \cup {NoHeader} /\ q \in Headers \cup {NoHeader}
    BY DEF Payload
  <1>3. ASSUME NEW i \in 1 .. m
        PROVE  /\ p[i] = Note(what, q, h, r + i) /\ p[i] \in Event /\ p[i].what # "header"
               /\ g[i] = PieceEvent(x, h, r + i) /\ g[i] \in Event
               /\ SeenAs(x, p[i]) = SeenAs(x, g[i])
    <2>1. i \in 1 .. Len(s.buffer) /\ r + i \in Nat
      BY <1>1
    <2>2. s.buffer[i] = Wires[x][d][u + i].cell
      BY <2>1 DEF Buffered
    <2>3. s.buffer[i].n = r + i
      BY <2>2 DEF Numbered
    <2>4. p[i] = Note(what, q, h, r + i)
      BY <2>3 DEF Passed, Payload
    <2>5. g[i] = Note(what, Asked(x, h), h, r + i) /\ g[i] = PieceEvent(x, h, r + i)
      BY DEF PiecesOf, PieceEvent
    <2>6. p[i] \in Event /\ g[i] \in Event /\ p[i].what # "header"
      BY <1>2, <2>1, <2>4, <2>5 DEF Note, Event
    <2>7. ASSUME x.order = "sequential" PROVE SeenAs(x, p[i]) = SeenAs(x, g[i])
      <3>1. m > 0
        BY <1>1
      <3>2. q = Asked(x, h)
        BY <2>7, <3>1 DEF Payload
      <3> QED
        BY <2>4, <2>5, <3>2
    <2>8. ASSUME x.order # "sequential" PROVE SeenAs(x, p[i]) = SeenAs(x, g[i])
      <3>1. [Note(what, q, h, r + i) EXCEPT !.request = NoHeader]
              = [Note(what, Asked(x, h), h, r + i) EXCEPT !.request = NoHeader]
        BY DEF Note
      <3> QED
        BY <2>4, <2>5, <2>8, <3>1 DEF SeenAs
    <2> QED
      BY <2>4, <2>5, <2>6, <2>7, <2>8
  <1>4. p \in [1 .. m -> Event] /\ g \in [1 .. m -> Event]
    <2>1. p = [i \in 1 .. m |-> p[i]] /\ g = [i \in 1 .. m |-> g[i]]
      BY DEF Passed, PiecesOf
    <2> HIDE DEF p, g
    <2> QED
      BY <1>3, <2>1
  <1> HIDE DEF p, g, h
  <1>5. p \in Seq(Event) /\ Len(p) = m /\ g \in Seq(Event) /\ Len(g) = m
    BY <1>1, <1>4, FunctionIsSeq
  <1>6. Seen(x, p) = Seen(x, g)
    <2>1. Len(p) = Len(g) /\ \A i \in 1 .. Len(p) : SeenAs(x, p[i]) = SeenAs(x, g[i])
      BY <1>3, <1>5
    <2> QED
      BY <1>5, <2>1, SeenSame
  <1>7. HeadersIn(p) = {}
    <2>1. DOMAIN p = 1 .. m
      BY <1>4
    <2> QED
      BY <1>3, <2>1 DEF HeadersIn
  <1> QED
    BY <1>4, <1>5, <1>6, <1>7 DEF p, g, h, PassedOn

\* Payload that is told goes on as what is due, and with it the end of a message.
GoesOnAs(x, l, p, due, g, end) == Seen(x, l \o (p \o end)) = Seen(x, (due \o g) \o end)

\* Told and due go on alike.
LEMMA ToldOn ==
    ASSUME NEW x, NEW l \in Seq(Event), NEW p \in Seq(Event), NEW due \in Seq(Event), NEW g \in Seq(Event),
           NEW end \in Seq(Event), Seen(x, l) = Seen(x, due), Seen(x, p) = Seen(x, g)
    PROVE  GoesOnAs(x, l, p, due, g, end)
  <1> DEFINE told == p \o end
             follows == g \o end
  <1>1. told \in Seq(Event) /\ follows \in Seq(Event)
    BY ConcatProperties
  <1>2. Seen(x, told) = Seen(x, follows)
    BY SeenOn
  <1> HIDE DEF told, follows
  <1>3. Seen(x, l \o told) = Seen(x, due \o follows)
    BY <1>1, <1>2, SeenOn
  <1>4. AnyOrder(due, g, end)
    BY Associative
  <1> QED
    BY <1>3, <1>4 DEF AnyOrder, GoesOnAs, told, follows

-----------------------------------------------------------------------------
(* The sections for payload keep what is right of a direction. *)

\* The messages that are counted by how their payload is sent
KindsCounted(c) == c["numNormal"] + c["numChunked"] + c["numUnkownSize"] + c["numWithoutPayload"]

\* Counters with new more messages, of which ok more are over
Recounted(c, c2, new, ok) ==
    /\ c2["numHeaders"] = c["numHeaders"] + new
    /\ KindsCounted(c2) = KindsCounted(c) + new
    /\ c2["numOK"] = c["numOK"] + ok

\* The same message
SameMessage(s, t) == t.header = s.header /\ t.unzip = s.unzip /\ t.isRequest = s.isRequest

\* A section within a message keeps what is right, if the state after it says
\* what was used, what was told is due with that, and the counters tell the end.
LEMMA GoesOn ==
    ASSUME NEW x, NEW d \in Dirs, NEW s, s.buffer \in Seq(Cell), NEW t, NEW n \in Nat,
           NEW c \in [Counters -> Nat], NEW c2, NEW l \in Seq(Event), NEW events \in Seq(Event),
           NEW m \in 0 .. Len(s.buffer),
           Right(x, d, s, n, c, l, FALSE), s.state # "HEADER",
           SameMessage(s, t), Takes(s, t, m), t.state # "CORRUPTED",
           InMessage(x, d, t, c["numHeaders"], Used(s, n) + m),
           Seen(x, (l \o events) \o Pending(t)) = Seen(x, DueWith[x][d][Used(s, n) + m]),
           HeadersIn(events) = {},
           Recounted(c, c2, 0, IF t.state = "HEADER" THEN 1 ELSE 0)
    PROVE  Right(x, d, t, n, c2, l \o events, FALSE)
  <1> DEFINE k == c["numHeaders"]
             u == Used(s, n)
             v == Used(t, n)
  <1>1. Buffered(x, d, t, n) /\ v = u + m
    <2>1. Buffered(x, d, s, n)
      BY DEF Right
    <2>2. Uses(x, d, s, t, n, m)
      BY <2>1, BufferedRest
    <2> QED
      BY <2>2 DEF Uses
  <1>2. c2["numHeaders"] = k /\ KindsCounted(c2) = k /\ k \in Nat
    <2>1. KindsCounted(c) = k /\ k \in Nat
      BY DEF Right, Counted, KindsCounted, Counters
    <2> QED
      BY <2>1 DEF Recounted
  <1>3. k # 0 /\ k > 0
    BY <1>2 DEF Right, Placed
  <1>4. Placed(x, d, t, k, v)
    <2>1. /\ k \in 0 .. Len(MessagesOf(x, d)) /\ s.header = MessagesOf(x, d)[k]
          /\ s.unzip = s.header.gzip /\ s.isRequest = (d = "in")
      BY <1>3 DEF Right, Placed
    <2> QED
      BY <1>1, <1>3, <2>1 DEF Placed, SameMessage
  <1>5. Told(x, d, t, v, l \o events)
    BY <1>1 DEF Told
  <1>6. HeadersIn(l \o events) = FirstMessages(x, d, k)
    <2>1. HeadersIn(l) = FirstMessages(x, d, k)
      BY DEF Right, Counted
    <2>2. HeadersIn(l \o events) = HeadersIn(l) \cup HeadersIn(events)
      BY HeadersConcat
    <2> QED
      BY <2>1, <2>2
  <1>7. c2["numOK"] = IF IsOver(t, FALSE) THEN k ELSE k - 1
    <2>1. c["numOK"] = k - 1
      BY DEF Right, Counted, IsOver
    <2>2. c2["numOK"] = c["numOK"] + (IF t.state = "HEADER" THEN 1 ELSE 0)
      BY DEF Recounted
    <2>3. IsOver(t, FALSE) <=> t.state = "HEADER"
      BY DEF IsOver
    <2>4. k \in Nat
      BY <1>2
    <2> HIDE DEF k
    <2>5. CASE t.state = "HEADER"
      <3>1. c2["numOK"] = (k - 1) + 1
        BY <2>1, <2>2, <2>5
      <3> QED
        BY <2>3, <2>4, <2>5, <3>1
    <2>6. CASE t.state # "HEADER"
      <3>1. c2["numOK"] = (k - 1) + 0
        BY <2>1, <2>2, <2>6
      <3>2. ~IsOver(t, FALSE)
        BY <2>3, <2>6
      <3>3. c2["numOK"] = k - 1
        BY <2>4, <3>1
      <3> QED
        BY <3>2, <3>3
    <2> QED
      BY <2>5, <2>6
  <1>8. Counted(x, d, t, k, c2, l \o events, FALSE)
    BY <1>2, <1>6, <1>7 DEF Counted, KindsCounted
  <1> QED
    BY <1>1, <1>2, <1>4, <1>5, <1>8 DEF Right

\* What is known of a direction within a message
Within(x, d, s, n, k, u) ==
    /\ k \in 1 .. Len(MessagesOf(x, d)) /\ u = Used(s, n) /\ u \in Nat
    /\ s.header = MessagesOf(x, d)[k] /\ s.header \in Headers
    /\ Asked(x, s.header) \in Headers \cup {NoHeader} /\ s.unzip = s.header.gzip
    /\ EndsOf[x][d][k - 1] \in Nat /\ EndsOf[x][d][k - 1] + 5 <= u
    /\ EndsOf[x][d][k] \in Nat /\ EndsOf[x][d][k] <= Len(Wires[x][d]) /\ Len(Wires[x][d]) \in Nat
    /\ n = u + Len(s.buffer) /\ n <= Len(Wires[x][d]) /\ Len(s.buffer) \in Nat
    /\ s.buffer \in Seq(Cell)
    /\ DueWith[x][d][u] \in Seq(Event)

\* This is known of a direction that is not between messages.
LEMMA WithinIs ==
    ASSUME Conforming, NEW x \in Exchanges, NEW d \in Dirs, NEW s, OKDir(s), NEW n \in Nat,
           NEW k, Buffered(x, d, s, n), Placed(x, d, s, k, Used(s, n)), s.state # "HEADER"
    PROVE  Within(x, d, s, n, k, Used(s, n))
  <1> DEFINE u == Used(s, n)
  <1>1. /\ k \in 0 .. Len(MessagesOf(x, d)) /\ Len(MessagesOf(x, d)) \in Nat
        /\ u \in Nat /\ u <= n /\ n <= Len(Wires[x][d]) /\ Len(Wires[x][d]) \in Nat
        /\ n = u + Len(s.buffer) /\ Len(s.buffer) \in Nat
        /\ EndsOf[x][d][k] \in Nat
        /\ k > 0 => EndsOf[x][d][k - 1] \in Nat /\ EndsOf[x][d][k - 1] + 5 <= u
    BY PlacedIs
  <1>2. k # 0
    BY DEF Placed
  <1>3. k \in 1 .. Len(MessagesOf(x, d)) /\ k > 0
    BY <1>1, <1>2
  <1>4. s.header = MessagesOf(x, d)[k] /\ s.unzip = s.header.gzip
    BY <1>3 DEF Placed
  <1>5. s.header \in Headers /\ Asked(x, s.header) \in Headers \cup {NoHeader}
    BY <1>3, <1>4, MessageOK
  <1>6. EndsOf[x][d][k] <= Len(Wires[x][d])
    BY <1>3, HeadingIs
  <1>7. DueWith[x][d][u] \in Seq(Event)
    <2>1. u \in 0 .. Len(Wires[x][d])
      BY <1>1
    <2> QED
      BY <2>1, DueIs
  <1>8. s.buffer \in Seq(Cell)
    BY DEF OKDir, StreamDir
  <1> HIDE DEF u
  <1> QED
    BY <1>1, <1>3, <1>4, <1>5, <1>6, <1>7, <1>8 DEF Within, u

\* With payload of message k, q is told as the request.
Asks(x, d, s, k, u, q) ==
    /\ q \in Headers \cup {NoHeader}
    /\ u < EndsOf[x][d][k] /\ x.order = "sequential" => q = Asked(x, s.header)

\* The payload of a message of a given length
LEMMA LengthIs ==
    ASSUME Conforming, NEW x \in Exchanges, NEW d \in Dirs, NEW k \in 1 .. Len(MessagesOf(x, d)),
           NEW h, h = MessagesOf(x, d)[k], Framing(x, h) = "length"
    PROVE  /\ h.length \in Nat /\ EndsOf[x][d][k] = EndsOf[x][d][k - 1] + 5 + h.length
           /\ \A i \in 1 .. h.length : Wires[x][d][EndsOf[x][d][k - 1] + 5 + i] = Piece(x, h, i, i = h.length)
  <1> DEFINE e == EndsOf[x][d][k - 1]
             w == Body(x, h)
  <1>1. h \in Headers /\ Asked(x, h) \in Headers \cup {NoHeader}
    BY MessageOK
  <1>2. /\ EndsOf[x][d][k] = e + 5 + Len(w)
        /\ \A i \in 1 .. Len(w) : Wires[x][d][e + 5 + i] = w[i]
    BY EndsAre
  <1>3. /\ h.length \in Nat /\ Len(w) = h.length
        /\ \A i \in 1 .. h.length : w[i] = Piece(x, h, i, i = h.length)
    BY <1>1, BodyOK
  <1> HIDE DEF e, w
  <1>4. EndsOf[x][d][k] = e + 5 + h.length
    BY <1>2, <1>3
  <1>5. \A i \in 1 .. h.length : Wires[x][d][e + 5 + i] = Piece(x, h, i, i = h.length)
    BY <1>2, <1>3
  <1> QED
    BY <1>3, <1>4, <1>5 DEF e

\* Of m pieces behind the rth, each tells its event, the last of all more.
LEMMA LengthTells ==
    ASSUME NEW x, NEW d, NEW h \in Headers, Asked(x, h) \in Headers \cup {NoHeader},
           NEW u \in Nat, NEW r \in Nat, NEW m \in Nat, NEW len \in Nat, r + m <= len,
           \A i \in 1 .. m : Wires[x][d][u + i] = Piece(x, h, r + i, r + i = len)
    PROVE  /\ Numbered(x, d, u, r, m)
           /\ r + m < len => Carries(x, d, u, m, PiecesOf(x, h, r, m))
           /\ r + m = len /\ m > 0 =>
                 /\ Carries(x, d, u, m - 1, PiecesOf(x, h, r, m))
                 /\ CarriesMore(x, d, u + m, PiecesOf(x, h, r, m)[m], <<Finished(h)>>)
  <1> DEFINE g == PiecesOf(x, h, r, m)
  <1>1. \A i \in 1 .. m : g[i] = PieceEvent(x, h, r + i)
    BY DEF PiecesOf
  <1> HIDE DEF g
  <1>2. ASSUME NEW i \in 1 .. m
        PROVE  /\ Wires[x][d][u + i].cell.n = r + i
               /\ r + i < len => Wires[x][d][u + i].events = <<g[i]>>
               /\ r + i = len => Wires[x][d][u + i].events = <<g[i]>> \o <<Finished(h)>>
    <2> DEFINE last == r + i = len
    <2>1. r + i \in Nat /\ last \in BOOLEAN
      OBVIOUS
    <2>2. /\ Piece(x, h, r + i, last).cell.n = r + i
          /\ Piece(x, h, r + i, FALSE).events = <<PieceEvent(x, h, r + i)>>
          /\ Piece(x, h, r + i, TRUE).events = <<PieceEvent(x, h, r + i)>> \o <<Finished(h)>>
      <3> HIDE DEF last
      <3>1. \A b \in BOOLEAN : Piece(x, h, r + i, b).cell.n = r + i
        BY <2>1, PieceIs
      <3>2. Piece(x, h, r + i, FALSE).events = <<PieceEvent(x, h, r + i)>>
        BY <2>1, PieceIs
      <3>3. Piece(x, h, r + i, TRUE).events = <<PieceEvent(x, h, r + i)>> \o <<Finished(h)>>
        BY <2>1, PieceIs
      <3> QED
        BY <2>1, <3>1, <3>2, <3>3
    <2>3. Wires[x][d][u + i] = Piece(x, h, r + i, last)
      OBVIOUS
    <2>4. g[i] = PieceEvent(x, h, r + i)
      BY <1>1
    <2>5. Wires[x][d][u + i].cell.n = r + i
      BY <2>2, <2>3
    <2>6. ASSUME r + i < len PROVE Wires[x][d][u + i].events = <<g[i]>>
      <3>1. last = FALSE
        BY <2>6
      <3> QED
        BY <2>2, <2>3, <2>4, <3>1
    <2>7. ASSUME r + i = len PROVE Wires[x][d][u + i].events = <<g[i]>> \o <<Finished(h)>>
      <3>1. last = TRUE
        BY <2>7
      <3> QED
        BY <2>2, <2>3, <2>4, <3>1
    <2> QED
      BY <2>5, <2>6, <2>7
  <1>3. Numbered(x, d, u, r, m)
    BY <1>2 DEF Numbered
  <1>4. ASSUME r + m < len PROVE Carries(x, d, u, m, g)
    <2>1. ASSUME NEW i \in 1 .. m PROVE Wires[x][d][u + i].events = <<g[i]>>
      <3>1. r + i < len
        BY <1>4
      <3> QED
        BY <1>2, <3>1
    <2> QED
      BY <2>1 DEF Carries
  <1>5. ASSUME r + m = len, m > 0
        PROVE  /\ Carries(x, d, u, m - 1, g)
               /\ CarriesMore(x, d, u + m, g[m], <<Finished(h)>>)
    <2>1. ASSUME NEW i \in 1 .. m - 1 PROVE Wires[x][d][u + i].events = <<g[i]>>
      <3>1. i \in 1 .. m /\ r + i < len
        BY <1>5
      <3> QED
        BY <1>2, <3>1
    <2>2. m \in 1 .. m
      BY <1>5
    <2>3. Wires[x][d][u + m].events = <<g[m]>> \o <<Finished(h)>>
      BY <1>2, <1>5, <2>2
    <2> QED
      BY <2>1, <2>3 DEF Carries, CarriesMore
  <1> QED
    BY <1>3, <1>4, <1>5 DEF g

\* Content(): m cells were passed on, with which the message may be complete.
AfterContent(s, t, m) ==
    IF s.contentReceived + m = s.contentLength
    THEN t.state = "HEADER" /\ t.contentLength = 0 /\ t.contentReceived = 0
    ELSE t.state = "CONTENT" /\ t.contentLength = s.contentLength /\ t.contentReceived = s.contentReceived + m

\* What the section for content tells of m cells
ContentEvents(s, q, m) ==
    Passed(s, q, m) \o (IF s.contentReceived + m = s.contentLength THEN <<Finished(s.header)>> ELSE <<>>)

\* The section for content of known length keeps its direction right.
LEMMA ContentRight ==
    ASSUME Conforming, NEW x \in Exchanges, NEW d \in Dirs, NEW s, OKDir(s), NEW t, NEW n \in Nat,
           NEW c \in [Counters -> Nat], NEW c2, NEW l \in Seq(Event), NEW q, NEW m,
           Right(x, d, s, n, c, l, FALSE), s.state = "CONTENT", HasWork(s),
           Asks(x, d, s, c["numHeaders"], Used(s, n), q),
           m = Least(s.contentLength - s.contentReceived, s.buffer),
           SameMessage(s, t), Takes(s, t, m), AfterContent(s, t, m),
           Recounted(c, c2, 0, IF s.contentReceived + m = s.contentLength THEN 1 ELSE 0)
    PROVE  /\ Right(x, d, t, n, c2, l \o ContentEvents(s, q, m), FALSE)
           /\ ContentEvents(s, q, m) \in Seq(Event)
  <1> DEFINE k == c["numHeaders"]
             u == Used(s, n)
             h == s.header
             r == s.contentReceived
             len == s.contentLength
             body == EndsOf[x][d][k - 1] + 5
             e == EndsOf[x][d][k]
             p == Passed(s, q, m)
             g == PiecesOf(x, h, r, m)
             end == IF r + m = len THEN <<Finished(h)>> ELSE <<>>
             due == DueWith[x][d][u]
  <1>1. Within(x, d, s, n, k, u)
    BY WithinIs DEF Right
  <1>2. Framing(x, h) = "length" /\ len = h.length /\ u = body + r /\ (r < len \/ len = 0)
    <2>1. InMessage(x, d, s, k, u)
      <3>1. k \in Nat /\ k # 0
        BY DEF Right, Placed, Counters
      <3>2. k > 0
        BY <3>1
      <3> QED
        BY <3>2 DEF Right, Placed
    <2> QED
      BY <2>1 DEF InMessage
  <1>3. r \in Nat /\ len \in Nat /\ r <= len
    BY DEF OKDir, CountersFit, StreamDir
  <1>4. /\ k \in 1 .. Len(MessagesOf(x, d)) /\ h = MessagesOf(x, d)[k] /\ h \in Headers
        /\ Asked(x, h) \in Headers \cup {NoHeader} /\ s.unzip = h.gzip /\ s.buffer \in Seq(Cell)
        /\ Len(s.buffer) \in Nat /\ n = u + Len(s.buffer) /\ n <= Len(Wires[x][d]) /\ u \in Nat
        /\ e \in Nat /\ due \in Seq(Event) /\ Len(Wires[x][d]) \in Nat
    BY <1>1 DEF Within
  <1>21. body \in Nat
    <2>1. EndsOf[x][d][k - 1] \in Nat
      BY <1>1 DEF Within
    <2> DEFINE a == EndsOf[x][d][k - 1]
    <2> HIDE DEF a
    <2>2. a + 5 \in Nat
      BY <2>1 DEF a
    <2> QED
      BY <2>2, Zenon DEF a
  <1>22. r \in Nat /\ len \in Nat /\ r <= len /\ u \in Nat /\ e \in Nat /\ body \in Nat /\ u = body + r
    BY <1>2, <1>3, <1>4, <1>21
  <1>5. /\ e = body + len
        /\ \A i \in 1 .. len : Wires[x][d][body + i] = Piece(x, h, i, i = len)
    <2>1. /\ EndsOf[x][d][k] = EndsOf[x][d][k - 1] + 5 + h.length
          /\ \A i \in 1 .. h.length : Wires[x][d][EndsOf[x][d][k - 1] + 5 + i] = Piece(x, h, i, i = h.length)
      <3> HIDE DEF h, k
      <3>1. k \in 1 .. Len(MessagesOf(x, d)) /\ h = MessagesOf(x, d)[k] /\ Framing(x, h) = "length"
        BY <1>2, <1>4
      <3> QED
        BY <3>1, LengthIs
    <2> QED
      BY <1>2, <2>1
  <1>6. /\ m \in 0 .. Len(s.buffer) /\ m \in Nat /\ m <= len - r
        /\ m = 0 => len - r = 0 \/ s.buffer = <<>>
    <2>1. len - r \in Nat
      BY <1>3
    <2> HIDE DEF len, r
    <2>2. /\ Least(len - r, s.buffer) \in 0 .. Len(s.buffer) /\ Least(len - r, s.buffer) <= len - r
          /\ Least(len - r, s.buffer) = 0 => len - r = 0 \/ s.buffer = <<>>
      BY <1>4, <2>1, LeastOK
    <2> QED
      BY <1>4, <2>2 DEF len, r
  <1>7. Finished(h) \in Event /\ end \in Seq(Event)
    <2>1. Finished(h) \in Event
      BY <1>4 DEF Finished, Note, Event
    <2> QED
      BY <2>1
  <1>8. Seen(x, l \o Pending(s)) = Seen(x, due)
    BY DEF Right, Told
  <1>9. Asks(x, d, s, k, u, q)
    OBVIOUS
  <1>10. InMessage(x, d, t, k, u + m)
    <2>1. CASE r + m = len
      <3>2. t.state = "HEADER"
        BY <2>1 DEF AfterContent
      <3>3. u + m = e
        <4>1. e = body + len /\ m \in Nat
          BY <1>5, <1>6
        <4> HIDE DEF r, u, body, h, len, e
        <4> QED
          BY <1>22, <2>1, <4>1, SMTT(30)
      <3>1. u + m = e /\ t.state = "HEADER"
        BY <3>2, <3>3
      <3> QED
        BY <1>2, <3>1 DEF InMessage, SameMessage, ChunkStates
    <2>2. CASE r + m # len
      <3>1. /\ t.state = "CONTENT" /\ t.contentLength = len /\ t.contentReceived = r + m
            /\ u + m = body + (r + m) /\ r + m < len
        <4>1. /\ t.state = "CONTENT" /\ t.contentLength = len /\ t.contentReceived = r + m
          BY <2>2 DEF AfterContent
        <4>2. u + m = body + (r + m) /\ r + m < len
          <5> HIDE DEF r, u, body, h, len, e
          <5> QED
            BY <1>6, <1>22, <2>2, SMTT(30)
        <4> QED
          BY <4>1, <4>2
      <3>2. t.header = h
        BY DEF SameMessage
      <3> HIDE DEF r, u, body, h, len
      <3> QED
        BY <1>2, <3>1, <3>2 DEF InMessage, ChunkStates, body
    <2> QED
      BY <2>1, <2>2
  <1>11. Pending(t) = <<>>
    BY <1>2, <1>3, <1>6 DEF AfterContent, Pending
  <1>12. t.state # "CORRUPTED" /\ (t.state = "HEADER" <=> r + m = len)
    BY DEF AfterContent
  <1>13. /\ p \o end \in Seq(Event) /\ HeadersIn(p \o end) = {}
         /\ Seen(x, l \o (p \o end)) = Seen(x, DueWith[x][d][u + m])
    <2>1. HeadersIn(end) = {}
      BY DEF HeadersIn, Finished, Note
    <2>2. CASE len = 0
      <3>1. m = 0 /\ r = 0
        BY <1>3, <1>6, <2>2
      <3>2. p = <<>> /\ end = <<Finished(h)>> /\ u + m = u
        BY <1>4, <2>2, <3>1 DEF Passed
      <3>3. Pending(s) = end
        BY <2>2, <3>2 DEF Pending
      <3>4. p \o end = end
        BY <1>7, <3>2, ConcatEmptySeq
      <3> QED
        BY <1>7, <1>8, <2>1, <3>2, <3>3, <3>4
    <2>3. CASE len # 0
      <3>1. m > 0 /\ r < len
        BY <1>2, <1>3, <1>6, <2>3 DEF HasWork
      <3>2. Payload(x, s, q, m)
        <4>1. u < e
          <5>1. e = body + len
            BY <1>5
          <5>2. r \in Nat /\ len \in Nat /\ body \in Nat /\ u = body + r /\ r < len
            BY <1>22, <3>1
          <5> HIDE DEF r, u, body, h, len, e
          <5> QED
            BY <5>1, <5>2
        <4> QED
          BY <1>4, <1>9, <4>1 DEF Payload, Asks
      <3>3. r + m <= len /\ \A i \in 1 .. m : Wires[x][d][u + i] = Piece(x, h, r + i, r + i = len)
        <4>1. r + m <= len
          BY <1>3, <1>6
        <4>2. ASSUME NEW i \in 1 .. m PROVE Wires[x][d][u + i] = Piece(x, h, r + i, r + i = len)
          <5> HIDE DEF r, len, body, u, h, e
          <5>3. m \in Nat
            BY <1>6
          <5>1. r + i \in 1 .. len /\ body + (r + i) = u + i
            BY <1>22, <4>1, <5>3
          <5>2. Wires[x][d][body + (r + i)] = Piece(x, h, r + i, r + i = len)
            BY <1>5, <5>1, Zenon
          <5> QED
            BY <5>1, <5>2, Zenon
        <4> QED
          BY <4>1, <4>2
      <3>4. Numbered(x, d, u, r, m)
        BY <1>3, <1>4, <1>6, <3>3, LengthTells, ZenonT(60)
      <3>5. PassedOn(x, s, q, r, m)
        BY <1>3, <1>4, <1>6, <3>2, <3>4, PassedIs DEF Right
      <3>6. DueWith[x][d][u + m] = (due \o g) \o end
        <4>1. u + m <= Len(Wires[x][d])
          <5> DEFINE z == Len(Wires[x][d])
                     y == Len(s.buffer)
          <5>1. y \in Nat /\ n = u + y /\ n <= z /\ z \in Nat /\ m \in 0 .. y /\ u \in Nat
            BY <1>4, <1>6, Zenon
          <5> HIDE DEF z, y, u
          <5> QED
            BY <5>1 DEF z
        <4>2. g \in [1 .. m -> Event] /\ g \in Seq(Event)
          BY <3>5 DEF PassedOn
        <4>3. CASE r + m = len
          <5>1. Carries(x, d, u, m - 1, g) /\ CarriesMore(x, d, u + m, g[m], <<Finished(h)>>)
            BY <1>3, <1>4, <1>6, <3>1, <3>3, <4>3, LengthTells, ZenonT(60)
          <5>2. <<Finished(h)>> \in Seq(Event)
            BY <1>7
          <5> DEFINE last == <<Finished(h)>>
          <5>4. CarriesMore(x, d, u + m, g[m], last) /\ last \in Seq(Event)
            BY <5>1, <5>2
          <5>5. Carries(x, d, u, m - 1, g) /\ m \in Nat /\ u \in Nat
            BY <1>6, <1>22, <5>1
          <5> HIDE DEF g, u, last
          <5>7. m > 0
            BY <3>1
          <5>8. g \in [1 .. m -> Event]
            BY <4>2
          <5>6. DueBehind(x, d, u, m, g, last)
            BY <4>1, <5>4, <5>5, <5>7, <5>8, DueLast
          <5>3. DueWith[x][d][u + m] = (due \o g) \o <<Finished(h)>>
            BY <5>6 DEF last, DueBehind
          <5> QED
            BY <4>3, <5>3
        <4>4. CASE r + m # len
          <5>1. r + m < len
            <6> HIDE DEF r, len, body, u, h
            <6>1. r + m <= len
              BY <3>3
            <6>2. m \in Nat /\ r \in Nat /\ len \in Nat
              BY <1>6, <1>22
            <6> QED
              BY <4>4, <6>1, <6>2
          <5>2. Carries(x, d, u, m, g)
            BY <1>3, <1>4, <1>6, <3>3, <5>1, LengthTells
          <5>3. DueWith[x][d][u + m] = due \o g
            <6>1. m \in Nat /\ u \in Nat
              BY <1>6, <1>22
            <6> HIDE DEF g, u
            <6>2. DueWith[x][d][u + m] = DueWith[x][d][u] \o g
              BY <4>1, <4>2, <5>2, <6>1, DuePieces, ZenonT(60)
            <6> QED
              BY <6>2
          <5>4. due \o g \in Seq(Event)
            BY <1>4, <4>2, ConcatProperties
          <5>5. (due \o g) \o <<>> = due \o g
            BY <5>4, ConcatEmptySeq
          <5> QED
            BY <4>4, <5>3, <5>5
        <4> QED
          BY <4>3, <4>4, Zenon
      <3>7. p \in Seq(Event) /\ g \in Seq(Event) /\ Seen(x, p) = Seen(x, g) /\ HeadersIn(p) = {}
        BY <3>5 DEF PassedOn
      <3>8. Seen(x, l) = Seen(x, due)
        <4>1. Pending(s) = <<>> /\ l \o <<>> = l
          BY <2>3, ConcatEmptySeq DEF Pending
        <4> QED
          BY <1>8, <4>1
      <3> HIDE DEF p, g, due, end
      <3>9. GoesOnAs(x, l, p, due, g, end)
        BY <1>4, <1>7, <3>7, <3>8, ToldOn
      <3>10. p \o end \in Seq(Event) /\ HeadersIn(p \o end) = HeadersIn(p) \cup HeadersIn(end)
        BY <1>7, <3>7, ConcatProperties, HeadersConcat
      <3> QED
        BY <2>1, <3>6, <3>7, <3>9, <3>10 DEF GoesOnAs
    <2> QED
      BY <2>2, <2>3
  <1> DEFINE events == p \o end
  <1>14. events = ContentEvents(s, q, m)
    BY DEF ContentEvents
  <1> HIDE DEF events, p, end
  <1>15. (l \o events) \o Pending(t) = l \o events
    <2>1. l \o events \in Seq(Event)
      BY <1>13, ConcatProperties DEF events
    <2> QED
      BY <1>11, <2>1, ConcatEmptySeq
  <1>16. Seen(x, (l \o events) \o Pending(t)) = Seen(x, DueWith[x][d][u + m])
    BY <1>13, <1>15 DEF events
  <1>17. Recounted(c, c2, 0, IF t.state = "HEADER" THEN 1 ELSE 0)
    BY <1>12
  <1>18. events \in Seq(Event) /\ HeadersIn(events) = {}
    BY <1>13 DEF events
  <1>19. s.state # "HEADER"
    OBVIOUS
  <1>20. Right(x, d, t, n, c2, l \o events, FALSE)
    BY <1>4, <1>6, <1>10, <1>12, <1>16, <1>17, <1>18, <1>19, GoesOn
  <1> QED
    BY <1>14, <1>18, <1>20

\* Once m cells are passed on, all that is due is told.
TrafficTold(x, d, s, u, q, m, l) ==
    /\ Passed(s, q, m) \in Seq(Event) /\ HeadersIn(Passed(s, q, m)) = {}
    /\ Seen(x, l \o Passed(s, q, m)) = Seen(x, DueWith[x][d][u + m])

\* Payload is passed on.
LEMMA TrafficRight ==
    ASSUME Conforming, NEW x \in Exchanges, NEW d \in Dirs, NEW s, NEW n \in Nat, NEW k, NEW u, NEW q,
           NEW l \in Seq(Event), NEW r \in Nat, NEW m \in 0 .. Len(s.buffer),
           Within(x, d, s, n, k, u), Buffered(x, d, s, n), Asks(x, d, s, k, u, q),
           u + m <= EndsOf[x][d][k], Seen(x, l) = Seen(x, DueWith[x][d][u]),
           \A i \in 1 .. m : Wires[x][d][u + i] = Piece(x, s.header, r + i, FALSE)
    PROVE  TrafficTold(x, d, s, u, q, m, l)
  <1> DEFINE h == s.header
             p == Passed(s, q, m)
             g == PiecesOf(x, h, r, m)
             due == DueWith[x][d][u]
             len == r + m + 1
             none == <<>>
  <1>1. /\ h \in Headers /\ Asked(x, h) \in Headers \cup {NoHeader} /\ s.unzip = h.gzip
        /\ s.buffer \in Seq(Cell) /\ Len(s.buffer) \in Nat /\ u \in Nat /\ due \in Seq(Event)
        /\ EndsOf[x][d][k] \in Nat /\ EndsOf[x][d][k] <= Len(Wires[x][d]) /\ Len(Wires[x][d]) \in Nat
        /\ u = Used(s, n)
    BY DEF Within
  <1>2. m \in Nat /\ u \in Nat
    BY <1>1
  <1>3. u + m <= Len(Wires[x][d])
    BY <1>1, <1>2, SMTT(30)
  <1>4. Payload(x, s, q, m)
    <2>1. ASSUME m > 0 PROVE u < EndsOf[x][d][k]
      BY <1>1, <1>2, <2>1
    <2> QED
      BY <1>1, <2>1 DEF Payload, Asks
  <1>5. \A i \in 1 .. m : Wires[x][d][u + i] = Piece(x, h, r + i, r + i = len)
    <2>1. ASSUME NEW i \in 1 .. m PROVE (r + i = len) = FALSE
      BY <1>2
    <2> QED
      BY <2>1
  <1>6. len \in Nat /\ r + m <= len /\ r + m < len
    BY <1>2
  <1> HIDE DEF len
  <1>7. Numbered(x, d, u, r, m) /\ Carries(x, d, u, m, g)
    BY <1>1, <1>2, <1>5, <1>6, LengthTells
  <1>8. PassedOn(x, s, q, r, m)
    BY <1>1, <1>4, <1>7, PassedIs
  <1>9. /\ p \in Seq(Event) /\ g \in Seq(Event) /\ g \in [1 .. m -> Event]
        /\ Seen(x, p) = Seen(x, g) /\ HeadersIn(p) = {}
    BY <1>8 DEF PassedOn
  <1> HIDE DEF p, g
  <1>10. DueWith[x][d][u + m] = DueWith[x][d][u] \o g
    BY <1>2, <1>3, <1>7, <1>9, DuePieces, ZenonT(60)
  <1>11. Seen(x, l) = Seen(x, due) /\ due \in Seq(Event)
    BY <1>1
  <1> HIDE DEF due
  <1>12. Seen(x, l \o p) = Seen(x, due \o g)
    BY <1>9, <1>11, SeenOn
  <1> QED
    BY <1>9, <1>10, <1>12 DEF TrafficTold, p, due

\* What is told and what is used within a message, of the direction as it is
Inside(x, d, s, n, k, l) ==
    /\ Seen(x, l) = Seen(x, DueWith[x][d][Used(s, n)])
    /\ InMessage(x, d, s, k, Used(s, n))
    /\ Buffered(x, d, s, n) /\ Placed(x, d, s, k, Used(s, n))

\* Within a message other than its content of known length, nothing is pending.
LEMMA ToldWithin ==
    ASSUME NEW x, NEW d, NEW s, NEW n, NEW c \in [Counters -> Nat], NEW l \in Seq(Event),
           Right(x, d, s, n, c, l, FALSE), s.state # "HEADER", s.state # "CONTENT"
    PROVE  Inside(x, d, s, n, c["numHeaders"], l)
  <1>1. l \o Pending(s) = l
    BY ConcatEmptySeq DEF Pending
  <1>2. c["numHeaders"] \in Nat /\ c["numHeaders"] # 0
    BY DEF Right, Placed, Counters
  <1>3. c["numHeaders"] > 0
    BY <1>2
  <1> QED
    BY <1>1, <1>3 DEF Right, Told, Placed, Inside

\* UnknownContent(): all that is in the buffer is passed on.
LEMMA UnknownRight ==
    ASSUME Conforming, NEW x \in Exchanges, NEW d \in Dirs, NEW s, OKDir(s), NEW t, NEW n \in Nat,
           NEW c \in [Counters -> Nat], NEW c2, NEW l \in Seq(Event), NEW q,
           Right(x, d, s, n, c, l, FALSE), s.state = "UNKNOWN_CONTENT", HasWork(s),
           Asks(x, d, s, c["numHeaders"], Used(s, n), q),
           SameMessage(s, t), Takes(s, t, Len(s.buffer)), t.state = "UNKNOWN_CONTENT",
           Recounted(c, c2, 0, 0)
    PROVE  /\ Right(x, d, t, n, c2, l \o Passed(s, q, Len(s.buffer)), FALSE)
           /\ Passed(s, q, Len(s.buffer)) \in Seq(Event)
  <1> DEFINE k == c["numHeaders"]
             u == Used(s, n)
             h == s.header
             m == Len(s.buffer)
             body == EndsOf[x][d][k - 1] + 5
             e == EndsOf[x][d][k]
             r == u - body
             p == Passed(s, q, m)
  <1>1. /\ Seen(x, l) = Seen(x, DueWith[x][d][u]) /\ InMessage(x, d, s, k, u)
        /\ Buffered(x, d, s, n) /\ Placed(x, d, s, k, u)
    <2>1. s.state # "HEADER" /\ s.state # "CONTENT"
      OBVIOUS
    <2>2. Inside(x, d, s, n, c["numHeaders"], l)
      BY <2>1, ToldWithin
    <2> QED
      BY <2>2 DEF Inside
  <1>2. Within(x, d, s, n, k, u)
    BY <1>1, WithinIs
  <1>3. Framing(x, h) = "close" /\ body <= u
    BY <1>1 DEF InMessage
  <1>4. /\ k \in 1 .. Len(MessagesOf(x, d)) /\ h = MessagesOf(x, d)[k] /\ h \in Headers
        /\ Asked(x, h) \in Headers \cup {NoHeader}
        /\ n = u + m /\ n <= Len(Wires[x][d]) /\ u \in Nat /\ m \in Nat /\ e \in Nat
        /\ Len(Wires[x][d]) \in Nat
    BY <1>2 DEF Within
  <1>5. body \in Nat
    <2>1. EndsOf[x][d][k - 1] \in Nat
      BY <1>2 DEF Within
    <2> QED
      BY <2>1, SMTT(30)
  <1>6. m > 0
    <2>1. s.buffer # <<>> /\ s.buffer \in Seq(Cell)
      BY <1>2 DEF HasWork, Within
    <2> QED
      BY <1>4, <2>1, EmptySeq
  <1>7. e = Len(Wires[x][d])
    <2>1. ~(k < Len(MessagesOf(x, d)))
      BY <1>3, <1>4, MessageOK
    <2>2. k = Len(MessagesOf(x, d))
      <3> HIDE DEF k
      <3> QED
        BY <1>4, <2>1, CountOfMessages
    <2> QED
      BY <2>2, EndsAre
  <1>8. /\ e = body + Len(Body(x, h)) /\ Len(Body(x, h)) \in Nat
        /\ \A i \in 1 .. Len(Body(x, h)) : Wires[x][d][body + i] = Body(x, h)[i]
    <2> HIDE DEF k, h
    <2>2. LET f == MessagesOf(x, d)[k]
              b == EndsOf[x][d][k - 1]
          IN  /\ EndsOf[x][d][k] = b + 5 + Len(Body(x, f)) /\ Len(Body(x, f)) \in Nat
              /\ \A i \in 1 .. Len(Body(x, f)) : Wires[x][d][b + 5 + i] = Body(x, f)[i]
      BY <1>4, EndsAre
    <2> QED
      BY <1>4, <2>2
  <1>9. Len(Body(x, h)) = 2 /\ \A i \in 1 .. 2 : Body(x, h)[i] = Piece(x, h, i, FALSE)
    <2>1. Len(Body(x, h)) # 0
      <3> DEFINE w == Len(Body(x, h))
      <3>1. e = body + w /\ w \in Nat
        BY <1>8
      <3> HIDE DEF w, e, body, u, m
      <3> QED
        BY <1>3, <1>4, <1>5, <1>6, <1>7, <3>1 DEF w
    <2>2. Body(x, h) # <<>>
      BY <2>1, EmptySeq
    <2>3. Framing(x, h) = "close" /\ h.method # "RESPONSE" => Body(x, h) = <<>>
      BY <1>4, BodyOK
    <2>4. h.method = "RESPONSE"
      BY <1>3, <2>2, <2>3
    <2> QED
      BY <1>3, <1>4, <2>4, BodyOK
  <1>10. /\ r \in Nat /\ u + m <= e /\ body + r = u /\ e = body + 2
    <2>1. e = body + 2
      BY <1>8, <1>9
    <2> HIDE DEF e, body, u, m
    <2>2. n = u + m /\ n <= e
      BY <1>4, <1>7
    <2> QED
      BY <1>3, <1>4, <1>5, <2>1, <2>2
  <1>11. ASSUME NEW i \in 1 .. m PROVE Wires[x][d][u + i] = Piece(x, h, r + i, FALSE)
    <2> HIDE DEF e, body, u, m, r, h
    <2>1. r + i \in 1 .. 2 /\ body + (r + i) = u + i
      BY <1>4, <1>5, <1>10
    <2>2. Wires[x][d][body + (r + i)] = Body(x, h)[r + i]
      BY <1>8, <1>9, <2>1
    <2> QED
      BY <1>9, <2>1, <2>2
  <1>12. m \in 0 .. Len(s.buffer)
    BY <1>4
  <1>13. TrafficTold(x, d, s, u, q, m, l)
    <2>1. Asks(x, d, s, k, u, q) /\ r \in Nat /\ u + m <= EndsOf[x][d][k]
      BY <1>10
    <2> HIDE DEF k, u, m, r, e
    <2> QED
      BY <1>1, <1>2, <1>11, <1>12, <2>1, TrafficRight
  <1>14. /\ p \in Seq(Event) /\ HeadersIn(p) = {}
         /\ Seen(x, l \o p) = Seen(x, DueWith[x][d][u + m])
    BY <1>13 DEF TrafficTold
  <1> HIDE DEF p
  <1>15. (l \o p) \o Pending(t) = l \o p
    <2>1. Pending(t) = <<>> /\ l \o p \in Seq(Event)
      BY <1>14, ConcatProperties DEF Pending
    <2> QED
      BY <2>1, ConcatEmptySeq
  <1>16. InMessage(x, d, t, k, u + m)
    <2>1. t.header = h
      BY DEF SameMessage
    <2>2. body <= u + m
      <3> HIDE DEF body, u, m
      <3> QED
        BY <1>3, <1>4, <1>5
    <2> QED
      BY <1>3, <2>1, <2>2 DEF InMessage, ChunkStates
  <1>17. /\ Seen(x, (l \o p) \o Pending(t)) = Seen(x, DueWith[x][d][u + m])
         /\ Recounted(c, c2, 0, IF t.state = "HEADER" THEN 1 ELSE 0)
         /\ s.state # "HEADER" /\ t.state # "CORRUPTED" /\ s.buffer \in Seq(Cell)
    BY <1>2, <1>14, <1>15 DEF Within
  <1>18. Right(x, d, t, n, c2, l \o p, FALSE)
    BY <1>12, <1>14, <1>16, <1>17, GoesOn
  <1> QED
    BY <1>14, <1>18 DEF p

\* A state within the chunk behind the jth
LEMMA ChunkStays ==
    ASSUME NEW x, NEW d, NEW t, NEW k, NEW v, NEW j \in 0 .. Len(Chunks), NEW at,
           Framing(x, t.header) = "chunked", t.state \in ChunkStates,
           at = EndsOf[x][d][k - 1] + 5 + ChunkEndAt(x, t.header, j),
           t.state = "CHUNK_SIZE" => v = at,
           t.state = "CHUNK_DATA" => t.chunkLength = NextSize(j) /\ v = at + 3 + t.contentReceived,
           t.state = "CHUNK_END" => t.chunkLength = NextSize(j) /\ v = at + 3 + NextSize(j)
    PROVE  InMessage(x, d, t, k, v)
  <1>1. InChunk(x, t, EndsOf[x][d][k - 1] + 5, v, j)
    BY DEF InChunk
  <1> QED
    BY <1>1 DEF InMessage, ChunkStates

\* ChunkSize(): the line with the size is taken.
LEMMA ChunkSizeRight ==
    ASSUME Conforming, NEW x \in Exchanges, NEW d \in Dirs, NEW s, OKDir(s), NEW t, NEW n \in Nat,
           NEW c \in [Counters -> Nat], NEW l \in Seq(Event),
           Right(x, d, s, n, c, l, FALSE), s.state = "CHUNK_SIZE", HasWork(s),
           SameMessage(s, t), Takes(s, t, First(LineEnds(s.buffer))), t.state = "CHUNK_DATA",
           t.chunkLength = ChunkSizeIn(SubSeq(s.buffer, 1, First(LineEnds(s.buffer)) - 2)),
           t.contentReceived = s.contentReceived
    PROVE  Right(x, d, t, n, c, l, FALSE)
  <1> DEFINE k == c["numHeaders"]
             u == Used(s, n)
             h == s.header
             m == First(LineEnds(s.buffer))
             none == <<>>
  <1>1. s.state # "HEADER" /\ s.state # "CONTENT" /\ s.state \in ChunkStates
    BY DEF ChunkStates
  <1>2. Inside(x, d, s, n, c["numHeaders"], l)
    BY <1>1, ToldWithin
  <1>3. /\ Seen(x, l) = Seen(x, DueWith[x][d][u])
        /\ Buffered(x, d, s, n) /\ Placed(x, d, s, k, u)
    BY <1>2 DEF Inside
  <1>4. Within(x, d, s, n, k, u)
    BY <1>1, <1>3, WithinIs
  <1> HIDE DEF k, u
  <1>5. /\ h = MessagesOf(x, d)[k] /\ Framing(x, h) = "chunked"
        /\ \E j \in 0 .. Len(Chunks) : \E at \in Nat : OnChunk(x, d, s, k, u, j, at)
    BY <1>1, <1>3, ChunkPlace
  <1>6. PICK j \in 0 .. Len(Chunks) : \E at \in Nat : OnChunk(x, d, s, k, u, j, at)
    BY <1>5
  <1>7. PICK at \in Nat : OnChunk(x, d, s, k, u, j, at)
    BY <1>6
  <1>8. u \in Nat /\ u = Used(s, n)
    BY <1>4 DEF Within
  <1>21. Buffered(x, d, s, n)
    BY <1>3
  <1>9. HasSize(s, j)
    BY <1>7, <1>8, <1>21, SizeIs
  <1>10. m = 3 /\ 3 <= Len(s.buffer) /\ t.chunkLength = NextSize(j)
    <2>1. LineEnds(s.buffer) # {}
      BY DEF HasWork
    <2>2. m = 3 /\ m - 2 = 1
      BY <1>9, <2>1 DEF HasSize
    <2> QED
      BY <1>9, <2>1, <2>2 DEF HasSize
  <1>11. s.contentReceived = 0
    BY Zenon DEF OKDir, CountersFit
  <1>12. /\ u = at /\ at = EndsOf[x][d][k - 1] + 5 + ChunkEndAt(x, h, j)
         /\ at + NextSize(j) + 5 <= EndsOf[x][d][k] /\ NextSize(j) \in Nat
         /\ Starts(Wires[x][d][at + 1], "size", NoHeader, NextSize(j))
         /\ Quiet(Wires[x][d][at + 2], "cr") /\ Quiet(Wires[x][d][at + 3], "lf")
    BY <1>7, Zenon DEF OnChunk, ChunkAt
  <1>13. InMessage(x, d, t, k, u + 3)
    <2>1. t.header = h /\ t.state \in ChunkStates
      BY DEF SameMessage, ChunkStates
    <2>2. u + 3 = at + 3 + t.contentReceived
      <3>1. u = at /\ t.contentReceived = 0 /\ at \in Nat
        BY <1>11, <1>12, Zenon
      <3>2. at + 3 = at + 3 + 0
        OBVIOUS
      <3> QED
        BY <3>1, <3>2, Zenon
    <2>3. /\ at = EndsOf[x][d][k - 1] + 5 + ChunkEndAt(x, t.header, j)
          /\ Framing(x, t.header) = "chunked"
          /\ t.state = "CHUNK_DATA" => t.chunkLength = NextSize(j) /\ u + 3 = at + 3 + t.contentReceived
          /\ t.state # "CHUNK_SIZE" /\ t.state # "CHUNK_END"
      BY <1>5, <1>10, <1>12, <2>1, <2>2, Zenon
    <2> QED
      BY <2>1, <2>3, ChunkStays, Zenon
  <1>14. DueWith[x][d][u + 3] = DueWith[x][d][u]
    <2>1. u + 3 <= Len(Wires[x][d])
      <3>1. /\ EndsOf[x][d][k] \in Nat /\ EndsOf[x][d][k] <= Len(Wires[x][d]) /\ Len(Wires[x][d]) \in Nat
        BY <1>4 DEF Within
      <3>2. u + NextSize(j) + 5 <= EndsOf[x][d][k] /\ NextSize(j) \in Nat /\ u \in Nat
        BY <1>8, <1>12, Zenon
      <3> DEFINE z == Len(Wires[x][d])
                 y == EndsOf[x][d][k]
                 o == NextSize(j)
      <3>3. y \in Nat /\ y <= z /\ z \in Nat /\ u + o + 5 <= y /\ o \in Nat /\ u \in Nat
        BY <3>1, <3>2, Zenon
      <3> HIDE DEF z, y, o
      <3> QED
        BY <3>3 DEF z
    <2>2. ASSUME NEW i \in 1 .. 3 PROVE Wires[x][d][u + i].events = <<>>
      <3>1. /\ Wires[x][d][u + 1].events = <<>> /\ Wires[x][d][u + 2].events = <<>>
            /\ Wires[x][d][u + 3].events = <<>>
        BY <1>12 DEF Starts, Quiet
      <3>2. i = 1 \/ i = 2 \/ i = 3
        OBVIOUS
      <3> QED
        BY <3>1, <3>2, ZenonT(60)
    <2>3. 3 \in Nat /\ u \in Nat
      BY <1>8
    <2> QED
      BY <2>1, <2>2, <2>3, DueNothing
  <1>15. none \in Seq(Event) /\ l \o none = l /\ (l \o none) \o Pending(t) = l /\ HeadersIn(none) = {}
    <2>1. l \o <<>> = l /\ Pending(t) = <<>>
      BY ConcatEmptySeq DEF Pending
    <2>2. HeadersIn(<<>>) = {}
      BY DEF HeadersIn
    <2> QED
      BY <2>1, <2>2
  <1> HIDE DEF none
  <1>16. Seen(x, (l \o none) \o Pending(t)) = Seen(x, DueWith[x][d][u + 3])
    BY <1>3, <1>14, <1>15
  <1>17. Recounted(c, c, 0, IF t.state = "HEADER" THEN 1 ELSE 0)
    BY SMTT(30) DEF Recounted, KindsCounted, Counters
  <1>18. 3 \in 0 .. Len(s.buffer) /\ s.buffer \in Seq(Cell) /\ Takes(s, t, 3)
    BY <1>10 DEF Takes
  <1>19. t.state # "CORRUPTED"
    OBVIOUS
  <1>20. Right(x, d, t, n, c, l \o none, FALSE)
    BY <1>1, <1>13, <1>15, <1>16, <1>17, <1>18, <1>19, GoesOn DEF k, u
  <1> QED
    BY <1>15, <1>20

\* ChunkData(): m cells were passed on, with which the chunk may be complete.
AfterChunkData(s, t, m) ==
    /\ t.chunkLength = s.chunkLength
    /\ t.state = IF s.contentReceived + m = s.chunkLength THEN "CHUNK_END" ELSE "CHUNK_DATA"
    /\ t.contentReceived = IF s.contentReceived + m = s.chunkLength THEN 0 ELSE s.contentReceived + m

\* The section for the data of a chunk keeps its direction right.
LEMMA ChunkDataRight ==
    ASSUME Conforming, NEW x \in Exchanges, NEW d \in Dirs, NEW s, OKDir(s), NEW t, NEW n \in Nat,
           NEW c \in [Counters -> Nat], NEW c2, NEW l \in Seq(Event), NEW q, NEW m,
           Right(x, d, s, n, c, l, FALSE), s.state = "CHUNK_DATA",
           Asks(x, d, s, c["numHeaders"], Used(s, n), q),
           m = Least(s.chunkLength - s.contentReceived, s.buffer),
           SameMessage(s, t), Takes(s, t, m), AfterChunkData(s, t, m),
           Recounted(c, c2, 0, 0)
    PROVE  /\ Right(x, d, t, n, c2, l \o Passed(s, q, m), FALSE)
           /\ Passed(s, q, m) \in Seq(Event)
  <1> DEFINE k == c["numHeaders"]
             u == Used(s, n)
             h == s.header
             r == s.contentReceived
             len == s.chunkLength
             p == Passed(s, q, m)
  <1>1. s.state # "HEADER" /\ s.state # "CONTENT" /\ s.state \in ChunkStates
    BY DEF ChunkStates
  <1>2. Inside(x, d, s, n, c["numHeaders"], l)
    BY <1>1, ToldWithin
  <1>3. /\ Seen(x, l) = Seen(x, DueWith[x][d][u])
        /\ Buffered(x, d, s, n) /\ Placed(x, d, s, k, u)
    BY <1>2 DEF Inside
  <1>4. Within(x, d, s, n, k, u)
    BY <1>1, <1>3, WithinIs
  <1>5. Asks(x, d, s, k, u, q)
    OBVIOUS
  <1> HIDE DEF k, u
  <1>6. /\ Framing(x, h) = "chunked"
        /\ \E j \in 0 .. Len(Chunks) : \E at \in Nat : OnChunk(x, d, s, k, u, j, at)
    BY <1>1, <1>3, ChunkPlace
  <1>7. PICK j \in 0 .. Len(Chunks) : \E at \in Nat : OnChunk(x, d, s, k, u, j, at)
    BY <1>6
  <1>8. PICK at \in Nat : OnChunk(x, d, s, k, u, j, at)
    BY <1>7, Zenon
  <1>9. /\ u = at + 3 + r /\ at = EndsOf[x][d][k - 1] + 5 + ChunkEndAt(x, h, j) /\ len = NextSize(j)
        /\ at + len + 5 <= EndsOf[x][d][k] /\ len \in Nat
        /\ \A i \in 1 .. len : Wires[x][d][at + 3 + i] = Piece(x, h, i, FALSE)
    BY <1>8, Zenon DEF OnChunk, ChunkAt
  <1>10. /\ u \in Nat /\ EndsOf[x][d][k] \in Nat /\ Len(s.buffer) \in Nat /\ s.buffer \in Seq(Cell)
    BY <1>4 DEF Within
  <1>11. r \in Nat /\ r <= len
    BY DEF OKDir, CountersFit, StreamDir
  <1>12. m \in 0 .. Len(s.buffer) /\ m \in Nat /\ r + m <= len
    <2>1. len - r \in Nat
      <3>1. len \in Nat /\ r \in Nat /\ r <= len
        BY <1>9, <1>11
      <3> HIDE DEF len, r
      <3> QED
        BY <3>1
    <2>2. m = Least(len - r, s.buffer)
      OBVIOUS
    <2> HIDE DEF len, r
    <2>3. Least(len - r, s.buffer) \in 0 .. Len(s.buffer) /\ Least(len - r, s.buffer) <= len - r
      BY <1>10, <2>1, LeastOK
    <2>4. m \in 0 .. Len(s.buffer) /\ m <= len - r
      BY <2>2, <2>3
    <2>5. len \in Nat /\ r \in Nat /\ Len(s.buffer) \in Nat
      BY <1>9, <1>10, <1>11
    <2> QED
      BY <2>4, <2>5
  <1>13. u + m <= EndsOf[x][d][k]
    <2> DEFINE e == EndsOf[x][d][k]
    <2>1. u = at + 3 + r /\ at + len + 5 <= e /\ e \in Nat /\ len \in Nat
      BY <1>9, <1>10
    <2>2. r \in Nat /\ m \in Nat /\ r + m <= len
      BY <1>11, <1>12
    <2> HIDE DEF e, len, r
    <2>3. u + m <= e
      BY <2>1, <2>2
    <2> QED
      BY <2>3 DEF e
  <1>14. ASSUME NEW i \in 1 .. m PROVE Wires[x][d][u + i] = Piece(x, h, r + i, FALSE)
    <2>1. u = at + 3 + r /\ len \in Nat
      BY <1>9
    <2>2. r \in Nat /\ m \in Nat /\ r + m <= len
      BY <1>11, <1>12
    <2> HIDE DEF len, r, h
    <2>3. r + i \in 1 .. len /\ at + 3 + (r + i) = u + i
      BY <2>1, <2>2
    <2>4. Wires[x][d][at + 3 + (r + i)] = Piece(x, h, r + i, FALSE)
      BY <1>9, <2>3
    <2> QED
      BY <2>3, <2>4
  <1>15. TrafficTold(x, d, s, u, q, m, l)
    <2>1. r \in Nat /\ m \in 0 .. Len(s.buffer)
      BY <1>11, <1>12
    <2> HIDE DEF r
    <2> QED
      BY <1>3, <1>4, <1>5, <1>13, <1>14, <2>1, TrafficRight
  <1>16. /\ p \in Seq(Event) /\ HeadersIn(p) = {}
         /\ Seen(x, l \o p) = Seen(x, DueWith[x][d][u + m])
    BY <1>15 DEF TrafficTold
  <1> HIDE DEF p
  <1>17. t.state \in {"CHUNK_DATA", "CHUNK_END"} /\ t.header = h /\ t.chunkLength = len
    BY DEF AfterChunkData, SameMessage
  <1>18. (l \o p) \o Pending(t) = l \o p
    <2>1. Pending(t) = <<>> /\ l \o p \in Seq(Event)
      BY <1>16, <1>17, ConcatProperties DEF Pending
    <2> QED
      BY <2>1, ConcatEmptySeq
  <1>19. InMessage(x, d, t, k, u + m)
    <2>1. u = at + 3 + r /\ len \in Nat
      BY <1>9
    <2>2. r \in Nat /\ m \in Nat /\ r + m <= len
      BY <1>11, <1>12
    <2>3. u + m = at + 3 + (r + m)
      <3> HIDE DEF r, len
      <3> QED
        BY <2>1, <2>2
    <2>4. /\ t.state = "CHUNK_DATA" => t.contentReceived = r + m
          /\ t.state = "CHUNK_END" => r + m = len
      BY DEF AfterChunkData
    <2>5. /\ t.state = "CHUNK_DATA" => t.chunkLength = NextSize(j) /\ u + m = at + 3 + t.contentReceived
          /\ t.state = "CHUNK_END" => t.chunkLength = NextSize(j) /\ u + m = at + 3 + NextSize(j)
          /\ t.state # "CHUNK_SIZE" /\ t.state \in ChunkStates
      BY <1>9, <1>17, <2>3, <2>4 DEF ChunkStates
    <2>6. at = EndsOf[x][d][k - 1] + 5 + ChunkEndAt(x, t.header, j) /\ Framing(x, t.header) = "chunked"
      BY <1>6, <1>9, <1>17
    <2> QED
      BY <2>5, <2>6, ChunkStays
  <1>20. /\ Seen(x, (l \o p) \o Pending(t)) = Seen(x, DueWith[x][d][u + m])
         /\ Recounted(c, c2, 0, IF t.state = "HEADER" THEN 1 ELSE 0)
         /\ s.state # "HEADER" /\ t.state # "CORRUPTED"
    BY <1>16, <1>17, <1>18
  <1>21. Right(x, d, t, n, c2, l \o p, FALSE)
    BY <1>10, <1>12, <1>16, <1>19, <1>20, GoesOn DEF k, u
  <1> QED
    BY <1>16, <1>21 DEF p

\* What the end of a chunk tells: the end of the message, if the chunk was the last
ChunkEndEvents(s) == IF s.chunkLength = 0 THEN <<Finished(s.header)>> ELSE <<>>

\* The cells at the end of a chunk and what is due with them
ChunkEnds(x, d, s, k, u) ==
    /\ u + 2 <= EndsOf[x][d][k]
    /\ s.chunkLength = 0 => u + 2 = EndsOf[x][d][k]
    /\ DueWith[x][d][u + 2] = DueWith[x][d][u] \o ChunkEndEvents(s)

\* The end of a chunk is the end of its message, or another chunk follows.
LEMMA ChunkEndsIs ==
    ASSUME Conforming, NEW x \in Exchanges, NEW d \in Dirs, NEW s, NEW n \in Nat, NEW k, NEW u,
           Within(x, d, s, n, k, u), Framing(x, s.header) = "chunked", s.state = "CHUNK_END",
           NEW j \in 0 .. Len(Chunks), NEW at \in Nat, OnChunk(x, d, s, k, u, j, at)
    PROVE  ChunkEnds(x, d, s, k, u)
  <1> DEFINE m == NextSize(j)
             h == s.header
             e == EndsOf[x][d][k]
             L == Len(Wires[x][d])
             w == Wires[x][d]
             due == DueWith[x][d]
  <1>1. /\ at + m + 5 <= e /\ m \in Nat /\ s.chunkLength = m /\ u = at + 3 + m
        /\ at = EndsOf[x][d][k - 1] + 5 + ChunkEndAt(x, h, j)
        /\ Quiet(w[at + m + 4], "cr")
        /\ w[at + m + 5].events = IF m > 0 THEN <<>> ELSE <<Finished(h)>>
    BY Zenon DEF OnChunk, ChunkAt
  <1>2. /\ k \in 1 .. Len(MessagesOf(x, d)) /\ h = MessagesOf(x, d)[k] /\ h \in Headers
        /\ u \in Nat /\ e \in Nat /\ e <= L /\ L \in Nat /\ due[u] \in Seq(Event)
    BY Zenon DEF Within
  <1>3. m = 0 => e = at + m + 5
    <2>1. m = 0 <=> j = Len(Chunks)
      BY NextSizeIs
    <2>2. j = Len(Chunks) => e = EndsOf[x][d][k - 1] + 5 + ChunkEndAt(x, h, j) + m + 5
      BY <1>2, ChunksAre
    <2> QED
      BY <1>1, <2>1, <2>2, Zenon
  <1>4. w[u + 1].events = <<>> /\ w[u + 2].events = ChunkEndEvents(s)
    <2>1. at + m + 4 = u + 1 /\ at + m + 5 = u + 2
      <3>1. u = at + 3 + m /\ m \in Nat
        BY <1>1, Zenon
      <3>2. \A i \in Nat : at + i + 4 = at + 3 + i + 1 /\ at + i + 5 = at + 3 + i + 2
        OBVIOUS
      <3> QED
        BY <3>1, <3>2, Zenon
    <2>2. w[u + 1].events = <<>> /\ w[u + 2].events = IF m > 0 THEN <<>> ELSE <<Finished(h)>>
      BY <1>1, <2>1, Zenon DEF Quiet
    <2>3. m > 0 <=> s.chunkLength # 0
      <3>1. \A i \in Nat : i > 0 <=> i # 0
        OBVIOUS
      <3> QED
        BY <1>1, <3>1, Zenon
    <2> QED
      BY <2>2, <2>3 DEF ChunkEndEvents
  <1>5. u + 2 <= e /\ (s.chunkLength = 0 => u + 2 = e)
    <2>1. at + m + 5 <= e /\ m \in Nat /\ s.chunkLength = m /\ u = at + 3 + m /\ e \in Nat
      BY <1>1, <1>2
    <2> HIDE DEF m, e
    <2> QED
      BY <1>3, <2>1
  <1>6. u \in Nat /\ u + 1 \in Nat /\ u + 1 <= L /\ (u + 1) + 1 <= L /\ (u + 1) + 1 = u + 2
    <2>1. u \in Nat /\ e \in Nat /\ e <= L /\ L \in Nat /\ u + 2 <= e
      BY <1>2, <1>5
    <2> HIDE DEF e, L
    <2> QED
      BY <2>1
  <1>7. due[u + 1] = due[u] \o w[u + 1].events
    BY <1>6, DueNext
  <1>8. due[(u + 1) + 1] = due[u + 1] \o w[(u + 1) + 1].events
    BY <1>6, DueNext
  <1>9. due[u + 1] = due[u]
    BY <1>2, <1>4, <1>7, ConcatEmptySeq
  <1>10. due[u + 2] = due[u] \o ChunkEndEvents(s)
    BY <1>4, <1>6, <1>8, <1>9
  <1> QED
    BY <1>5, <1>10 DEF ChunkEnds

\* ChunkEnd(): the line end behind the chunk is dropped.
LEMMA ChunkEndRight ==
    ASSUME Conforming, NEW x \in Exchanges, NEW d \in Dirs, NEW s, OKDir(s), NEW t, NEW n \in Nat,
           NEW c \in [Counters -> Nat], NEW c2, NEW l \in Seq(Event),
           Right(x, d, s, n, c, l, FALSE), s.state = "CHUNK_END", HasWork(s),
           SameMessage(s, t), Takes(s, t, 2), t.chunkLength = 0, t.contentReceived = 0,
           t.state = IF s.chunkLength = 0 THEN "HEADER" ELSE "CHUNK_SIZE",
           Recounted(c, c2, 0, IF s.chunkLength = 0 THEN 1 ELSE 0)
    PROVE  /\ Right(x, d, t, n, c2, l \o ChunkEndEvents(s), FALSE)
           /\ ChunkEndEvents(s) \in Seq(Event)
  <1> DEFINE k == c["numHeaders"]
             u == Used(s, n)
             h == s.header
             events == ChunkEndEvents(s)
  <1>1. s.state # "HEADER" /\ s.state # "CONTENT" /\ s.state \in ChunkStates
    BY DEF ChunkStates
  <1>2. Inside(x, d, s, n, c["numHeaders"], l)
    BY <1>1, ToldWithin
  <1>3. /\ Seen(x, l) = Seen(x, DueWith[x][d][u])
        /\ Buffered(x, d, s, n) /\ Placed(x, d, s, k, u)
    BY <1>2 DEF Inside
  <1>4. Within(x, d, s, n, k, u)
    BY <1>1, <1>3, WithinIs
  <1> HIDE DEF k, u
  <1>5. /\ k \in 1 .. Len(MessagesOf(x, d)) /\ h = MessagesOf(x, d)[k] /\ Framing(x, h) = "chunked"
        /\ \E j \in 0 .. Len(Chunks) : \E at \in Nat : OnChunk(x, d, s, k, u, j, at)
    BY <1>1, <1>3, ChunkPlace
  <1>6. PICK j \in 0 .. Len(Chunks) : \E at \in Nat : OnChunk(x, d, s, k, u, j, at)
    BY <1>5
  <1>7. PICK at \in Nat : OnChunk(x, d, s, k, u, j, at)
    BY <1>6
  <1>8. ChunkEnds(x, d, s, k, u)
    BY <1>4, <1>5, <1>7, ChunkEndsIs
  <1>9. events \in Seq(Event) /\ HeadersIn(events) = {}
    <2>1. h \in Headers
      BY <1>4 DEF Within
    <2>2. Finished(h) \in Event /\ Finished(h).what # "header"
      BY <2>1 DEF Finished, Note, Event
    <2>3. <<Finished(h)>> \in Seq(Event) /\ HeadersIn(<<Finished(h)>>) = {}
      BY <2>2 DEF HeadersIn
    <2>4. HeadersIn(<<>>) = {}
      BY DEF HeadersIn
    <2> QED
      BY <2>3, <2>4 DEF ChunkEndEvents
  <1>10. Seen(x, l \o events) = Seen(x, DueWith[x][d][u + 2])
    <2> DEFINE due == DueWith[x][d][u]
    <2>1. Seen(x, l) = Seen(x, due) /\ due \in Seq(Event)
      BY <1>3, <1>4 DEF Within
    <2> HIDE DEF due, events
    <2>2. Seen(x, l \o events) = Seen(x, due \o events)
      BY <1>9, <2>1, SeenOn
    <2> QED
      BY <1>8, <2>2 DEF ChunkEnds, due, events
  <1>11. t.header = h
    BY DEF SameMessage
  <1>12. InMessage(x, d, t, k, u + 2)
    <2>1. CASE s.chunkLength = 0
      <3>1. t.state = "HEADER" /\ u + 2 = EndsOf[x][d][k]
        BY <1>8, <2>1 DEF ChunkEnds
      <3> QED
        BY <1>5, <1>11, <3>1 DEF InMessage, ChunkStates
    <2>2. CASE s.chunkLength # 0
      <3> DEFINE m == NextSize(j)
                 q == j + 1
      <3>1. /\ s.chunkLength = m /\ u = at + 3 + m
            /\ at = EndsOf[x][d][k - 1] + 5 + ChunkEndAt(x, h, j) /\ m \in Nat
        BY <1>1, <1>7 DEF OnChunk
      <3>2. j # Len(Chunks) /\ Len(Chunks) \in Nat
        BY <2>2, <3>1, NextSizeIs
      <3>3. q \in 0 .. Len(Chunks)
        BY <3>2
      <3>4. /\ ChunkEndAt(x, h, q) = ChunkEndAt(x, h, j) + m + 5 /\ ChunkEndAt(x, h, j) \in Nat
        BY <1>5, ChunksAre
      <3>5. EndsOf[x][d][k - 1] \in Nat
        BY <1>4 DEF Within
      <3> HIDE DEF m, q
      <3>6. u + 2 = EndsOf[x][d][k - 1] + 5 + ChunkEndAt(x, h, q)
        <4> DEFINE e == EndsOf[x][d][k - 1]
                   a == ChunkEndAt(x, h, j)
                   b == ChunkEndAt(x, h, q)
        <4>1. u = at + 3 + m /\ at = e + 5 + a /\ m \in Nat /\ b = a + m + 5 /\ a \in Nat /\ e \in Nat
          BY <3>1, <3>4, <3>5
        <4> HIDE DEF e, a, b
        <4>2. u + 2 = e + 5 + b
          BY <4>1
        <4> QED
          BY <4>2 DEF e, b
      <3>7. t.state = "CHUNK_SIZE" /\ t.state \in ChunkStates
        BY <2>2 DEF ChunkStates
      <3>8. u + 2 = EndsOf[x][d][k - 1] + 5 + ChunkEndAt(x, t.header, q) /\ Framing(x, t.header) = "chunked"
        BY <1>5, <1>11, <3>6
      <3> QED
        BY <3>3, <3>7, <3>8, ChunkStays
    <2> QED
      BY <2>1, <2>2
  <1>13. (l \o events) \o Pending(t) = l \o events
    <2>1. Pending(t) = <<>> /\ l \o events \in Seq(Event)
      BY <1>9, ConcatProperties DEF Pending
    <2> QED
      BY <2>1, ConcatEmptySeq
  <1>14. 2 \in 0 .. Len(s.buffer) /\ s.buffer \in Seq(Cell) /\ t.state # "CORRUPTED"
    BY DEF Takes
  <1>15. Recounted(c, c2, 0, IF t.state = "HEADER" THEN 1 ELSE 0)
    OBVIOUS
  <1> HIDE DEF events
  <1>16. Seen(x, (l \o events) \o Pending(t)) = Seen(x, DueWith[x][d][u + 2])
    BY <1>10, <1>13
  <1>17. Right(x, d, t, n, c2, l \o events, FALSE)
    BY <1>1, <1>9, <1>12, <1>14, <1>15, <1>16, GoesOn DEF k, u
  <1> QED
    BY <1>9, <1>17 DEF events

\* GoodHeader(): t is s with the header h, and waits for its payload.
AfterHeader(x, s, t, h) ==
    /\ t.header = h /\ t.unzip = h.gzip /\ t.isRequest = (h.method # "RESPONSE")
    /\ t.state = StateAfter(Framing(x, h))
    /\ t.contentLength = (IF Framing(x, h) = "length" THEN h.length ELSE s.contentLength)
    /\ t.chunkLength = s.chunkLength /\ t.contentReceived = s.contentReceived

\* What states follow a header
LEMMA StateAfterIs ==
    ASSUME NEW framing \in {"length", "chunked", "close", "none"}
    PROVE  /\ StateAfter(framing) \in {"HEADER", "CONTENT", "UNKNOWN_CONTENT", "CHUNK_SIZE"}
           /\ StateAfter(framing) = "HEADER" <=> framing = "none"
           /\ StateAfter(framing) = "CONTENT" <=> framing = "length"
           /\ StateAfter(framing) = "UNKNOWN_CONTENT" <=> framing = "close"
           /\ StateAfter(framing) = "CHUNK_SIZE" <=> framing = "chunked"
  BY DEF StateAfter

\* Behind a header, the decoder is at the beginning of the payload.
LEMMA HeaderPlace ==
    ASSUME Conforming, NEW x \in Exchanges, NEW d \in Dirs, NEW k \in 1 .. Len(MessagesOf(x, d)),
           NEW h, h = MessagesOf(x, d)[k], NEW s, s.contentReceived = 0, NEW t, AfterHeader(x, s, t, h)
    PROVE  InMessage(x, d, t, k, EndsOf[x][d][k - 1] + 5)
  <1> DEFINE framing == Framing(x, h)
             body == EndsOf[x][d][k - 1] + 5
             e == EndsOf[x][d][k]
  <1>1. h \in Headers /\ Asked(x, h) \in Headers \cup {NoHeader} /\ h.length \in Nat \cup {NoLength}
    BY MessageOK
  <1>2. framing \in {"length", "chunked", "close", "none"} /\ (framing = "length" => h.length \in Nat)
        /\ (framing = "none" => Body(x, h) = <<>>)
    <2>1. framing \in {"length", "chunked", "close", "none"}
      BY <1>1, BodyOK
    <2>2. framing = "length" => h.length \in Nat
      BY <1>1, BodyOK
    <2>3. ASSUME framing = "none" PROVE Body(x, h) = <<>>
      <3>1. framing # "chunked" /\ framing # "length" /\ framing # "close"
        BY <2>3
      <3> QED
        BY <3>1 DEF Body
    <2> QED
      BY <2>1, <2>2, <2>3
  <1>3. e = body + Len(Body(x, h)) /\ body \in Nat
    <2>1. e = EndsOf[x][d][k - 1] + 5 + Len(Body(x, h))
      BY EndsAre
    <2>2. EndsOf[x][d][k - 1] \in Nat
      BY HeadingIs
    <2> QED
      BY <2>1, <2>2, SMTT(30)
  <1>4. t.header = h /\ t.state = StateAfter(framing) /\ t.contentReceived = 0
    BY DEF AfterHeader
  <1> HIDE DEF body, e, framing
  <1>5. CASE framing = "none"
    <2>1. t.state = "HEADER"
      BY <1>4, <1>5, StateAfterIs
    <2>2. Len(Body(x, h)) = 0
      BY <1>2, <1>5
    <2>3. body = e
      BY <1>3, <2>2
    <2> QED
      BY <1>4, <1>5, <2>1, <2>3 DEF InMessage, ChunkStates, framing, body, e
  <1>6. CASE framing = "length"
    <2>1. t.state = "CONTENT" /\ t.contentLength = h.length /\ h.length \in Nat
      BY <1>2, <1>4, <1>6, StateAfterIs DEF AfterHeader, framing
    <2>2. body = body + t.contentReceived
      BY <1>3, <1>4
    <2>3. t.contentReceived < t.contentLength \/ t.contentLength = 0
      BY <1>4, <2>1
    <2> QED
      BY <1>4, <1>6, <2>1, <2>2, <2>3 DEF InMessage, ChunkStates, framing, body
  <1>7. CASE framing = "close"
    <2>1. t.state = "UNKNOWN_CONTENT" /\ body <= body
      BY <1>3, <1>4, <1>7, StateAfterIs
    <2> QED
      BY <1>4, <1>7, <2>1 DEF InMessage, ChunkStates, framing, body
  <1>8. CASE framing = "chunked"
    <2>1. t.state = "CHUNK_SIZE" /\ t.state \in ChunkStates
      BY <1>4, <1>8, StateAfterIs DEF ChunkStates
    <2>2. 0 \in 0 .. Len(Chunks)
      BY NextSizeIs
    <2>3. ChunkEndAt(x, h, 0) = 0
      BY <1>8, <2>2, ChunksAre DEF framing
    <2>4. body = body + ChunkEndAt(x, h, 0)
      BY <1>3, <2>3
    <2>5. Framing(x, t.header) = "chunked" /\ body = EndsOf[x][d][k - 1] + 5 + ChunkEndAt(x, t.header, 0)
      BY <1>4, <1>8, <2>4 DEF framing, body
    <2>6. InMessage(x, d, t, k, body)
      BY <2>1, <2>2, <2>5, ChunkStays, Zenon
    <2> QED
      BY <2>6 DEF body
  <1> QED
    BY <1>2, <1>5, <1>6, <1>7, <1>8

\* What is due with the heading of a message
HeadingDue(x, d, e, h) ==
    DueWith[x][d][e + 5] = DueWith[x][d][e] \o
        (<<Note("header", Asked(x, h), h, 0)>>
          \o (IF Framing(x, h) = "length" /\ h.length = 0 THEN <<Finished(h)>> ELSE <<>>))

\* With a heading, its header is due.
LEMMA HeadingTells ==
    ASSUME Conforming, NEW x \in Exchanges, NEW d \in Dirs, NEW k \in 1 .. Len(MessagesOf(x, d))
    PROVE  HeadingDue(x, d, EndsOf[x][d][k - 1], MessagesOf(x, d)[k])
  <1> DEFINE h == MessagesOf(x, d)[k]
             e == EndsOf[x][d][k - 1]
             w == Wires[x][d]
  <1>1. /\ HeadingAt(x, d, e, h) /\ e \in Nat /\ EndsOf[x][d][k] \in Nat
        /\ e + 5 <= EndsOf[x][d][k] /\ EndsOf[x][d][k] <= Len(w)
    BY HeadingIs
  <1>2. Len(w) \in Nat
    BY EndsAre
  <1> HIDE DEF h, e
  <1>3. ASSUME NEW i \in 1 .. 4 PROVE w[e + i].events = <<>>
    <2>1. /\ w[e + 1].events = <<>> /\ w[e + 2].events = <<>>
          /\ w[e + 3].events = <<>> /\ w[e + 4].events = <<>>
      BY <1>1 DEF HeadingAt, Starts, Quiet
    <2> QED
      BY <2>1
  <1>4. e \in Nat /\ 4 \in Nat /\ e + 4 <= Len(w) /\ e + 4 \in Nat /\ (e + 4) + 1 <= Len(w) /\ (e + 4) + 1 = e + 5
    BY <1>1, <1>2
  <1>5. DueWith[x][d][e + 4] = DueWith[x][d][e]
    BY <1>3, <1>4, DueNothing, ZenonT(60)
  <1>6. DueWith[x][d][(e + 4) + 1] = DueWith[x][d][e + 4] \o w[(e + 4) + 1].events
    BY <1>4, DueNext, Zenon
  <1> QED
    BY <1>1, <1>4, <1>5, <1>6, Zenon DEF HeadingAt, HeadingDue, h, e

\* GoodHeader(): the header is told with the request q.
LEMMA HeaderTells ==
    ASSUME Conforming, NEW x \in Exchanges, NEW d \in Dirs, NEW k \in 1 .. Len(MessagesOf(x, d)),
           NEW h, h = MessagesOf(x, d)[k], NEW s, NEW t, AfterHeader(x, s, t, h),
           NEW q \in Headers \cup {NoHeader}, x.order = "sequential" => q = Asked(x, h),
           NEW e, e = EndsOf[x][d][k - 1],
           NEW l \in Seq(Event), Seen(x, l) = Seen(x, DueWith[x][d][e])
    PROVE  Told(x, d, t, e + 5, l \o <<Note("header", q, h, 0)>>)
  <1> DEFINE p == <<Note("header", q, h, 0)>>
             g == <<Note("header", Asked(x, h), h, 0)>>
             end == IF Framing(x, h) = "length" /\ h.length = 0 THEN <<Finished(h)>> ELSE <<>>
             due == DueWith[x][d][e]
  <1>1. h \in Headers /\ Asked(x, h) \in Headers \cup {NoHeader}
    BY MessageOK
  <1>2. Framing(x, h) \in {"length", "chunked", "close", "none"}
    BY <1>1, BodyOK
  <1>3. Pending(t) = end
    <2>1. t.header = h /\ (t.state = "CONTENT" <=> Framing(x, h) = "length")
      BY <1>2, StateAfterIs DEF AfterHeader
    <2>2. Framing(x, h) = "length" => t.contentLength = h.length
      BY DEF AfterHeader
    <2> QED
      BY <2>1, <2>2 DEF Pending
  <1>4. Note("header", q, h, 0) \in Event /\ Note("header", Asked(x, h), h, 0) \in Event /\ Finished(h) \in Event
    BY <1>1 DEF Note, Event, Finished
  <1>5. p \in Seq(Event) /\ g \in Seq(Event) /\ end \in Seq(Event)
    BY <1>4
  <1>6. Seen(x, p) = Seen(x, g)
    <2>1. Len(p) = 1 /\ Len(g) = 1 /\ p[1] = Note("header", q, h, 0) /\ g[1] = Note("header", Asked(x, h), h, 0)
      OBVIOUS
    <2>2. SeenAs(x, p[1]) = SeenAs(x, g[1])
      BY <2>1 DEF SeenAs, Note
    <2> HIDE DEF p, g
    <2>3. \A i \in 1 .. Len(p) : SeenAs(x, p[i]) = SeenAs(x, g[i])
      BY <2>1, <2>2
    <2>4. Len(p) = Len(g)
      BY <2>1
    <2> QED
      BY <1>5, <2>3, <2>4, SeenSame
  <1>7. e \in 0 .. Len(Wires[x][d])
    <2>1. EndsOf[x][d][k - 1] \in Nat /\ EndsOf[x][d][k] \in Nat /\ EndsOf[x][d][k] <= Len(Wires[x][d])
          /\ EndsOf[x][d][k - 1] + 5 <= EndsOf[x][d][k] /\ Len(Wires[x][d]) \in Nat
      BY HeadingIs, EndsAre, Zenon
    <2>2. \A a, b, z \in Nat : a + 5 <= b /\ b <= z => a \in 0 .. z
      OBVIOUS
    <2> QED
      BY <2>1, <2>2, Zenon
  <1>8. due \in Seq(Event)
    BY <1>7, DueIs, Zenon
  <1>9. DueWith[x][d][e + 5] = due \o (g \o end)
    <2>1. HeadingDue(x, d, EndsOf[x][d][k - 1], MessagesOf(x, d)[k])
      BY HeadingTells
    <2> QED
      BY <2>1, Zenon DEF HeadingDue
  <1>10. Seen(x, l) = Seen(x, due)
    OBVIOUS
  <1> HIDE DEF p, g, end, due
  <1>11. GoesOnAs(x, l, p, due, g, end)
    BY <1>5, <1>6, <1>8, <1>10, ToldOn
  <1>12. AnyOrder(l, p, end) /\ AnyOrder(due, g, end)
    BY <1>5, <1>8, Associative
  <1>13. Seen(x, (l \o p) \o end) = Seen(x, due \o (g \o end))
    BY <1>11, <1>12 DEF GoesOnAs, AnyOrder
  <1> QED
    BY <1>3, <1>9, <1>13, Zenon DEF Told, p

\* GoodHeader(): what is right of a direction stays so.
LEMMA HeaderRight ==
    ASSUME Conforming, NEW x \in Exchanges, NEW d \in Dirs, NEW s, OKDir(s), NEW t, NEW n \in Nat,
           NEW c \in [Counters -> Nat], NEW c2, NEW l \in Seq(Event), NEW q,
           Right(x, d, s, n, c, l, FALSE), s.state = "HEADER", HasWork(s),
           Takes(s, t, HeaderEnd(s)), NEW h, h = FirstCell(s).header, AfterHeader(x, s, t, h),
           q \in Headers \cup {NoHeader}, x.order = "sequential" => q = Asked(x, h),
           Recounted(c, c2, 1, IF Framing(x, h) = "none" THEN 1 ELSE 0)
    PROVE  /\ Right(x, d, t, n, c2, l \o <<Note("header", q, h, 0)>>, FALSE)
           /\ <<Note("header", q, h, 0)>> \in Seq(Event)
  <1> DEFINE k == c["numHeaders"]
             u == Used(s, n)
             K == Len(MessagesOf(x, d))
             m == k + 1
             p == <<Note("header", q, h, 0)>>
  <1>1. Buffered(x, d, s, n) /\ Placed(x, d, s, k, u) /\ Told(x, d, s, u, l) /\ Counted(x, d, s, k, c, l, FALSE)
    BY DEF Right
  <1>2. HeaderEnds(s.buffer) # {}
    BY DEF HasWork
  <1>3. HeaderEnd(s) = 5 /\ m \in 1 .. K /\ h = MessagesOf(x, d)[m]
    <2>1. Buffered(x, d, s, n) /\ Placed(x, d, s, k, Used(s, n))
      BY <1>1
    <2> HIDE DEF k
    <2>2. HeaderEnds(s.buffer) # {} =>
            /\ HeaderEnd(s) = 5 /\ k + 1 \in 1 .. Len(MessagesOf(x, d))
            /\ FirstCell(s).header = MessagesOf(x, d)[k + 1]
      BY <2>1, HeaderIs, SMTT(30)
    <2> QED
      BY <1>2, <2>2
  <1>4. k \in 0 .. K /\ K \in Nat /\ u \in Nat /\ u = EndsOf[x][d][k] /\ k \in Nat
    BY <1>1, PlacedIs
  <1>5. Uses(x, d, s, t, n, 5)
    <2>1. Takes(s, t, 5)
      BY <1>3
    <2> QED
      BY <1>1, <2>1, BufferedRest
  <1>6. Buffered(x, d, t, n) /\ Used(t, n) = u + 5
    BY <1>5 DEF Uses
  <1>7. h \in Headers /\ (h.method = "RESPONSE" <=> d = "out")
        /\ Asked(x, h) \in Headers \cup {NoHeader}
    BY <1>3, MessageOK
  <1>8. Framing(x, h) \in {"length", "chunked", "close", "none"}
    BY <1>7, BodyOK
  <1>9. u = EndsOf[x][d][m - 1] /\ m - 1 = k /\ m \in Nat /\ m > 0 /\ m \in 0 .. K /\ m # 0
    BY <1>3, <1>4, SMTT(30)
  <1>10. s.contentReceived = 0
    BY DEF OKDir, CountersFit
  <1> HIDE DEF k, u, K, m
  <1>11. InMessage(x, d, t, m, u + 5)
    <2>1. InMessage(x, d, t, m, EndsOf[x][d][m - 1] + 5)
      BY <1>3, <1>10, HeaderPlace DEF K
    <2> QED
      BY <1>9, <2>1
  <1>12. Placed(x, d, t, m, u + 5)
    <2>1. t.isRequest = (d = "in")
      BY <1>7 DEF AfterHeader, Dirs
    <2>2. t.state # "CORRUPTED"
      BY <1>8, StateAfterIs DEF AfterHeader
    <2>3. t.header = h /\ t.unzip = h.gzip
      BY DEF AfterHeader
    <2> QED
      BY <1>3, <1>9, <1>11, <2>1, <2>2, <2>3 DEF Placed, K
  <1>13. Told(x, d, t, u + 5, l \o p)
    <2>1. Seen(x, l) = Seen(x, DueWith[x][d][u])
      <3>1. Pending(s) = <<>>
        BY DEF Pending
      <3>2. l \o Pending(s) = l
        BY <3>1, ConcatEmptySeq
      <3> QED
        BY <1>1, <3>2 DEF Told
    <2>2. m \in 1 .. Len(MessagesOf(x, d))
      BY <1>3 DEF K
    <2> QED
      BY <1>3, <1>9, <2>1, <2>2, HeaderTells
  <1>14. p \in Seq(Event) /\ HeadersIn(p) = {h}
    <2>1. Note("header", q, h, 0) \in Event /\ Note("header", q, h, 0).what = "header"
          /\ Note("header", q, h, 0).header = h
      BY <1>7 DEF Note, Event
    <2>2. p \in Seq(Event) /\ DOMAIN p = 1 .. 1 /\ p[1] = Note("header", q, h, 0)
      BY <2>1
    <2> HIDE DEF p
    <2>3. 1 \in {j \in DOMAIN p : p[j].what = "header"} /\ \A j \in DOMAIN p : j = 1
      BY <2>1, <2>2
    <2> QED
      BY <2>1, <2>2, <2>3 DEF HeadersIn
  <1>15. HeadersIn(l \o p) = FirstMessages(x, d, m)
    <2>1. HeadersIn(l) = FirstMessages(x, d, k)
      BY <1>1 DEF Counted
    <2>2. HeadersIn(l \o p) = HeadersIn(l) \cup HeadersIn(p)
      BY <1>14, HeadersConcat
    <2>3. FirstMessages(x, d, m) = FirstMessages(x, d, k) \cup {MessagesOf(x, d)[m]}
      <3>1. \A j : j \in 1 .. m <=> (j \in 1 .. k \/ j = m)
        BY <1>4, <1>9
      <3> QED
        BY <3>1 DEF FirstMessages
    <2> QED
      BY <1>3, <1>14, <2>1, <2>2, <2>3
  <1>16. Counted(x, d, t, m, c2, l \o p, FALSE)
    <2>1. KindsCounted(c) = k /\ c["numOK"] = k
      BY <1>1 DEF Counted, KindsCounted, IsOver
    <2>2. KindsCounted(c2) = m
      BY <2>1 DEF Recounted, m
    <2>3. c2["numOK"] = k + (IF Framing(x, h) = "none" THEN 1 ELSE 0)
      BY <2>1 DEF Recounted
    <2>4. IsOver(t, FALSE) <=> Framing(x, h) = "none"
      BY <1>8, StateAfterIs DEF AfterHeader, IsOver
    <2>5. c2["numOK"] = IF IsOver(t, FALSE) THEN m ELSE m - 1
      <3>1. k \in Nat /\ m = k + 1
        BY <1>4 DEF m
      <3>2. CASE Framing(x, h) = "none"
        <4>1. c2["numOK"] = k + 1 /\ IsOver(t, FALSE)
          BY <2>3, <2>4, <3>2
        <4> QED
          BY <3>1, <4>1
      <3>3. CASE Framing(x, h) # "none"
        <4>1. c2["numOK"] = k + 0 /\ ~IsOver(t, FALSE)
          BY <2>3, <2>4, <3>3
        <4>2. k + 0 = m - 1
          BY <3>1
        <4> QED
          BY <4>1, <4>2
      <3> QED
        BY <3>2, <3>3
    <2> QED
      BY <1>15, <2>2, <2>5 DEF Counted, KindsCounted
  <1>17. c2["numHeaders"] = m
    BY DEF Recounted, k, m
  <1> QED
    BY <1>6, <1>12, <1>13, <1>14, <1>16, <1>17 DEF Right, u

-----------------------------------------------------------------------------
(* Who may send. Of exchange x, i and o are the cells captured of requests *)
(* and responses, ki and ko the messages that have begun, and ui and uo    *)
(* the cells that are used.                                                *)

\* The lesser of two numbers
Lesser(a, b) == IF a < b THEN a ELSE b

\* A response comes after its request, if it must, and a request waits for the
\* response before it, if it does.
InOrder(x, i, o, ki, ko, uo) ==
    /\ x.order # "any" => o <= EndsOf[x]["out"][Lesser(ki, Len(x.responses))]
    /\ x.order = "sequential" =>
          /\ i <= EndsOf[x]["in"][Lesser(ko + 1, Len(x.requests))]
          /\ uo < EndsOf[x]["out"][ko] => i <= EndsOf[x]["in"][ko]

\* What has begun is behind its header.
Behind(x, d, k, u, n) ==
    /\ k \in 0 .. Len(MessagesOf(x, d)) /\ u \in Nat /\ n \in Nat /\ u <= n
    /\ k > 0 => EndsOf[x][d][k - 1] \in Nat /\ EndsOf[x][d][k - 1] + 5 <= u

\* How far requests and responses are ahead of each other
Turn(x, o, ki, ko, uo) ==
    /\ x.order # "any" => ko <= ki
    /\ x.order = "sequential" => ki <= ko + 1
    /\ x.order = "sequential" /\ uo < EndsOf[x]["out"][ko] => ki = ko
    /\ x.order # "any" /\ ko < Len(x.responses) /\ EndsOf[x]["out"][ko] + 5 <= o => ko < ki

\* Less than the end of message j has come, so the next one has not begun.
LEMMA BegunBy ==
    ASSUME Conforming, NEW x \in Exchanges, NEW d \in Dirs, NEW k, NEW u, NEW n, Behind(x, d, k, u, n),
           NEW j \in 0 .. Len(MessagesOf(x, d)), n <= EndsOf[x][d][j]
    PROVE  k <= j
  <1> DEFINE K == Len(MessagesOf(x, d))
  <1>1. /\ k \in 0 .. K /\ K \in Nat /\ u \in Nat /\ n \in Nat /\ u <= n
        /\ k > 0 => EndsOf[x][d][k - 1] \in Nat /\ EndsOf[x][d][k - 1] + 5 <= u
    BY CountOfMessages DEF Behind
  <1>2. EndsOf[x][d][j] \in Nat
    BY EndsGrow
  <1>3. CASE k = 0
    BY <1>1, <1>3
  <1>4. CASE k > 0
    <2> DEFINE a == EndsOf[x][d][k - 1]
               b == EndsOf[x][d][j]
               p == k - 1
    <2>1. a \in Nat /\ a + 5 <= u /\ u <= n /\ n <= b /\ b \in Nat /\ u \in Nat /\ n \in Nat
      BY <1>1, <1>2, <1>4
    <2>2. p \in 0 .. K
      BY <1>1, <1>4
    <2>3. a < b
      <3> HIDE DEF a, b
      <3> QED
        BY <2>1
    <2>4. p \in 0 .. Len(MessagesOf(x, d)) /\ EndsOf[x][d][p] < EndsOf[x][d][j]
      BY <2>2, <2>3
    <2> HIDE DEF p
    <2>5. p < j
      BY <2>4, EndsOrder
    <2> QED
      BY <1>1, <2>5 DEF p
  <1> QED
    BY <1>1, <1>3, <1>4

\* What the order says of the messages that have begun
LEMMA TurnIs ==
    ASSUME Conforming, NEW x \in Exchanges, NEW i, NEW o, NEW ki, NEW ko, NEW ui, NEW uo,
           Behind(x, "in", ki, ui, i), Behind(x, "out", ko, uo, o), InOrder(x, i, o, ki, ko, uo)
    PROVE  Turn(x, o, ki, ko, uo)
  <1> DEFINE I == Len(x.requests)
             O == Len(x.responses)
             eo == EndsOf[x]["out"]
             ei == EndsOf[x]["in"]
  <1>1. /\ MessagesOf(x, "in") = x.requests /\ MessagesOf(x, "out") = x.responses
        /\ "in" \in Dirs /\ "out" \in Dirs
    BY DEF MessagesOf, Dirs
  <1>2. I \in Nat /\ O \in Nat /\ O <= I
    BY <1>1, CountOfMessages DEF Conforming, Conforms
  <1>3. ki \in 0 .. I /\ ko \in 0 .. O /\ i \in Nat /\ o \in Nat /\ uo \in Nat
    BY <1>1 DEF Behind
  <1>4. Lesser(ki, O) \in 0 .. O /\ Lesser(ki, O) <= ki /\ Lesser(ko + 1, I) \in 0 .. I /\ Lesser(ko + 1, I) <= ko + 1
    BY <1>2, <1>3 DEF Lesser
  <1> DEFINE a == Lesser(ki, O)
             b == Lesser(ko + 1, I)
  <1>5. ASSUME x.order # "any" PROVE ko <= ki
    <2>1. o <= eo[a]
      BY <1>5 DEF InOrder
    <2>2. a \in 0 .. Len(MessagesOf(x, "out"))
      BY <1>1, <1>4
    <2> HIDE DEF a
    <2>3. ko <= a
      BY <1>1, <2>1, <2>2, BegunBy
    <2> QED
      BY <1>3, <1>4, <2>2, <2>3 DEF a
  <1>6. ASSUME x.order = "sequential" PROVE ki <= ko + 1
    <2>1. i <= ei[b]
      BY <1>6 DEF InOrder
    <2>2. b \in 0 .. Len(MessagesOf(x, "in"))
      BY <1>1, <1>4
    <2> HIDE DEF b
    <2>3. ki <= b
      BY <1>1, <2>1, <2>2, BegunBy
    <2> QED
      BY <1>3, <1>4, <2>2, <2>3 DEF b
  <1>7. ASSUME x.order = "sequential", uo < eo[ko] PROVE ki = ko
    <2>1. i <= ei[ko]
      BY <1>7 DEF InOrder
    <2>2. ko \in 0 .. Len(MessagesOf(x, "in"))
      BY <1>1, <1>2, <1>3
    <2>3. ki <= ko
      BY <1>1, <2>1, <2>2, BegunBy
    <2>4. ko <= ki
      BY <1>5, <1>7
    <2> QED
      BY <1>3, <2>3, <2>4
  <1>8. ASSUME x.order # "any", ko < O, eo[ko] + 5 <= o PROVE ko < ki
    <2>1. o <= eo[a]
      BY <1>8 DEF InOrder
    <2>2. a \in 0 .. Len(MessagesOf(x, "out")) /\ ko \in 0 .. Len(MessagesOf(x, "out"))
      BY <1>1, <1>3, <1>4
    <2>3. eo[ko] \in Nat /\ eo[a] \in Nat
      BY <1>1, <2>2, EndsGrow
    <2> HIDE DEF a
    <2>4. eo[ko] < eo[a]
      BY <1>3, <1>8, <2>1, <2>3, SMTT(60)
    <2>5. ko < a
      BY <1>1, <2>2, <2>4, EndsOrder
    <2> QED
      BY <1>3, <1>4, <2>2, <2>5 DEF a
  <1> QED
    BY <1>5, <1>6, <1>7, <1>8 DEF Turn

-----------------------------------------------------------------------------
(* How the order goes on *)

\* More is used.
LEMMA OrderUsed ==
    ASSUME NEW x, NEW i, NEW o, NEW ki, NEW ko, NEW uo \in Nat, NEW vo \in Nat, uo <= vo,
           EndsOf[x]["out"][ko] \in Nat,
           InOrder(x, i, o, ki, ko, uo)
    PROVE  InOrder(x, i, o, ki, ko, vo)
  BY DEF InOrder

\* The next request has begun.
LEMMA OrderRequest ==
    ASSUME Conforming, NEW x \in Exchanges, NEW i, NEW o \in Nat, NEW ki \in Nat, NEW ko, NEW uo,
           InOrder(x, i, o, ki, ko, uo)
    PROVE  InOrder(x, i, o, ki + 1, ko, uo)
  <1> DEFINE O == Len(x.responses)
             a == Lesser(ki, O)
             b == Lesser(ki + 1, O)
  <1>1. MessagesOf(x, "out") = x.responses /\ "out" \in Dirs
    BY DEF MessagesOf, Dirs
  <1>2. O \in Nat
    BY <1>1, CountOfMessages
  <1>3. a \in 0 .. O /\ b \in 0 .. O /\ a <= b
    BY <1>2 DEF Lesser
  <1>4. a \in 0 .. b
    BY <1>3
  <1> HIDE DEF a, b
  <1>5. EndsOf[x]["out"][a] <= EndsOf[x]["out"][b] /\ EndsOf[x]["out"][a] \in Nat /\ EndsOf[x]["out"][b] \in Nat
    BY <1>1, <1>3, <1>4, EndsGrow
  <1>6. x.order # "any" => o <= EndsOf[x]["out"][b]
    <2>1. x.order # "any" => o <= EndsOf[x]["out"][a]
      BY DEF InOrder, a
    <2> QED
      BY <1>5, <2>1
  <1> QED
    BY <1>6 DEF InOrder, b

\* The next response has begun.
LEMMA OrderResponse ==
    ASSUME Conforming, NEW x \in Exchanges, NEW i \in Nat, NEW o, NEW ki, NEW ko \in Nat, NEW uo, NEW vo,
           ko + 1 <= Len(x.responses),
           InOrder(x, i, o, ki, ko, uo)
    PROVE  InOrder(x, i, o, ki, ko + 1, vo)
  <1> DEFINE I == Len(x.requests)
             q == ko + 1
             a == Lesser(ko + 1, I)
             b == Lesser(ko + 1 + 1, I)
  <1>1. MessagesOf(x, "in") = x.requests /\ "in" \in Dirs
    BY DEF MessagesOf, Dirs
  <1>2. I \in Nat /\ q \in Nat /\ q <= I
    <2>1. Len(x.responses) <= Len(x.requests) /\ Len(x.responses) \in Nat
      BY CountOfMessages DEF Conforming, Conforms, Dirs, MessagesOf
    <2>2. I \in Nat
      BY <1>1, CountOfMessages
    <2> QED
      BY <2>1, <2>2
  <1>3. a \in 0 .. I /\ b \in 0 .. I /\ a <= b /\ a = q
    BY <1>2 DEF Lesser
  <1>4. a \in 0 .. b
    BY <1>3
  <1> HIDE DEF a, b, q
  <1>5. EndsOf[x]["in"][a] <= EndsOf[x]["in"][b] /\ EndsOf[x]["in"][a] \in Nat /\ EndsOf[x]["in"][b] \in Nat
    BY <1>1, <1>3, <1>4, EndsGrow
  <1>6. x.order = "sequential" => i <= EndsOf[x]["in"][a]
    BY DEF InOrder, a
  <1>7. x.order = "sequential" => i <= EndsOf[x]["in"][b]
    BY <1>5, <1>6
  <1>8. x.order = "sequential" => i <= EndsOf[x]["in"][q]
    BY <1>3, <1>6
  <1>9. x.order # "any" => o <= EndsOf[x]["out"][Lesser(ki, Len(x.responses))]
    BY DEF InOrder
  <1> QED
    BY <1>7, <1>8, <1>9 DEF InOrder, b, q

-----------------------------------------------------------------------------
(* Responses to HEAD *)

\* hin and hout tell whether only a header is expected: only in the response
\* that comes next may it be.
Heads(x, hin, hout, ki, ko) ==
    ~hin /\ (hout <=> ki > ko /\ x.requests[ki].method = "HEAD")

\* The payload of a request ends as its header says.
LEMMA FramingIn ==
    ASSUME Conforming, NEW x \in Exchanges, NEW k \in 1 .. Len(x.requests), NEW h, h = x.requests[k],
           NEW s, ~s.headerOnlyRequest
    PROVE  FramingOf(s, h) = Framing(x, h)
  <1>1. MessagesOf(x, "in") = x.requests /\ "in" \in Dirs
    BY DEF MessagesOf, Dirs
  <1>2. h.method # "RESPONSE" /\ ~(h.chunked /\ h.length # NoLength)
    <2>1. h = MessagesOf(x, "in")[k] /\ k \in 1 .. Len(MessagesOf(x, "in"))
      BY <1>1
    <2>2. h.method = "RESPONSE" <=> "in" = "out"
      BY <1>1, <2>1, MessageOK
    <2>3. ~(h.chunked /\ h.length # NoLength)
      BY <1>1, <2>1, MessageOK
    <2> QED
      BY <2>2, <2>3
  <1> QED
    BY <1>2 DEF FramingOf, Framing

\* The payload of a response too, but for the response to HEAD.
LEMMA FramingOut ==
    ASSUME Conforming, NEW x \in Exchanges, NEW k \in 1 .. Len(x.responses), NEW h, h = x.responses[k],
           NEW s, s.headerOnlyRequest <=> x.requests[k].method = "HEAD"
    PROVE  FramingOf(s, h) = Framing(x, h)
  <1>1. MessagesOf(x, "out") = x.responses /\ "out" \in Dirs
    BY DEF MessagesOf, Dirs
  <1>2. h = MessagesOf(x, "out")[k] /\ k \in 1 .. Len(MessagesOf(x, "out"))
    BY <1>1
  <1>3. h.method = "RESPONSE" <=> "out" = "out"
    BY <1>1, <1>2, MessageOK
  <1>4. ~(h.chunked /\ h.length # NoLength)
    BY <1>1, <1>2, MessageOK
  <1>5. Asked(x, h) = IF "out" = "out" THEN x.requests[k] ELSE NoHeader
    BY <1>1, <1>2, MessageOK
  <1> QED
    BY <1>3, <1>4, <1>5 DEF FramingOf, Framing

\* Once its header has come, the next response is known as one to HEAD, and in
\* sequence its request is the latest one.
LEMMA HeadOut ==
    ASSUME Conforming, NEW x \in Exchanges, NEW o, NEW ki \in 0 .. Len(x.requests), NEW ko \in 0 .. Len(x.responses),
           NEW uo, NEW hin, NEW hout, Heads(x, hin, hout, ki, ko), Turn(x, o, ki, ko, uo),
           ko + 1 <= Len(x.responses), EndsOf[x]["out"][ko] + 5 <= o
    PROVE  /\ hout <=> x.requests[ko + 1].method = "HEAD"
           /\ x.order = "sequential" => ki = ko + 1
  <1>1. Len(x.requests) \in Nat /\ Len(x.responses) \in Nat /\ Len(x.responses) <= Len(x.requests)
    BY CountOfMessages DEF Conforming, Conforms, Dirs, MessagesOf
  <1>2. ki \in Nat /\ ko \in Nat
    OBVIOUS
  <1>3. ASSUME x.order = "sequential" PROVE ki = ko + 1
    <2>1. ko < ki /\ ki <= ko + 1
      BY <1>1, <1>2, <1>3 DEF Turn
    <2> QED
      BY <1>2, <2>1
  <1>4. \A j \in 1 .. Len(x.requests) : x.requests[j].method = "HEAD" => x.order = "sequential"
    <2>1. DOMAIN x.requests = 1 .. Len(x.requests)
      BY CountOfMessages, LenProperties DEF Dirs, MessagesOf
    <2> QED
      BY <2>1 DEF Conforming, Conforms
  <1>5. ASSUME hout PROVE x.requests[ko + 1].method = "HEAD"
    <2>1. ki > ko /\ x.requests[ki].method = "HEAD"
      BY <1>5 DEF Heads
    <2>2. ki \in 1 .. Len(x.requests)
      BY <1>1, <1>2, <2>1
    <2>3. ki = ko + 1
      BY <1>3, <1>4, <2>1, <2>2
    <2> QED
      BY <2>1, <2>3
  <1>6. ASSUME x.requests[ko + 1].method = "HEAD" PROVE hout
    <2>1. ko + 1 \in 1 .. Len(x.requests)
      BY <1>1, <1>2
    <2>2. ki = ko + 1
      BY <1>3, <1>4, <1>6, <2>1
    <2>3. ki > ko /\ x.requests[ki].method = "HEAD"
      BY <1>2, <1>6, <2>2
    <2> QED
      BY <2>3 DEF Heads
  <1> QED
    BY <1>3, <1>5, <1>6

\* After the next request, the response to it is expected.
LEMMA HeadsRequest ==
    ASSUME Conforming, NEW x \in Exchanges, NEW o, NEW ki \in 0 .. Len(x.requests), NEW ko \in 0 .. Len(x.responses),
           NEW uo, Turn(x, o, ki, ko, uo), ki + 1 <= Len(x.requests)
    PROVE  Heads(x, FALSE, x.requests[ki + 1].method = "HEAD", ki + 1, ko)
  <1>1. ki \in Nat /\ ko \in Nat /\ ki + 1 \in 1 .. Len(x.requests)
    <2>1. Len(x.requests) \in Nat
      BY CountOfMessages DEF Dirs, MessagesOf
    <2> QED
      BY <2>1
  <1>2. ASSUME x.requests[ki + 1].method = "HEAD" PROVE ki + 1 > ko
    <2>1. DOMAIN x.requests = 1 .. Len(x.requests)
      BY CountOfMessages, LenProperties DEF Dirs, MessagesOf
    <2>2. x.order = "sequential"
      BY <1>1, <1>2, <2>1 DEF Conforming, Conforms
    <2>3. ko <= ki
      BY <2>2 DEF Turn
    <2> QED
      BY <1>1, <2>3
  <1> QED
    BY <1>2 DEF Heads

\* After the next response, no other one is expected to HEAD.
LEMMA HeadsResponse ==
    ASSUME Conforming, NEW x \in Exchanges, NEW o, NEW ki \in 0 .. Len(x.requests), NEW ko \in 0 .. Len(x.responses),
           NEW uo, Turn(x, o, ki, ko, uo)
    PROVE  Heads(x, FALSE, FALSE, ki, ko + 1)
  <1>1. ki \in Nat /\ ko \in Nat /\ Len(x.requests) \in Nat
    BY CountOfMessages DEF Dirs, MessagesOf
  <1>2. ASSUME ki > ko + 1, x.requests[ki].method = "HEAD" PROVE FALSE
    <2>1. DOMAIN x.requests = 1 .. Len(x.requests)
      BY CountOfMessages, LenProperties DEF Dirs, MessagesOf
    <2>2. ki \in 1 .. Len(x.requests)
      BY <1>1, <1>2
    <2>3. x.order = "sequential"
      BY <1>2, <2>1, <2>2 DEF Conforming, Conforms
    <2>4. ki <= ko + 1
      BY <2>3 DEF Turn
    <2> QED
      BY <1>1, <1>2, <2>4
  <1> QED
    BY <1>2 DEF Heads

-----------------------------------------------------------------------------
(* The messages that are complete *)

\* Complete() of any exchange
CompleteOf(x, d, n) ==
    CHOOSE k \in DOMAIN EndsOf[x][d] :
        /\ EndsOf[x][d][k] <= n
        /\ k + 1 \in DOMAIN EndsOf[x][d] => EndsOf[x][d][k + 1] > n

\* What has begun is complete once all of it is used and nothing more has come.
Completed(x, d, k, u, n) == CompleteOf(x, d, n) = IF u < EndsOf[x][d][k] THEN k - 1 ELSE k

\* A direction that waits has completed what it has begun, but for what is under way.
LEMMA CompleteIs ==
    ASSUME Conforming, NEW x \in Exchanges, NEW d \in Dirs, NEW k, NEW u, NEW n, NEW s,
           Behind(x, d, k, u, n), u <= EndsOf[x][d][k], k = 0 => u = EndsOf[x][d][k],
           Waits(x, d, s, k, u, n)
    PROVE  Completed(x, d, k, u, n)
  <1> DEFINE K == Len(MessagesOf(x, d))
             E == EndsOf[x][d]
             w == IF u < E[k] THEN k - 1 ELSE k
             P(j) == E[j] <= n /\ (j + 1 \in DOMAIN E => E[j + 1] > n)
  <1>1. /\ k \in 0 .. K /\ K \in Nat /\ u \in Nat /\ n \in Nat /\ u <= n
        /\ k > 0 => E[k - 1] \in Nat /\ E[k - 1] + 5 <= u
    BY CountOfMessages DEF Behind
  <1>2. DOMAIN E = 0 .. K /\ \A j \in 0 .. K : E[j] \in Nat
    BY EndsAre
  <1>3. /\ u < E[k] => n < E[k]
        /\ k < K => n < E[k + 1]
    BY DEF Waits
  <1>4. w \in 0 .. K /\ P(w)
    <2>1. CASE u < E[k]
      <3>1. k # 0
        BY <1>1, <1>2, <2>1
      <3>2. k > 0 /\ k - 1 \in 0 .. K /\ (k - 1) + 1 = k
        BY <1>1, <3>1
      <3>3. E[k - 1] <= n /\ E[k] > n
        BY <1>1, <1>2, <1>3, <2>1, <3>2, SMTT(30)
      <3> HIDE DEF E
      <3> QED
        BY <2>1, <3>2, <3>3
    <2>2. CASE ~(u < E[k])
      <3>1. E[k] <= n
        BY <1>1, <1>2, <2>2
      <3>2. ASSUME k + 1 \in DOMAIN E PROVE E[k + 1] > n
        <4>1. k + 1 \in 0 .. K /\ k < K
          BY <1>1, <1>2, <3>2
        <4>2. E[k + 1] \in Nat /\ n < E[k + 1]
          BY <1>2, <1>3, <4>1
        <4> HIDE DEF E
        <4> QED
          BY <1>1, <4>2
      <3> HIDE DEF E
      <3> QED
        BY <1>1, <2>2, <3>1, <3>2
    <2> QED
      BY <2>1, <2>2
  <1>5. ASSUME NEW i \in 0 .. K, NEW j \in 0 .. K, P(i), P(j) PROVE ~(i < j)
    <2> SUFFICES ASSUME i < j PROVE FALSE
      OBVIOUS
    <2>1. i + 1 \in 0 .. K /\ i + 1 \in 0 .. j
      BY <1>1
    <2>2. E[i + 1] > n
      BY <1>2, <1>5, <2>1
    <2>3. E[i + 1] <= E[j]
      BY <2>1, EndsGrow
    <2>4. E[i + 1] \in Nat /\ E[j] \in Nat /\ E[j] <= n
      BY <1>2, <1>5, <2>1
    <2> HIDE DEF E
    <2> QED
      BY <1>1, <2>2, <2>3, <2>4
  <1> DEFINE f == CHOOSE j \in DOMAIN E : P(j)
  <1>6. f \in 0 .. K /\ P(f)
    BY <1>2, <1>4
  <1>7. CompleteOf(x, d, n) = f
    BY DEF CompleteOf
  <1> HIDE DEF f, w, P
  <1>8. ~(f < w) /\ ~(w < f)
    BY <1>4, <1>5, <1>6
  <1>9. f = w
    BY <1>1, <1>4, <1>6, <1>8
  <1> QED
    BY <1>7, <1>9 DEF Completed, w

-----------------------------------------------------------------------------
(* The invariant *)

\* The exchange stays, and the build supports what was agreed.
Fixed ==
    /\ exchange \in Exchanges /\ withZlib = exchange.withZlib
    /\ sent \in [Dirs -> Nat]

\* The messages of direction d that have begun
Begun(d) == stats[Kind(d)]["numHeaders"]

\* Each direction is right in itself,
RightOf(d) == Right(exchange, d, stream[d], sent[d], stats[Kind(d)], log[d], phase # "open")

\* requests and responses come in the order of the exchange,
InTurn ==
    InOrder(exchange, sent["in"], sent["out"], Begun("in"), Begun("out"), Used(stream["out"], sent["out"]))

\* and the response to HEAD is known to have no payload.
HeadComes ==
    Heads(exchange, stream["in"].headerOnlyRequest, stream["out"].headerOnlyRequest,
          Begun("in"), Begun("out"))

\* The decoder is in step with what is sent, unless it gave up.
InStep == ~IsCorrupted => (\A d \in Dirs : RightOf(d)) /\ InTurn /\ HeadComes

\* Only the direction whose loop runs has work, and none once the connection ends.
Idle ==
    /\ \A d \in Dirs : HasWork(stream[d]) => loop # <<>> /\ loop[1] = d
    /\ CloseFinds

\* What was told is due, also after giving up.
ToldRight ==
    \A d \in Dirs :
        /\ sent[d] \in 0 .. Len(Wires[exchange][d])
        /\ Begins(Seen(exchange, log[d]), Seen(exchange, DueWith[exchange][d][sent[d]]))

\* The inductive invariant
IInv ==
    /\ TypeOK /\ CorruptedTogether
    /\ Fixed /\ Idle /\ InStep /\ ToldRight /\ GivenUpForAReason

-----------------------------------------------------------------------------
(* Of a connection that was not given up *)

\* The invariant while the decoder is in step
InStepNow ==
    /\ TypeOK /\ CorruptedTogether /\ Fixed
    /\ \A d \in Dirs : RightOf(d)
    /\ InTurn /\ HeadComes
    /\ Conforming

\* The types of what a direction has
LEMMA DirectionIs ==
    ASSUME TypeOK, Fixed, NEW d \in Dirs
    PROVE  /\ OKDir(stream[d]) /\ sent[d] \in Nat /\ log[d] \in Seq(Event)
           /\ Kind(d) \in Kinds /\ stats[Kind(d)] \in [Counters -> Nat] /\ Begun(d) \in Nat
           /\ exchange \in Exchanges
  <1>1. OKDir(stream[d])
    BY StateOK
  <1>2. Kind(d) \in Kinds
    BY DEF Kind, Kinds
  <1> QED
    BY <1>1, <1>2 DEF TypeOK, Fixed, Begun, Counters

\* Where a direction is
LEMMA BehindIs ==
    ASSUME InStepNow, NEW d \in Dirs
    PROVE  /\ Behind(exchange, d, Begun(d), Used(stream[d], sent[d]), sent[d])
           /\ Buffered(exchange, d, stream[d], sent[d])
           /\ Placed(exchange, d, stream[d], Begun(d), Used(stream[d], sent[d]))
  <1> DEFINE x == exchange
             s == stream[d]
             n == sent[d]
             k == Begun(d)
             u == Used(s, n)
  <1>1. /\ OKDir(s) /\ n \in Nat /\ x \in Exchanges
    BY DirectionIs DEF InStepNow
  <1>2. Buffered(x, d, s, n) /\ Placed(x, d, s, k, u)
    BY DEF InStepNow, RightOf, Right, Begun
  <1>3. Conforming
    BY DEF InStepNow
  <1> HIDE DEF x, s, n, k
  <1>4. /\ k \in 0 .. Len(MessagesOf(x, d)) /\ u \in Nat /\ u <= n
        /\ k > 0 => EndsOf[x][d][k - 1] \in Nat /\ EndsOf[x][d][k - 1] + 5 <= u
    BY <1>1, <1>2, <1>3, PlacedIs
  <1>5. Behind(x, d, k, u, n)
    BY <1>1, <1>4 DEF Behind
  <1> QED
    BY <1>2, <1>5 DEF x, s, n, k, u

\* Whose turn it is
LEMMA TurnNow ==
    ASSUME InStepNow
    PROVE  Turn(exchange, sent["out"], Begun("in"), Begun("out"), Used(stream["out"], sent["out"]))
  <1>1. "in" \in Dirs /\ "out" \in Dirs /\ exchange \in Exchanges /\ Conforming
    BY DEF Dirs, InStepNow, Fixed
  <1>2. /\ Behind(exchange, "in", Begun("in"), Used(stream["in"], sent["in"]), sent["in"])
        /\ Behind(exchange, "out", Begun("out"), Used(stream["out"], sent["out"]), sent["out"])
    BY <1>1, BehindIs
  <1>3. InOrder(exchange, sent["in"], sent["out"], Begun("in"), Begun("out"), Used(stream["out"], sent["out"]))
    BY DEF InStepNow, InTurn
  <1> QED
    BY <1>1, <1>2, <1>3, TurnIs

\* The request that is told with payload
RequestOf(d) == IF stream[d].isRequest THEN NoHeader ELSE stream[Other(d)].header

\* It is the one that the message answers.
LEMMA AsksIs ==
    ASSUME InStepNow, NEW d \in Dirs, stream[d].state # "HEADER"
    PROVE  Asks(exchange, d, stream[d], Begun(d), Used(stream[d], sent[d]), RequestOf(d))
  <1> DEFINE x == exchange
             s == stream[d]
             k == Begun(d)
             u == Used(s, sent[d])
             q == RequestOf(d)
  <1>1. OKDir(s) /\ x \in Exchanges /\ Conforming /\ Other(d) \in Dirs /\ OKDir(stream[Other(d)])
    BY DirectionIs DEF InStepNow, Dirs, Other
  <1>2. Placed(x, d, s, k, u) /\ k \in Nat
    BY BehindIs, DirectionIs DEF InStepNow
  <1>3. k \in 1 .. Len(MessagesOf(x, d)) /\ k > 0
    BY <1>2 DEF Placed
  <1>4. s.header = MessagesOf(x, d)[k] /\ s.isRequest = (d = "in")
    BY <1>2, <1>3 DEF Placed
  <1>5. q \in Headers \cup {NoHeader}
    BY <1>1 DEF RequestOf, OKDir, StreamDir
  <1>6. Asked(x, s.header) = IF d = "out" THEN x.requests[k] ELSE NoHeader
    BY <1>1, <1>3, <1>4, MessageOK
  <1>7. CASE d = "in"
    BY <1>4, <1>5, <1>6, <1>7 DEF Asks, RequestOf
  <1>8. CASE d = "out"
    <2>1. ASSUME u < EndsOf[x][d][k], x.order = "sequential" PROVE q = x.requests[k]
      <3>1. Begun("in") = k
        BY <1>8, <2>1, TurnNow DEF Turn
      <3>2. "in" \in Dirs /\ MessagesOf(x, "in") = x.requests
        BY DEF Dirs, MessagesOf
      <3>3. Placed(x, "in", stream["in"], k, Used(stream["in"], sent["in"]))
        BY <3>1, <3>2, BehindIs
      <3>4. stream["in"].header = x.requests[k]
        BY <1>3, <3>2, <3>3 DEF Placed
      <3> QED
        BY <1>4, <1>8, <3>4 DEF RequestOf, Other
    <2> QED
      BY <1>5, <1>6, <1>8, <2>1 DEF Asks
  <1> QED
    BY <1>7, <1>8 DEF Dirs

\* Until the connection ends, a direction is right as it is open.
LEMMA OpenIs ==
    ASSUME InStepNow, NEW d \in Dirs, phase = "open"
    PROVE  Right(exchange, d, stream[d], sent[d], stats[Kind(d)], log[d], FALSE)
  <1>1. (phase # "open") = FALSE
    OBVIOUS
  <1> QED
    BY <1>1 DEF InStepNow, RightOf

-----------------------------------------------------------------------------
(* The sections for payload keep the invariant. *)

\* Count() of the counters cs
Counts(c, c2, cs) == \A i \in Counters : c2[i] = c[i] + (IF i \in cs THEN 1 ELSE 0)

\* Count() changes the counters of one kind.
LEMMA CountIs ==
    ASSUME TypeOK, NEW k \in Kinds, NEW cs, stats' = Count(k, cs)
    PROVE  /\ Counts(stats[k], stats'[k], cs)
           /\ \A j \in Kinds : j # k => stats'[j] = stats[j]
  <1>1. stats \in [Kinds -> [Counters -> Nat]]
    BY DEF TypeOK
  <1>2. stats'[k] = [i \in Counters |-> stats[k][i] + (IF i \in cs THEN 1 ELSE 0)]
    BY <1>1 DEF Count
  <1>3. \A j \in Kinds : j # k => stats'[j] = stats[j]
    BY <1>1 DEF Count
  <1> QED
    BY <1>2, <1>3 DEF Counts

\* Payload counts no message, and at most tells that one is over.
LEMMA PayloadCounts ==
    ASSUME NEW c \in [Counters -> Nat], NEW c2, NEW cs, Counts(c, c2, cs),
           cs \subseteq {"numDecompressErrors", "numOK"}
    PROVE  Recounted(c, c2, 0, IF "numOK" \in cs THEN 1 ELSE 0)
  <1>1. /\ c["numHeaders"] \in Nat /\ c["numNormal"] \in Nat /\ c["numChunked"] \in Nat
        /\ c["numUnkownSize"] \in Nat /\ c["numWithoutPayload"] \in Nat /\ c["numOK"] \in Nat
    BY DEF Counters
  <1>2. \A i \in {"numHeaders", "numNormal", "numChunked", "numUnkownSize", "numWithoutPayload"} : i \notin cs
    OBVIOUS
  <1>3. /\ c2["numHeaders"] = c["numHeaders"] + 0 /\ c2["numNormal"] = c["numNormal"] + 0
        /\ c2["numChunked"] = c["numChunked"] + 0 /\ c2["numUnkownSize"] = c["numUnkownSize"] + 0
        /\ c2["numWithoutPayload"] = c["numWithoutPayload"] + 0
        /\ c2["numOK"] = c["numOK"] + (IF "numOK" \in cs THEN 1 ELSE 0)
    BY <1>2 DEF Counts, Counters
  <1>4. KindsCounted(c2) = KindsCounted(c) + 0
    BY <1>1, <1>3 DEF KindsCounted
  <1> QED
    BY <1>3, <1>4 DEF Recounted

\* A header counts one message, which is over if no payload follows.
LEMMA HeaderCounts ==
    ASSUME NEW c \in [Counters -> Nat], NEW c2, NEW framing \in {"length", "chunked", "close", "none"},
           NEW more, more \subseteq {"numCompressed"},
           Counts(c, c2, {"numHeaders"} \cup more \cup CountersFor(framing))
    PROVE  Recounted(c, c2, 1, IF framing = "none" THEN 1 ELSE 0)
  <1>1. /\ c["numHeaders"] \in Nat /\ c["numNormal"] \in Nat /\ c["numChunked"] \in Nat
        /\ c["numUnkownSize"] \in Nat /\ c["numWithoutPayload"] \in Nat /\ c["numOK"] \in Nat
    BY DEF Counters
  <1> DEFINE cs == {"numHeaders"} \cup more \cup CountersFor(framing)
  <1>2. /\ c2["numHeaders"] = c["numHeaders"] + (IF "numHeaders" \in cs THEN 1 ELSE 0)
        /\ c2["numNormal"] = c["numNormal"] + (IF "numNormal" \in cs THEN 1 ELSE 0)
        /\ c2["numChunked"] = c["numChunked"] + (IF "numChunked" \in cs THEN 1 ELSE 0)
        /\ c2["numUnkownSize"] = c["numUnkownSize"] + (IF "numUnkownSize" \in cs THEN 1 ELSE 0)
        /\ c2["numWithoutPayload"] = c["numWithoutPayload"] + (IF "numWithoutPayload" \in cs THEN 1 ELSE 0)
        /\ c2["numOK"] = c["numOK"] + (IF "numOK" \in cs THEN 1 ELSE 0)
    BY DEF Counts, Counters
  <1>3. /\ "numHeaders" \in cs
        /\ "numNormal" \in cs <=> framing = "length"
        /\ "numChunked" \in cs <=> framing = "chunked"
        /\ "numUnkownSize" \in cs <=> framing = "close"
        /\ "numWithoutPayload" \in cs <=> framing = "none"
        /\ "numOK" \in cs <=> framing = "none"
    BY DEF CountersFor
  <1> HIDE DEF cs
  <1>4. c2["numHeaders"] = c["numHeaders"] + 1 /\ c2["numOK"] = c["numOK"] + (IF framing = "none" THEN 1 ELSE 0)
    BY <1>2, <1>3
  <1>5. KindsCounted(c2) = KindsCounted(c) + 1
    <2>1. CASE framing = "length"
      BY <1>1, <1>2, <1>3, <2>1 DEF KindsCounted
    <2>2. CASE framing = "chunked"
      BY <1>1, <1>2, <1>3, <2>2 DEF KindsCounted
    <2>3. CASE framing = "close"
      BY <1>1, <1>2, <1>3, <2>3 DEF KindsCounted
    <2>4. CASE framing = "none"
      BY <1>1, <1>2, <1>3, <2>4 DEF KindsCounted
    <2> QED
      BY <2>1, <2>2, <2>3, <2>4
  <1> QED
    BY <1>4, <1>5 DEF Recounted

\* What a section leaves alone, and what stays right of its own direction
KeptOthers(d) ==
    /\ exchange' = exchange /\ sent' = sent /\ withZlib' = withZlib /\ phase' = phase
    /\ stats'[Kind(Other(d))] = stats[Kind(Other(d))] /\ log'[Other(d)] = log[Other(d)]
    /\ Right(exchange, d, stream'[d], sent[d], stats'[Kind(d)], log'[d], FALSE)

\* A section within a message keeps its direction right and all else as it was.
Kept(d) ==
    /\ KeptOthers(d)
    /\ stream'[Other(d)] = stream[Other(d)]
    /\ stream'[d].headerOnlyRequest = stream[d].headerOnlyRequest
    /\ Begun(d)' = Begun(d)
    /\ Used(stream[d], sent[d]) <= Used(stream'[d], sent[d]) /\ Used(stream'[d], sent[d]) \in Nat

\* That is enough to stay in step.
LEMMA KeptIs ==
    ASSUME InStepNow, phase = "open", TypeOK', CorruptedTogether', NEW d \in Dirs, Kept(d)
    PROVE  InStepNow'
  <1>1. /\ exchange' = exchange /\ sent' = sent /\ withZlib' = withZlib /\ phase' = phase
        /\ stream'[Other(d)] = stream[Other(d)] /\ stats'[Kind(Other(d))] = stats[Kind(Other(d))]
        /\ log'[Other(d)] = log[Other(d)]
    BY DEF Kept, KeptOthers
  <1>2. Fixed' /\ Conforming
    BY <1>1 DEF InStepNow, Fixed
  <1>3. RightOf(d)'
    <2>1. (phase' # "open") = FALSE
      BY <1>1
    <2> QED
      BY <1>1, <2>1 DEF RightOf, Kept, KeptOthers
  <1>4. RightOf(Other(d))'
    <2>1. Other(d) \in Dirs
      BY DEF Dirs, Other
    <2>2. RightOf(Other(d))
      BY <2>1 DEF InStepNow
    <2> QED
      BY <1>1, <2>2 DEF RightOf
  <1>5. \A e \in Dirs : e = d \/ e = Other(d)
    BY DEF Dirs, Other
  <1>6. Begun("in")' = Begun("in") /\ Begun("out")' = Begun("out")
    <2>1. Begun(d)' = Begun(d) /\ Begun(Other(d))' = Begun(Other(d))
      BY <1>1 DEF Kept, Begun
    <2> QED
      BY <2>1 DEF Dirs, Other
  <1>7. HeadComes'
    <2>1. /\ stream'["in"].headerOnlyRequest = stream["in"].headerOnlyRequest
          /\ stream'["out"].headerOnlyRequest = stream["out"].headerOnlyRequest
      BY <1>1 DEF Kept, Dirs, Other
    <2>2. HeadComes
      BY DEF InStepNow
    <2> QED
      BY <1>1, <1>6, <2>1, <2>2 DEF HeadComes
  <1>8. InTurn'
    <2> DEFINE uo == Used(stream["out"], sent["out"])
               vo == Used(stream'["out"], sent["out"])
    <2>1. InTurn
      BY DEF InStepNow
    <2>2. CASE d = "in"
      <3>1. stream'["out"] = stream["out"]
        BY <1>1, <2>2 DEF Other
      <3> QED
        BY <1>1, <1>6, <2>1, <3>1 DEF InTurn
    <2>3. CASE d = "out"
      <3>1. uo <= vo /\ vo \in Nat
        BY <2>3 DEF Kept
      <3>2. "out" \in Dirs /\ exchange \in Exchanges
        BY DEF Dirs, InStepNow, Fixed
      <3>3. Behind(exchange, "out", Begun("out"), uo, sent["out"])
        BY <3>2, BehindIs
      <3>4. uo \in Nat /\ EndsOf[exchange]["out"][Begun("out")] \in Nat
        BY <1>2, <3>2, <3>3, EndsGrow DEF Behind
      <3>5. InOrder(exchange, sent["in"], sent["out"], Begun("in"), Begun("out"), uo)
        BY <2>1 DEF InTurn
      <3> HIDE DEF uo, vo
      <3>6. InOrder(exchange, sent["in"], sent["out"], Begun("in"), Begun("out"), vo)
        BY <3>1, <3>4, <3>5, OrderUsed
      <3> QED
        BY <1>1, <1>6, <3>6 DEF InTurn, vo
    <2> QED
      BY <2>2, <2>3 DEF Dirs
  <1> QED
    BY <1>2, <1>3, <1>4, <1>5, <1>7, <1>8 DEF InStepNow

\* A section of direction d runs.
Runs(d) == InStepNow /\ phase = "open" /\ UNCHANGED <<exchange, sent>>

\* t takes the place of direction d, m cells of which are used.
Becomes(d, t, m) ==
    /\ stream' = [stream EXCEPT ![d] = t]
    /\ Takes(stream[d], t, m)
    /\ t.headerOnlyRequest = stream[d].headerOnlyRequest

\* Such a step uses cells and leaves the other direction alone.
LEMMA BecomesIs ==
    ASSUME NEW d \in Dirs, Runs(d), NEW t, NEW m, Becomes(d, t, m)
    PROVE  /\ stream'[d] = t /\ stream'[Other(d)] = stream[Other(d)]
           /\ Used(stream[d], sent[d]) <= Used(t, sent[d]) /\ Used(t, sent[d]) \in Nat
  <1> DEFINE s == stream[d]
             n == sent[d]
             x == exchange
  <1>1. stream'[d] = t /\ stream'[Other(d)] = stream[Other(d)]
    <2>1. stream \in [Dirs -> StreamDir] /\ Other(d) # d /\ Other(d) \in Dirs
      BY DEF Runs, InStepNow, TypeOK, Dirs, Other
    <2> QED
      BY <2>1 DEF Becomes
  <1>2. Buffered(x, d, s, n) /\ Behind(x, d, Begun(d), Used(s, n), n) /\ n \in Nat
    BY BehindIs, DirectionIs DEF Runs, InStepNow
  <1>3. Takes(s, t, m)
    BY DEF Becomes
  <1>4. m \in Nat
    BY <1>3, LenProperties DEF Takes
  <1> HIDE DEF s, n, x
  <1>5. Uses(x, d, s, t, n, m)
    BY <1>2, <1>3, BufferedRest
  <1>6. Used(t, n) = Used(s, n) + m /\ Used(s, n) \in Nat
    BY <1>2, <1>5 DEF Uses, Behind
  <1>7. Used(s, n) <= Used(t, n) /\ Used(t, n) \in Nat
    BY <1>4, <1>6
  <1> QED
    BY <1>1, <1>7 DEF s, n

\* Such a section keeps all but its own direction.
LEMMA KeptBy ==
    ASSUME NEW d \in Dirs, Runs(d), NEW t, NEW m, Becomes(d, t, m),
           UNCHANGED <<withZlib, loop, phase>>,
           stats'[Kind(Other(d))] = stats[Kind(Other(d))], log'[Other(d)] = log[Other(d)],
           stats'[Kind(d)]["numHeaders"] = stats[Kind(d)]["numHeaders"],
           Right(exchange, d, t, sent[d], stats'[Kind(d)], log'[d], FALSE)
    PROVE  Kept(d)
  <1>1. /\ stream'[d] = t /\ stream'[Other(d)] = stream[Other(d)]
        /\ Used(stream[d], sent[d]) <= Used(t, sent[d]) /\ Used(t, sent[d]) \in Nat
    BY BecomesIs
  <1>2. exchange' = exchange /\ sent' = sent
    BY DEF Runs
  <1>3. t.headerOnlyRequest = stream[d].headerOnlyRequest
    BY DEF Becomes
  <1> QED
    BY <1>1, <1>2, <1>3 DEF Kept, KeptOthers, Begun

\* Payload is counted with its own direction.
LEMMA OwnKind ==
    ASSUME NEW d \in Dirs, InStepNow, stream[d].state # "HEADER"
    PROVE  KindOf(stream[d]) = Kind(d) /\ Kind(Other(d)) # Kind(d) /\ Kind(d) \in Kinds /\ Kind(Other(d)) \in Kinds
  <1>1. Placed(exchange, d, stream[d], Begun(d), Used(stream[d], sent[d])) /\ Begun(d) \in Nat
    BY BehindIs, DirectionIs DEF InStepNow
  <1>2. Begun(d) > 0
    BY <1>1 DEF Placed
  <1>3. stream[d].isRequest = (d = "in")
    BY <1>1, <1>2 DEF Placed
  <1> QED
    BY <1>3 DEF KindOf, Kind, Kinds, Dirs, Other

\* What a section that passes payload on counts and tells
Passes(d, cs, events) ==
    /\ cs \subseteq {"numDecompressErrors", "numOK"}
    /\ stats' = Count(KindOf(stream[d]), cs)
    /\ Tell(d, events)

\* Such a step counts and tells for its own direction only.
LEMMA PassesIs ==
    ASSUME NEW d \in Dirs, InStepNow, stream[d].state # "HEADER", NEW cs, NEW events, Passes(d, cs, events)
    PROVE  /\ Recounted(stats[Kind(d)], stats'[Kind(d)], 0, IF "numOK" \in cs THEN 1 ELSE 0)
           /\ stats'[Kind(d)]["numHeaders"] = stats[Kind(d)]["numHeaders"]
           /\ stats'[Kind(Other(d))] = stats[Kind(Other(d))] /\ log'[Other(d)] = log[Other(d)]
           /\ log'[d] = log[d] \o events
  <1>1. KindOf(stream[d]) = Kind(d) /\ Kind(Other(d)) # Kind(d) /\ Kind(d) \in Kinds /\ Kind(Other(d)) \in Kinds
    BY OwnKind
  <1>2. stats' = Count(Kind(d), cs) /\ TypeOK /\ cs \subseteq {"numDecompressErrors", "numOK"}
    BY <1>1 DEF Passes, InStepNow
  <1>3. Counts(stats[Kind(d)], stats'[Kind(d)], cs)
    BY <1>1, <1>2, CountIs
  <1>4. stats'[Kind(Other(d))] = stats[Kind(Other(d))]
    BY <1>1, <1>2, CountIs
  <1>5. stats[Kind(d)] \in [Counters -> Nat]
    BY <1>1 DEF InStepNow, TypeOK
  <1>6. Recounted(stats[Kind(d)], stats'[Kind(d)], 0, IF "numOK" \in cs THEN 1 ELSE 0)
    BY <1>2, <1>3, <1>5, PayloadCounts
  <1>7. stats'[Kind(d)]["numHeaders"] = stats[Kind(d)]["numHeaders"]
    BY <1>5, <1>6 DEF Recounted, Counters
  <1>8. log'[Other(d)] = log[Other(d)] /\ log'[d] = log[d] \o events
    <2>1. log \in [Dirs -> Seq(Event)] /\ Other(d) # d /\ Other(d) \in Dirs
      BY DEF InStepNow, TypeOK, Dirs, Other
    <2> QED
      BY <2>1 DEF Passes, Tell
  <1> QED
    BY <1>4, <1>6, <1>7, <1>8

\* What is known of the direction whose section runs
OwnRight(d) ==
    /\ exchange \in Exchanges /\ OKDir(stream[d]) /\ sent[d] \in Nat /\ log[d] \in Seq(Event)
    /\ stats[Kind(d)] \in [Counters -> Nat] /\ Conforming
    /\ Right(exchange, d, stream[d], sent[d], stats[Kind(d)], log[d], FALSE)
    /\ stream[d] \in StreamDir /\ stream[d].buffer \in Seq(Cell) /\ Len(stream[d].buffer) \in Nat

\* The invariant says so.
LEMMA OwnIs ==
    ASSUME NEW d \in Dirs, Runs(d)
    PROVE  OwnRight(d)
  <1>1. TypeOK /\ Fixed /\ phase = "open" /\ InStepNow /\ Conforming
    BY DEF Runs, InStepNow
  <1>2. Right(exchange, d, stream[d], sent[d], stats[Kind(d)], log[d], FALSE)
    BY <1>1, OpenIs
  <1>3. /\ OKDir(stream[d]) /\ sent[d] \in Nat /\ log[d] \in Seq(Event)
        /\ stats[Kind(d)] \in [Counters -> Nat] /\ exchange \in Exchanges
    BY <1>1, DirectionIs
  <1>4. stream[d] \in StreamDir /\ stream[d].buffer \in Seq(Cell) /\ Len(stream[d].buffer) \in Nat
    BY <1>1, StateOK DEF OKDir
  <1> QED
    BY <1>1, <1>2, <1>3, <1>4 DEF OwnRight

\* Traffic() with the request that is told
LEMMA TrafficIs ==
    ASSUME NEW d, NEW m
    PROVE  Traffic(d, m) = Passed(stream[d], RequestOf(d), m)
  BY DEF Traffic, Passed, RequestOf

\* UnknownContent() keeps what is right.
LEMMA UnknownKept ==
    ASSUME NEW d \in Dirs, Runs(d), UnknownContent(d)
    PROVE  Kept(d)
  <1> DEFINE x == exchange
             s == stream[d]
             m == Len(s.buffer)
             n == sent[d]
             c == stats[Kind(d)]
             l == log[d]
             t == [s EXCEPT !.buffer = <<>>, !.contentReceived = @ + m]
             q == RequestOf(d)
  <1>1. OwnRight(d) /\ s.state = "UNKNOWN_CONTENT" /\ HasWork(s) /\ s.state # "HEADER"
    BY OwnIs DEF UnknownContent, Works
  <1>2. PICK cs \in DecompressErrors(d, m) : stats' = Count(KindOf(s), cs)
    BY DEF UnknownContent
  <1>3. Passes(d, cs, Passed(s, q, m)) /\ "numOK" \notin cs
    BY <1>2, TrafficIs DEF UnknownContent, Passes, DecompressErrors
  <1>4. /\ Recounted(c, stats'[Kind(d)], 0, IF "numOK" \in cs THEN 1 ELSE 0)
        /\ stats'[Kind(d)]["numHeaders"] = c["numHeaders"]
        /\ stats'[Kind(Other(d))] = stats[Kind(Other(d))] /\ log'[Other(d)] = log[Other(d)]
        /\ log'[d] = l \o Passed(s, q, m)
    BY <1>1, <1>3, PassesIs DEF Runs
  <1>5. Recounted(c, stats'[Kind(d)], 0, 0)
    BY <1>3, <1>4
  <1>6. Asks(x, d, s, c["numHeaders"], Used(s, n), q)
    BY <1>1, AsksIs DEF Runs, Begun
  <1>7. /\ SameMessage(s, t) /\ t.state = "UNKNOWN_CONTENT" /\ t.headerOnlyRequest = s.headerOnlyRequest
        /\ t.buffer = <<>>
    BY <1>1 DEF OwnRight, StreamDir, SameMessage
  <1>8. Takes(s, t, m)
    <2>1. s.buffer \in Seq(Cell) /\ m \in Nat /\ m \in 0 .. Len(s.buffer)
      BY <1>1 DEF OwnRight
    <2>2. Rest(s.buffer, m) \in Seq(Cell) /\ Len(Rest(s.buffer, m)) = Len(s.buffer) - m
      BY <2>1, RestOK
    <2>3. Len(Rest(s.buffer, m)) = 0
      BY <2>1, <2>2
    <2>4. Rest(s.buffer, m) = <<>>
      BY <2>2, <2>3, EmptySeq
    <2> QED
      BY <1>7, <2>1, <2>4 DEF Takes
  <1>9. Becomes(d, t, m)
    BY <1>7, <1>8 DEF Becomes, UnknownContent, Become
  <1>10. Right(x, d, t, n, stats'[Kind(d)], l \o Passed(s, q, m), FALSE)
    <2>1. /\ x \in Exchanges /\ OKDir(s) /\ n \in Nat /\ l \in Seq(Event) /\ c \in [Counters -> Nat] /\ Conforming
          /\ Right(x, d, s, n, c, l, FALSE)
      BY <1>1 DEF OwnRight
    <2>2. /\ s.state = "UNKNOWN_CONTENT" /\ HasWork(s) /\ SameMessage(s, t) /\ t.state = "UNKNOWN_CONTENT"
      BY <1>1, <1>7
    <2> HIDE DEF x, s, n, c, l, t, q
    <2>3. Takes(s, t, Len(s.buffer))
      BY <1>8
    <2>4. Right(x, d, t, n, stats'[Kind(d)], l \o Passed(s, q, Len(s.buffer)), FALSE)
      BY <1>5, <1>6, <2>1, <2>2, <2>3, UnknownRight
    <2> QED
      BY <2>4
  <1>11. UNCHANGED <<withZlib, loop, phase>>
    BY DEF UnknownContent
  <1> HIDE DEF t
  <1> QED
    BY <1>4, <1>9, <1>10, <1>11, KeptBy

\* ChunkSize() keeps what is right.
LEMMA ChunkSizeKept ==
    ASSUME NEW d \in Dirs, Runs(d), ChunkSize(d)
    PROVE  Kept(d)
  <1> DEFINE x == exchange
             s == stream[d]
             m == First(LineEnds(s.buffer))
             n == sent[d]
             c == stats[Kind(d)]
             l == log[d]
             t == [s EXCEPT !.chunkLength = ChunkSizeIn(SubSeq(s.buffer, 1, m - 2)),
                            !.buffer = Rest(s.buffer, m),
                            !.state = "CHUNK_DATA"]
  <1>1. OwnRight(d) /\ s.state = "CHUNK_SIZE" /\ HasWork(s) /\ s.state # "HEADER"
    BY OwnIs DEF ChunkSize, Works
  <1>2. stats' = stats /\ log' = log /\ UNCHANGED <<withZlib, loop, phase>>
    BY DEF ChunkSize
  <1>3. /\ SameMessage(s, t) /\ t.state = "CHUNK_DATA" /\ t.headerOnlyRequest = s.headerOnlyRequest
        /\ t.buffer = Rest(s.buffer, m) /\ t.chunkLength = ChunkSizeIn(SubSeq(s.buffer, 1, m - 2))
        /\ t.contentReceived = s.contentReceived
    BY <1>1 DEF OwnRight, StreamDir, SameMessage
  <1>4. Takes(s, t, m)
    <2>1. s.buffer \in Seq(Cell) /\ Len(s.buffer) \in Nat
      BY <1>1 DEF OwnRight
    <2>2. LineEnds(s.buffer) # {}
      BY <1>1 DEF HasWork
    <2>3. m \in 2 .. Len(s.buffer)
      BY <2>1, <2>2, Search
    <2> QED
      BY <1>3, <2>1, <2>3 DEF Takes
  <1>5. Becomes(d, t, m)
    BY <1>3, <1>4 DEF Becomes, ChunkSize, Become
  <1>6. Right(x, d, t, n, c, l, FALSE)
    <2>1. /\ x \in Exchanges /\ OKDir(s) /\ n \in Nat /\ l \in Seq(Event) /\ c \in [Counters -> Nat] /\ Conforming
          /\ Right(x, d, s, n, c, l, FALSE)
      BY <1>1 DEF OwnRight
    <2>2. /\ s.state = "CHUNK_SIZE" /\ HasWork(s) /\ SameMessage(s, t) /\ t.state = "CHUNK_DATA"
          /\ t.contentReceived = s.contentReceived
      BY <1>1, <1>3
    <2>3. /\ Takes(s, t, First(LineEnds(s.buffer)))
          /\ t.chunkLength = ChunkSizeIn(SubSeq(s.buffer, 1, First(LineEnds(s.buffer)) - 2))
      BY <1>3, <1>4
    <2> HIDE DEF x, s, n, c, l, t, m
    <2> QED
      BY <2>1, <2>2, <2>3, ChunkSizeRight
  <1> HIDE DEF t, m
  <1>7. Right(exchange, d, t, sent[d], stats'[Kind(d)], log'[d], FALSE)
    BY <1>2, <1>6
  <1>8. /\ stats'[Kind(Other(d))] = stats[Kind(Other(d))] /\ log'[Other(d)] = log[Other(d)]
        /\ stats'[Kind(d)]["numHeaders"] = stats[Kind(d)]["numHeaders"]
    BY <1>2
  <1> QED
    BY <1>2, <1>5, <1>7, <1>8, KeptBy

\* Content() keeps what is right.
LEMMA ContentKept ==
    ASSUME NEW d \in Dirs, Runs(d), Content(d)
    PROVE  Kept(d)
  <1> DEFINE x == exchange
             s == stream[d]
             m == Least(s.contentLength - s.contentReceived, s.buffer)
             complete == s.contentReceived + m = s.contentLength
             n == sent[d]
             c == stats[Kind(d)]
             l == log[d]
             over == [s EXCEPT !.buffer = Rest(s.buffer, m), !.contentLength = 0,
                               !.contentReceived = 0, !.state = "HEADER"]
             more == [s EXCEPT !.buffer = Rest(s.buffer, m),
                               !.contentReceived = s.contentReceived + m]
             t == IF complete THEN over ELSE more
             q == RequestOf(d)
             ok == IF complete THEN {"numOK"} ELSE {}
  <1>1. OwnRight(d) /\ s.state = "CONTENT" /\ HasWork(s) /\ s.state # "HEADER"
    BY OwnIs DEF Content, Works
  <1>2. PICK errors \in DecompressErrors(d, m) : stats' = Count(KindOf(s), errors \cup ok)
    BY DEF Content
  <1> DEFINE cs == errors \cup ok
             events == ContentEvents(s, q, m)
  <1>3. Passes(d, cs, events) /\ ("numOK" \in cs <=> complete)
    <2>1. cs \subseteq {"numDecompressErrors", "numOK"} /\ ("numOK" \in cs <=> complete)
      BY DEF DecompressErrors
    <2>2. Tell(d, events)
      BY TrafficIs DEF Content, ContentEvents, Finished
    <2> QED
      BY <1>2, <2>1, <2>2 DEF Passes
  <1> HIDE DEF events, cs
  <1>4. /\ Recounted(c, stats'[Kind(d)], 0, IF "numOK" \in cs THEN 1 ELSE 0)
        /\ stats'[Kind(d)]["numHeaders"] = c["numHeaders"]
        /\ stats'[Kind(Other(d))] = stats[Kind(Other(d))] /\ log'[Other(d)] = log[Other(d)]
        /\ log'[d] = l \o events
    BY <1>1, <1>3, PassesIs DEF Runs
  <1>5. Recounted(c, stats'[Kind(d)], 0, IF s.contentReceived + m = s.contentLength THEN 1 ELSE 0)
    BY <1>3, <1>4
  <1>6. Asks(x, d, s, c["numHeaders"], Used(s, n), q)
    BY <1>1, AsksIs DEF Runs, Begun
  <1>7. /\ SameMessage(s, t) /\ AfterContent(s, t, m) /\ t.headerOnlyRequest = s.headerOnlyRequest
        /\ t.buffer = Rest(s.buffer, m)
    <2>1. s \in StreamDir /\ s.state = "CONTENT"
      BY <1>1 DEF OwnRight
    <2> HIDE DEF s, m
    <2> QED
      BY <2>1 DEF StreamDir, SameMessage, AfterContent
  <1>8. Takes(s, t, m)
    <2>1. s.buffer \in Seq(Cell) /\ Len(s.buffer) \in Nat /\ s \in StreamDir /\ CountersFit(s)
      BY <1>1 DEF OwnRight, OKDir
    <2>2. s.contentLength \in Nat /\ s.contentReceived \in Nat /\ s.contentReceived <= s.contentLength
      BY <1>1, <2>1 DEF StreamDir, CountersFit
    <2>3. s.contentLength - s.contentReceived \in Nat
      BY <2>2
    <2>4. m \in 0 .. Len(s.buffer)
      BY <2>1, <2>3, LeastOK
    <2> QED
      BY <1>7, <2>1, <2>4 DEF Takes
  <1>9. Becomes(d, t, m)
    BY <1>7, <1>8 DEF Becomes, Content, Become
  <1>10. Right(x, d, t, n, stats'[Kind(d)], l \o events, FALSE)
    <2>1. /\ x \in Exchanges /\ OKDir(s) /\ n \in Nat /\ l \in Seq(Event) /\ c \in [Counters -> Nat] /\ Conforming
          /\ Right(x, d, s, n, c, l, FALSE)
      BY <1>1 DEF OwnRight
    <2>2. /\ s.state = "CONTENT" /\ HasWork(s) /\ SameMessage(s, t) /\ AfterContent(s, t, m) /\ Takes(s, t, m)
          /\ m = Least(s.contentLength - s.contentReceived, s.buffer)
      BY <1>1, <1>7, <1>8
    <2> HIDE DEF x, s, n, c, l, t, q, m
    <2>3. Right(x, d, t, n, stats'[Kind(d)], l \o ContentEvents(s, q, m), FALSE)
      BY <1>5, <1>6, <2>1, <2>2, ContentRight
    <2> QED
      BY <2>3 DEF events
  <1>11. UNCHANGED <<withZlib, loop, phase>>
    BY DEF Content
  <1> HIDE DEF t, m
  <1> QED
    BY <1>4, <1>9, <1>10, <1>11, KeptBy

\* ChunkData() keeps what is right.
LEMMA ChunkDataKept ==
    ASSUME NEW d \in Dirs, Runs(d), ChunkData(d)
    PROVE  Kept(d)
  <1> DEFINE x == exchange
             s == stream[d]
             m == Least(s.chunkLength - s.contentReceived, s.buffer)
             complete == s.contentReceived + m = s.chunkLength
             n == sent[d]
             c == stats[Kind(d)]
             l == log[d]
             t == [s EXCEPT !.buffer = Rest(s.buffer, m),
                            !.contentReceived = IF complete THEN 0 ELSE s.contentReceived + m,
                            !.state = IF complete THEN "CHUNK_END" ELSE s.state]
             q == RequestOf(d)
             events == Passed(s, q, m)
  <1>1. OwnRight(d) /\ s.state = "CHUNK_DATA" /\ HasWork(s) /\ s.state # "HEADER"
    BY OwnIs DEF ChunkData, Works
  <1>2. PICK cs \in DecompressErrors(d, m) : stats' = Count(KindOf(s), cs)
    BY DEF ChunkData
  <1>3. Passes(d, cs, events) /\ "numOK" \notin cs
    <2>1. cs \subseteq {"numDecompressErrors", "numOK"} /\ "numOK" \notin cs
      BY DEF DecompressErrors
    <2>2. Tell(d, events)
      BY TrafficIs DEF ChunkData
    <2> QED
      BY <1>2, <2>1, <2>2 DEF Passes
  <1> HIDE DEF events
  <1>4. /\ Recounted(c, stats'[Kind(d)], 0, IF "numOK" \in cs THEN 1 ELSE 0)
        /\ stats'[Kind(d)]["numHeaders"] = c["numHeaders"]
        /\ stats'[Kind(Other(d))] = stats[Kind(Other(d))] /\ log'[Other(d)] = log[Other(d)]
        /\ log'[d] = l \o events
    BY <1>1, <1>3, PassesIs DEF Runs
  <1>5. Recounted(c, stats'[Kind(d)], 0, 0)
    BY <1>3, <1>4
  <1>6. Asks(x, d, s, c["numHeaders"], Used(s, n), q)
    BY <1>1, AsksIs DEF Runs, Begun
  <1>7. /\ SameMessage(s, t) /\ AfterChunkData(s, t, m) /\ t.headerOnlyRequest = s.headerOnlyRequest
        /\ t.buffer = Rest(s.buffer, m)
    <2>1. s \in StreamDir /\ s.state = "CHUNK_DATA"
      BY <1>1 DEF OwnRight
    <2> HIDE DEF s, m
    <2> QED
      BY <2>1 DEF StreamDir, SameMessage, AfterChunkData
  <1>8. Takes(s, t, m)
    <2>1. s.buffer \in Seq(Cell) /\ Len(s.buffer) \in Nat /\ s \in StreamDir /\ CountersFit(s)
      BY <1>1 DEF OwnRight, OKDir
    <2>2. s.chunkLength \in Nat /\ s.contentReceived \in Nat /\ s.contentReceived <= s.chunkLength
      BY <1>1, <2>1 DEF StreamDir, CountersFit
    <2>3. s.chunkLength - s.contentReceived \in Nat
      BY <2>2
    <2>4. m \in 0 .. Len(s.buffer)
      BY <2>1, <2>3, LeastOK
    <2> QED
      BY <1>7, <2>1, <2>4 DEF Takes
  <1>9. Becomes(d, t, m)
    BY <1>7, <1>8 DEF Becomes, ChunkData, Become
  <1>10. Right(x, d, t, n, stats'[Kind(d)], l \o events, FALSE)
    <2>1. /\ x \in Exchanges /\ OKDir(s) /\ n \in Nat /\ l \in Seq(Event) /\ c \in [Counters -> Nat] /\ Conforming
          /\ Right(x, d, s, n, c, l, FALSE)
      BY <1>1 DEF OwnRight
    <2>2. /\ s.state = "CHUNK_DATA" /\ SameMessage(s, t) /\ AfterChunkData(s, t, m) /\ Takes(s, t, m)
          /\ m = Least(s.chunkLength - s.contentReceived, s.buffer)
      BY <1>1, <1>7, <1>8
    <2> HIDE DEF x, s, n, c, l, t, q, m
    <2>3. Right(x, d, t, n, stats'[Kind(d)], l \o Passed(s, q, m), FALSE)
      BY <1>5, <1>6, <2>1, <2>2, ChunkDataRight
    <2> QED
      BY <2>3 DEF events
  <1>11. UNCHANGED <<withZlib, loop, phase>>
    BY DEF ChunkData
  <1> HIDE DEF t, m
  <1> QED
    BY <1>4, <1>9, <1>10, <1>11, KeptBy

\* ChunkEnd() keeps what is right.
LEMMA ChunkEndKept ==
    ASSUME NEW d \in Dirs, Runs(d), ChunkEnd(d)
    PROVE  Kept(d)
  <1> DEFINE x == exchange
             s == stream[d]
             last == s.chunkLength = 0
             n == sent[d]
             c == stats[Kind(d)]
             l == log[d]
             t == [s EXCEPT !.buffer = Rest(s.buffer, 2), !.chunkLength = 0,
                            !.contentReceived = 0,
                            !.state = IF last THEN "HEADER" ELSE "CHUNK_SIZE"]
             events == ChunkEndEvents(s)
             cs == IF last THEN {"numOK"} ELSE {}
  <1>1. OwnRight(d) /\ s.state = "CHUNK_END" /\ HasWork(s) /\ s.state # "HEADER"
    BY OwnIs DEF ChunkEnd, Works
  <1>2. Passes(d, cs, events) /\ ("numOK" \in cs <=> last)
    <2>1. cs \subseteq {"numDecompressErrors", "numOK"} /\ ("numOK" \in cs <=> last)
      OBVIOUS
    <2>2. Tell(d, events)
      BY DEF ChunkEnd, ChunkEndEvents, Finished
    <2> QED
      BY <2>1, <2>2 DEF Passes, ChunkEnd
  <1> HIDE DEF events, cs
  <1>3. /\ Recounted(c, stats'[Kind(d)], 0, IF "numOK" \in cs THEN 1 ELSE 0)
        /\ stats'[Kind(d)]["numHeaders"] = c["numHeaders"]
        /\ stats'[Kind(Other(d))] = stats[Kind(Other(d))] /\ log'[Other(d)] = log[Other(d)]
        /\ log'[d] = l \o events
    BY <1>1, <1>2, PassesIs DEF Runs
  <1>4. Recounted(c, stats'[Kind(d)], 0, IF s.chunkLength = 0 THEN 1 ELSE 0)
    BY <1>2, <1>3
  <1>5. /\ SameMessage(s, t) /\ t.headerOnlyRequest = s.headerOnlyRequest
        /\ t.buffer = Rest(s.buffer, 2) /\ t.chunkLength = 0 /\ t.contentReceived = 0
        /\ t.state = IF s.chunkLength = 0 THEN "HEADER" ELSE "CHUNK_SIZE"
    <2>1. s \in StreamDir
      BY <1>1 DEF OwnRight
    <2> HIDE DEF s
    <2> QED
      BY <2>1 DEF StreamDir, SameMessage
  <1>6. Takes(s, t, 2)
    <2>1. s.buffer \in Seq(Cell) /\ Len(s.buffer) \in Nat /\ Len(s.buffer) >= 2
      BY <1>1 DEF OwnRight, HasWork
    <2> QED
      BY <1>5, <2>1 DEF Takes
  <1>7. Becomes(d, t, 2)
    BY <1>5, <1>6 DEF Becomes, ChunkEnd, Become
  <1>8. Right(x, d, t, n, stats'[Kind(d)], l \o events, FALSE)
    <2>1. /\ x \in Exchanges /\ OKDir(s) /\ n \in Nat /\ l \in Seq(Event) /\ c \in [Counters -> Nat] /\ Conforming
          /\ Right(x, d, s, n, c, l, FALSE)
      BY <1>1 DEF OwnRight
    <2>2. /\ s.state = "CHUNK_END" /\ HasWork(s) /\ SameMessage(s, t) /\ Takes(s, t, 2)
          /\ t.chunkLength = 0 /\ t.contentReceived = 0
          /\ t.state = IF s.chunkLength = 0 THEN "HEADER" ELSE "CHUNK_SIZE"
      BY <1>1, <1>5, <1>6
    <2> HIDE DEF x, s, n, c, l, t
    <2>3. Right(x, d, t, n, stats'[Kind(d)], l \o ChunkEndEvents(s), FALSE)
      BY <1>4, <2>1, <2>2, ChunkEndRight
    <2> QED
      BY <2>3 DEF events
  <1>9. UNCHANGED <<withZlib, loop, phase>>
    BY DEF ChunkEnd
  <1> HIDE DEF t
  <1> QED
    BY <1>3, <1>7, <1>8, <1>9, KeptBy

-----------------------------------------------------------------------------
(* The section for headers *)

\* The next header of direction d is in the buffer.
Found(d, h) ==
    LET s == stream[d]
        k == Begun(d)
    IN  /\ s.state = "HEADER" /\ HasWork(s)
        /\ k \in Nat /\ k + 1 \in 1 .. Len(MessagesOf(exchange, d))
        /\ HeaderEnd(s) = 5 /\ FirstCell(s).kind = "head"
        /\ h = FirstCell(s).header /\ h = MessagesOf(exchange, d)[k + 1]
        /\ EndsOf[exchange][d][k] \in Nat /\ EndsOf[exchange][d][k] + 5 <= sent[d]
        /\ s.buffer \in Seq(Cell) /\ 5 \in 0 .. Len(s.buffer)

\* What the decoder finds is the next header.
LEMMA HeaderFound ==
    ASSUME NEW d \in Dirs, InStepNow, Works(d, "HEADER")
    PROVE  Found(d, FirstCell(stream[d]).header)
  <1> DEFINE x == exchange
             s == stream[d]
             k == Begun(d)
             n == sent[d]
  <1>1. TypeOK /\ Fixed /\ Conforming
    BY DEF InStepNow
  <1>2. OKDir(s) /\ x \in Exchanges /\ n \in Nat /\ k \in Nat /\ s.buffer \in Seq(Cell)
    BY <1>1, DirectionIs, StateOK
  <1>3. s.state = "HEADER" /\ HasWork(s)
    BY DEF Works
  <1>4. HeaderEnds(s.buffer) # {}
    BY <1>3 DEF HasWork
  <1>5. Buffered(x, d, s, n) /\ Placed(x, d, s, k, Used(s, n))
    BY BehindIs
  <1> HIDE DEF x, s, k, n
  <1>6. /\ 5 <= Len(s.buffer)
        /\ HeaderEnd(s) = 5 /\ k + 1 \in 1 .. Len(MessagesOf(x, d))
        /\ FirstCell(s).kind = "head" /\ FirstCell(s).header = MessagesOf(x, d)[k + 1]
    <2>1. /\ Conforming /\ x \in Exchanges /\ OKDir(s) /\ n \in Nat
          /\ Buffered(x, d, s, n) /\ Placed(x, d, s, k, Used(s, n)) /\ s.state = "HEADER"
      BY <1>1, <1>2, <1>3, <1>5
    <2>2. HeaderEnds(s.buffer) # {} <=> 5 <= Len(s.buffer)
      BY <2>1, HeaderIs
    <2>3. HeaderEnds(s.buffer) # {} => HeaderEnd(s) = 5 /\ k + 1 \in 1 .. Len(MessagesOf(x, d))
      BY <2>1, HeaderIs
    <2>4. HeaderEnds(s.buffer) # {} =>
             FirstCell(s).kind = "head" /\ FirstCell(s).header = MessagesOf(x, d)[k + 1]
      BY <2>1, HeaderIs
    <2> QED
      BY <1>4, <2>2, <2>3, <2>4
  <1>7. /\ n = Used(s, n) + Len(s.buffer) /\ Len(s.buffer) \in Nat
        /\ EndsOf[x][d][k] \in Nat /\ Used(s, n) = EndsOf[x][d][k]
    BY <1>1, <1>2, <1>3, <1>5, PlacedIs
  <1>8. EndsOf[x][d][k] + 5 <= n /\ 5 \in 0 .. Len(s.buffer)
    BY <1>6, <1>7
  <1> QED
    BY <1>2, <1>3, <1>6, <1>7, <1>8 DEF Found, x, s, k, n

\* The request that a header is told with
RequestWith(d, h) == IF h.method # "RESPONSE" THEN NoHeader ELSE stream[Other(d)].header

\* The decoder finds out how the payload ends, and the request that is answered.
Understood(d, h) ==
    /\ \A s : s.headerOnlyRequest = stream[d].headerOnlyRequest => FramingOf(s, h) = Framing(exchange, h)
    /\ RequestWith(d, h) \in Headers \cup {NoHeader}
    /\ exchange.order = "sequential" => RequestWith(d, h) = Asked(exchange, h)
    /\ h.method = "RESPONSE" <=> d = "out"

\* The next header is understood.
LEMMA HeaderUnderstood ==
    ASSUME NEW d \in Dirs, InStepNow, NEW h, Found(d, h)
    PROVE  Understood(d, h)
  <1> DEFINE x == exchange
             k == Begun(d)
             j == k + 1
             q == RequestWith(d, h)
  <1>1. TypeOK /\ Fixed /\ Conforming /\ x \in Exchanges /\ HeadComes
    BY DEF InStepNow, Fixed
  <1>2. /\ k \in Nat /\ j \in 1 .. Len(MessagesOf(x, d)) /\ h = MessagesOf(x, d)[j]
        /\ EndsOf[x][d][k] + 5 <= sent[d]
    BY DEF Found
  <1>3. /\ h.method = "RESPONSE" <=> d = "out"
        /\ Asked(x, h) = IF d = "out" THEN x.requests[j] ELSE NoHeader
    <2> HIDE DEF x, j
    <2> QED
      BY <1>1, <1>2, MessageOK
  <1>4. q \in Headers \cup {NoHeader}
    BY <1>1, StateOK DEF RequestWith, OKDir, StreamDir
  <1>5. CASE d = "in"
    <2>1. MessagesOf(x, d) = x.requests /\ ~stream[d].headerOnlyRequest
      BY <1>1, <1>5 DEF MessagesOf, HeadComes, Heads
    <2>2. j \in 1 .. Len(x.requests) /\ h = x.requests[j]
      BY <1>2, <2>1
    <2> HIDE DEF x, j
    <2>3. \A s : ~s.headerOnlyRequest => FramingOf(s, h) = Framing(x, h)
      BY <1>1, <2>2, FramingIn
    <2>4. q = Asked(x, h)
      BY <1>3, <1>5 DEF RequestWith
    <2> QED
      BY <1>3, <1>4, <2>1, <2>3, <2>4 DEF Understood, x
  <1>6. CASE d = "out"
    <2> DEFINE ki == Begun("in")
               uo == Used(stream["out"], sent["out"])
               hin == stream["in"].headerOnlyRequest
               hout == stream["out"].headerOnlyRequest
               o == sent["out"]
    <2>1. MessagesOf(x, d) = x.responses /\ MessagesOf(x, "in") = x.requests /\ "in" \in Dirs
      BY <1>6 DEF MessagesOf, Dirs
    <2>2. Turn(x, o, ki, k, uo) /\ Heads(x, hin, hout, ki, k)
      BY <1>1, <1>6, TurnNow DEF HeadComes
    <2>3. /\ Behind(x, "in", ki, Used(stream["in"], sent["in"]), sent["in"])
          /\ Placed(x, "in", stream["in"], ki, Used(stream["in"], sent["in"]))
      BY <2>1, BehindIs
    <2>4. ki \in 0 .. Len(x.requests)
      BY <2>1, <2>3 DEF Behind
    <2>5. k \in 0 .. Len(x.responses) /\ k + 1 <= Len(x.responses) /\ EndsOf[x]["out"][k] + 5 <= o
      <3>1. Len(MessagesOf(x, d)) \in Nat
        BY <1>1, CountOfMessages
      <3> QED
        BY <1>2, <1>6, <2>1, <3>1
    <2>6. j \in 1 .. Len(x.responses) /\ h = x.responses[j]
      BY <1>2, <2>1
    <2> HIDE DEF x, ki, uo, hin, hout, o
    <2>7. /\ hout <=> x.requests[k + 1].method = "HEAD"
          /\ x.order = "sequential" => ki = k + 1
      <3> HIDE DEF k
      <3> QED
        BY <1>1, <2>2, <2>4, <2>5, HeadOut
    <2>8. \A s : (s.headerOnlyRequest <=> x.requests[j].method = "HEAD") => FramingOf(s, h) = Framing(x, h)
      <3> HIDE DEF j
      <3> QED
        BY <1>1, <2>6, FramingOut
    <2>9. \A s : s.headerOnlyRequest = stream[d].headerOnlyRequest => FramingOf(s, h) = Framing(x, h)
      BY <1>6, <2>7, <2>8 DEF hout
    <2>10. ASSUME x.order = "sequential" PROVE q = Asked(x, h)
      <3>1. ki = j /\ j > 0
        BY <1>2, <2>7, <2>10
      <3>2. stream["in"].header = x.requests[j]
        BY <2>1, <2>3, <3>1 DEF Placed
      <3>3. Other(d) = "in"
        BY <1>6 DEF Other
      <3> QED
        BY <1>3, <1>6, <3>2, <3>3 DEF RequestWith
    <2> QED
      BY <1>3, <1>4, <2>9, <2>10 DEF Understood, x
  <1> QED
    BY <1>5, <1>6 DEF Dirs

\* What a good header does
TakesHeader(d, h) ==
    /\ KeptOthers(d)
    /\ stream'[Other(d)] = [stream[Other(d)] EXCEPT !.headerOnlyRequest = (h.method = "HEAD")]
    /\ stream'[d].headerOnlyRequest = FALSE
    /\ Begun(d)' = Begun(d) + 1

\* What it counts and tells of its own direction
HeaderTold(d, h) ==
    /\ Recounted(stats[Kind(d)], stats'[Kind(d)], 1, IF Framing(exchange, h) = "none" THEN 1 ELSE 0)
    /\ stats'[Kind(Other(d))] = stats[Kind(Other(d))] /\ log'[Other(d)] = log[Other(d)]
    /\ log'[d] = log[d] \o <<Note("header", RequestWith(d, h), h, 0)>>

\* The state of the direction as it goes on
Following(d, h, t) ==
    /\ AfterHeader(exchange, stream[d], t, h) /\ Takes(stream[d], t, 5) /\ t.headerOnlyRequest = FALSE
    /\ stream'[d] = t

\* What the decoder takes from the buffer is the header.
LEMMA UnzippingIs ==
    ASSUME NEW s \in StreamDir, HeaderEnd(s) = 5, NEW h, h = FirstCell(s).header, h.gzip \in BOOLEAN
    PROVE  LET r == Unzipping(s)
           IN  /\ r.header = h /\ r.unzip = h.gzip /\ r.isRequest = (h.method # "RESPONSE")
               /\ r.buffer = Rest(s.buffer, 5) /\ r.state = s.state
               /\ r.contentLength = s.contentLength /\ r.chunkLength = s.chunkLength
               /\ r.contentReceived = s.contentReceived /\ r.headerOnlyRequest = s.headerOnlyRequest
               /\ DOMAIN r = DOMAIN s
  BY DEF Unzipping, Parsed, Taken, StreamDir

\* A good header is taken with its framing.
LEMMA HeaderFollows ==
    ASSUME NEW d \in Dirs, InStepNow, GoodHeader(d), NEW h, Found(d, h), Understood(d, h)
    PROVE  /\ \E t : Following(d, h, t)
           /\ stream'[Other(d)] = [stream[Other(d)] EXCEPT !.headerOnlyRequest = (h.method = "HEAD")]
  <1> DEFINE s == stream[d]
             r == Unzipping(s)
             framing == FramingOf(r, r.header)
             t == [r EXCEPT !.headerOnlyRequest = FALSE,
                            !.state = StateAfter(framing),
                            !.contentLength = IF framing = "length" THEN r.header.length ELSE @]
  <1>1. s \in StreamDir /\ Other(d) \in Dirs /\ d # Other(d)
    BY StateOK DEF OKDir, InStepNow
  <1>2. HeaderEnd(s) = 5 /\ h = FirstCell(s).header /\ s.buffer \in Seq(Cell) /\ 5 \in 0 .. Len(s.buffer)
    BY DEF Found
  <1>3. h.gzip \in BOOLEAN
    <2>1. exchange \in Exchanges /\ Conforming
      BY DEF InStepNow, Fixed
    <2>2. Begun(d) + 1 \in 1 .. Len(MessagesOf(exchange, d)) /\ h = MessagesOf(exchange, d)[Begun(d) + 1]
      BY DEF Found
    <2> QED
      BY <2>1, <2>2, MessageOK
  <1>4. /\ r.header = h /\ r.unzip = h.gzip /\ r.isRequest = (h.method # "RESPONSE")
        /\ r.buffer = Rest(s.buffer, 5) /\ r.contentLength = s.contentLength
        /\ r.chunkLength = s.chunkLength /\ r.contentReceived = s.contentReceived
        /\ r.headerOnlyRequest = s.headerOnlyRequest
        /\ DOMAIN r = DOMAIN s
    <2> HIDE DEF s, r
    <2> QED
      BY <1>1, <1>2, <1>3, UnzippingIs DEF r
  <1>5. framing = Framing(exchange, h)
    <2> HIDE DEF r
    <2> QED
      BY <1>4 DEF Understood
  <1>6. stream' = [e \in Dirs |->
                IF e = d THEN t ELSE [stream[Other(d)] EXCEPT !.headerOnlyRequest = (r.header.method = "HEAD")]]
    BY DEF GoodHeader
  <1>7. stream'[d] = t /\ stream'[Other(d)] = [stream[Other(d)] EXCEPT !.headerOnlyRequest = (r.header.method = "HEAD")]
    <2> HIDE DEF t, r
    <2> QED
      BY <1>1, <1>6
  <1>8. DOMAIN s = DOMAIN NewStreamDir
    BY <1>1 DEF StreamDir, NewStreamDir
  <1>9. /\ t.header = h /\ t.unzip = h.gzip /\ t.isRequest = (h.method # "RESPONSE")
        /\ t.buffer = Rest(s.buffer, 5) /\ t.headerOnlyRequest = FALSE
        /\ t.state = StateAfter(framing)
        /\ t.contentLength = (IF framing = "length" THEN h.length ELSE s.contentLength)
        /\ t.chunkLength = s.chunkLength /\ t.contentReceived = s.contentReceived
    <2> HIDE DEF s, r, framing
    <2> QED
      BY <1>4, <1>8 DEF NewStreamDir
  <1> HIDE DEF t, framing
  <1>10. Following(d, h, t)
    BY <1>2, <1>5, <1>7, <1>9 DEF Following, AfterHeader, Takes
  <1> QED
    BY <1>4, <1>7, <1>10

\* It is counted and told once, with its framing and its request.
LEMMA HeaderCounted ==
    ASSUME NEW d \in Dirs, InStepNow, GoodHeader(d), NEW h, Found(d, h), Understood(d, h)
    PROVE  HeaderTold(d, h)
  <1> DEFINE s == stream[d]
             r == Unzipping(s)
             framing == Framing(exchange, h)
             more == CompressedCounter(h)
             cs == {"numHeaders"} \cup more \cup CountersFor(framing)
             c == stats[Kind(d)]
             event == Note("header", RequestWith(d, h), h, 0)
  <1>1. /\ TypeOK /\ s \in StreamDir /\ Other(d) \in Dirs /\ d # Other(d)
        /\ Kind(d) \in Kinds /\ Kind(Other(d)) \in Kinds /\ Kind(Other(d)) # Kind(d)
    BY StateOK DEF OKDir, InStepNow, Kind, Kinds, Other, Dirs
  <1>2. HeaderEnd(s) = 5 /\ h = FirstCell(s).header
    BY DEF Found
  <1>3. h.gzip \in BOOLEAN /\ h \in Headers /\ Asked(exchange, h) \in Headers \cup {NoHeader}
    <2>1. exchange \in Exchanges /\ Conforming
      BY DEF InStepNow, Fixed
    <2>2. Begun(d) + 1 \in 1 .. Len(MessagesOf(exchange, d)) /\ h = MessagesOf(exchange, d)[Begun(d) + 1]
      BY DEF Found
    <2> QED
      BY <2>1, <2>2, MessageOK
  <1>4. /\ r.header = h /\ r.isRequest = (h.method # "RESPONSE")
        /\ r.headerOnlyRequest = s.headerOnlyRequest
    <2> HIDE DEF s, r
    <2> QED
      BY <1>1, <1>2, <1>3, UnzippingIs DEF r
  <1>5. FramingOf(r, r.header) = framing
    <2> HIDE DEF r
    <2> QED
      BY <1>4 DEF Understood
  <1>6. KindOf(r) = Kind(d)
    BY <1>4 DEF Understood, KindOf, Kind, Dirs
  <1>7. stats' = Count(KindOf(r), {"numHeaders"} \cup CompressedCounter(r.header)
                                    \cup CountersFor(FramingOf(r, r.header)))
    BY DEF GoodHeader
  <1>8. Tell(d, <<Note("header", IF r.isRequest THEN NoHeader ELSE stream[Other(d)].header, r.header, 0)>>)
    BY DEF GoodHeader
  <1> HIDE DEF r, s
  <1>9. stats' = Count(Kind(d), cs)
    BY <1>4, <1>5, <1>6, <1>7
  <1>10. Tell(d, <<event>>)
    BY <1>4, <1>8 DEF RequestWith
  <1>11. Recounted(c, stats'[Kind(d)], 1, IF framing = "none" THEN 1 ELSE 0)
    <2>1. framing \in {"length", "chunked", "close", "none"}
      BY <1>3, BodyOK
    <2>2. more \subseteq {"numCompressed"}
      BY DEF CompressedCounter
    <2>3. c \in [Counters -> Nat]
      BY <1>1 DEF TypeOK
    <2> HIDE DEF cs
    <2>4. Counts(c, stats'[Kind(d)], cs)
      BY <1>1, <1>9, CountIs
    <2> HIDE DEF c, more, framing
    <2> QED
      BY <2>1, <2>2, <2>3, <2>4, HeaderCounts DEF cs
  <1>12. stats'[Kind(Other(d))] = stats[Kind(Other(d))]
    <2> HIDE DEF cs
    <2> QED
      BY <1>1, <1>9, CountIs
  <1>13. log'[Other(d)] = log[Other(d)] /\ log'[d] = log[d] \o <<event>>
    <2>1. log \in [Dirs -> Seq(Event)]
      BY <1>1 DEF TypeOK
    <2> HIDE DEF event
    <2> QED
      BY <1>1, <1>10, <2>1 DEF Tell
  <1> QED
    BY <1>11, <1>12, <1>13 DEF HeaderTold

\* A good header keeps what is right of its own direction.
LEMMA HeaderTakes ==
    ASSUME NEW d \in Dirs, Runs(d), GoodHeader(d), NEW h, Found(d, h), Understood(d, h)
    PROVE  TakesHeader(d, h)
  <1> DEFINE x == exchange
             s == stream[d]
             n == sent[d]
             c == stats[Kind(d)]
             c2 == stats'[Kind(d)]
             l == log[d]
             q == RequestWith(d, h)
  <1>1. InStepNow /\ phase = "open" /\ UNCHANGED <<exchange, sent>>
    BY DEF Runs
  <1>2. PICK t : Following(d, h, t)
    BY <1>1, HeaderFollows
  <1>3. stream'[Other(d)] = [stream[Other(d)] EXCEPT !.headerOnlyRequest = (h.method = "HEAD")]
    BY <1>1, HeaderFollows
  <1>4. HeaderTold(d, h)
    BY <1>1, HeaderCounted
  <1>5. /\ x \in Exchanges /\ OKDir(s) /\ n \in Nat /\ l \in Seq(Event) /\ c \in [Counters -> Nat] /\ Conforming
        /\ Right(x, d, s, n, c, l, FALSE)
    BY OwnIs DEF OwnRight
  <1>6. /\ s.state = "HEADER" /\ HasWork(s) /\ h = FirstCell(s).header /\ AfterHeader(x, s, t, h)
        /\ Takes(s, t, HeaderEnd(s))
    BY <1>2 DEF Following, Found
  <1>7. q \in Headers \cup {NoHeader} /\ (x.order = "sequential" => q = Asked(x, h))
    BY DEF Understood
  <1>8. Recounted(c, c2, 1, IF Framing(x, h) = "none" THEN 1 ELSE 0)
    BY <1>4 DEF HeaderTold
  <1>9. c2["numHeaders"] = c["numHeaders"] + 1
    BY <1>8 DEF Recounted
  <1>10. /\ stats'[Kind(Other(d))] = stats[Kind(Other(d))] /\ log'[Other(d)] = log[Other(d)]
         /\ log'[d] = l \o <<Note("header", q, h, 0)>>
    BY <1>4 DEF HeaderTold
  <1>11. Right(x, d, t, n, c2, l \o <<Note("header", q, h, 0)>>, FALSE)
    <2> HIDE DEF x, s, n, c, c2, l, q
    <2> QED
      BY <1>5, <1>6, <1>7, <1>8, HeaderRight
  <1>12. stream'[d] = t /\ t.headerOnlyRequest = FALSE
    BY <1>2 DEF Following
  <1>13. Right(x, d, stream'[d], n, c2, log'[d], FALSE)
    BY <1>10, <1>11, <1>12
  <1>14. UNCHANGED <<withZlib, phase>>
    BY DEF GoodHeader
  <1> QED
    BY <1>1, <1>3, <1>9, <1>10, <1>12, <1>13, <1>14 DEF TakesHeader, KeptOthers, Begun

\* Nothing that is right depends on headerOnlyRequest.
LEMMA RightSame ==
    ASSUME NEW x, NEW d, NEW s \in StreamDir, NEW flag \in BOOLEAN, NEW n, NEW c, NEW l, NEW closing,
           Right(x, d, s, n, c, l, closing),
           NEW t, t = [s EXCEPT !.headerOnlyRequest = flag]
    PROVE  Right(x, d, t, n, c, l, closing)
  <1>1. /\ t.buffer = s.buffer /\ t.header = s.header /\ t.state = s.state /\ t.unzip = s.unzip
        /\ t.isRequest = s.isRequest /\ t.contentLength = s.contentLength
        /\ t.chunkLength = s.chunkLength /\ t.contentReceived = s.contentReceived
    BY DEF StreamDir
  <1>2. Used(t, n) = Used(s, n) /\ Pending(t) = Pending(s)
    BY <1>1 DEF Used, Pending
  <1> DEFINE k == c["numHeaders"]
             u == Used(s, n)
  <1>3. Buffered(x, d, s, n) /\ Placed(x, d, s, k, u) /\ Told(x, d, s, u, l) /\ Counted(x, d, s, k, c, l, closing)
    BY DEF Right
  <1>4. Buffered(x, d, t, n)
    BY <1>1, <1>2, <1>3 DEF Buffered
  <1>5. Placed(x, d, t, k, u)
    <2> HIDE DEF k, u
    <2>1. InMessage(x, d, s, k, u) <=> InMessage(x, d, t, k, u)
      BY <1>1 DEF InMessage, InChunk
    <2> QED
      BY <1>1, <1>3, <2>1 DEF Placed
  <1>6. Told(x, d, t, u, l)
    BY <1>2, <1>3 DEF Told
  <1>7. Counted(x, d, t, k, c, l, closing)
    BY <1>1, <1>3 DEF Counted, IsOver
  <1> QED
    BY <1>2, <1>4, <1>5, <1>6, <1>7 DEF Right

\* Where requests and responses are with the next header
HeaderInTurn(d, h) ==
    LET x == exchange
        ki == Begun("in")
        ko == Begun("out")
        in == IF d = "in" THEN ki + 1 ELSE ki
        out == IF d = "out" THEN ko + 1 ELSE ko
        uo == Used(stream'["out"], sent["out"])
    IN  /\ InOrder(x, sent["in"], sent["out"], in, out, uo)
        /\ Heads(x, FALSE, d = "in" /\ h.method = "HEAD", in, out)

\* The next header comes when it is due.
LEMMA HeaderInTurnIs ==
    ASSUME NEW d \in Dirs, InStepNow, NEW h, Found(d, h),
           d = "in" => Used(stream'["out"], sent["out"]) = Used(stream["out"], sent["out"])
    PROVE  HeaderInTurn(d, h)
  <1> DEFINE x == exchange
             i == sent["in"]
             o == sent["out"]
             ki == Begun("in")
             ko == Begun("out")
             uo == Used(stream["out"], sent["out"])
             vo == Used(stream'["out"], sent["out"])
  <1>1. /\ Conforming /\ x \in Exchanges /\ "in" \in Dirs /\ "out" \in Dirs
        /\ MessagesOf(x, "in") = x.requests /\ MessagesOf(x, "out") = x.responses
    BY DEF InStepNow, Fixed, Dirs, MessagesOf
  <1>2. /\ Behind(x, "in", ki, Used(stream["in"], sent["in"]), i)
        /\ Behind(x, "out", ko, uo, o)
    BY <1>1, BehindIs
  <1>3. InOrder(x, i, o, ki, ko, uo)
    BY DEF InStepNow, InTurn
  <1>4. Turn(x, o, ki, ko, uo)
    BY TurnNow
  <1>5. /\ ki \in 0 .. Len(x.requests) /\ ko \in 0 .. Len(x.responses) /\ ki \in Nat /\ ko \in Nat
        /\ i \in Nat /\ o \in Nat /\ Len(x.requests) \in Nat /\ Len(x.responses) \in Nat
    <2>1. Len(x.requests) \in Nat /\ Len(x.responses) \in Nat
      BY <1>1, CountOfMessages
    <2> QED
      BY <1>1, <1>2, <2>1 DEF Behind
  <1>6. Begun(d) + 1 \in 1 .. Len(MessagesOf(x, d)) /\ h = MessagesOf(x, d)[Begun(d) + 1]
    BY DEF Found
  <1>7. CASE d = "in"
    <2>1. ki + 1 <= Len(x.requests) /\ h = x.requests[ki + 1]
      BY <1>1, <1>5, <1>6, <1>7
    <2>2. vo = uo
      BY <1>7
    <2> HIDE DEF x, i, o, ki, ko, uo, vo
    <2>3. InOrder(x, i, o, ki + 1, ko, uo)
      BY <1>1, <1>3, <1>5, OrderRequest
    <2>4. Heads(x, FALSE, x.requests[ki + 1].method = "HEAD", ki + 1, ko)
      BY <1>1, <1>4, <1>5, <2>1, HeadsRequest
    <2>5. Heads(x, FALSE, d = "in" /\ h.method = "HEAD", ki + 1, ko)
      BY <1>7, <2>1, <2>4 DEF Heads
    <2> QED
      BY <1>7, <2>2, <2>3, <2>5 DEF HeaderInTurn, x, i, o, ki, ko, vo
  <1>8. CASE d = "out"
    <2>1. ko + 1 <= Len(x.responses)
      BY <1>1, <1>5, <1>6, <1>8
    <2> HIDE DEF x, i, o, ki, ko, uo, vo
    <2>2. InOrder(x, i, o, ki, ko + 1, vo)
      BY <1>1, <1>3, <1>5, <2>1, OrderResponse
    <2>3. Heads(x, FALSE, FALSE, ki, ko + 1)
      BY <1>1, <1>4, <1>5, HeadsResponse
    <2>4. Heads(x, FALSE, d = "in" /\ h.method = "HEAD", ki, ko + 1)
      BY <1>8, <2>3 DEF Heads
    <2> QED
      BY <1>8, <2>2, <2>4 DEF HeaderInTurn, x, i, o, ki, ko, vo
  <1> QED
    BY <1>7, <1>8 DEF Dirs

\* A good header keeps the decoder in step.
LEMMA GoodHeaderKeeps ==
    ASSUME NEW d \in Dirs, Runs(d), GoodHeader(d), TypeOK', CorruptedTogether'
    PROVE  InStepNow'
  <1> DEFINE h == FirstCell(stream[d]).header
             e == Other(d)
             x == exchange
  <1>1. InStepNow /\ phase = "open" /\ TypeOK
    BY DEF Runs, InStepNow
  <1>2. Works(d, "HEADER")
    BY DEF GoodHeader, IsGoodHeader
  <1>3. Found(d, h)
    BY <1>1, <1>2, HeaderFound
  <1> HIDE DEF h
  <1>4. Understood(d, h)
    BY <1>1, <1>3, HeaderUnderstood
  <1>5. TakesHeader(d, h)
    BY <1>3, <1>4, HeaderTakes
  <1>6. /\ exchange' = exchange /\ sent' = sent /\ withZlib' = withZlib /\ phase' = phase
        /\ stats'[Kind(e)] = stats[Kind(e)] /\ log'[e] = log[e]
        /\ Right(exchange, d, stream'[d], sent[d], stats'[Kind(d)], log'[d], FALSE)
        /\ stream'[e] = [stream[e] EXCEPT !.headerOnlyRequest = (h.method = "HEAD")]
        /\ stream'[d].headerOnlyRequest = FALSE
        /\ Begun(d)' = Begun(d) + 1
    BY <1>5 DEF TakesHeader, KeptOthers
  <1>7. Fixed' /\ Conforming
    BY <1>1, <1>6 DEF InStepNow, Fixed
  <1>8. RightOf(d)'
    <2>1. (phase' # "open") = FALSE
      BY <1>1, <1>6
    <2> QED
      BY <1>6, <2>1 DEF RightOf
  <1>9. e \in Dirs /\ e # d /\ stream[e] \in StreamDir
    BY <1>1, StateOK DEF TypeOK
  <1>10. RightOf(e)'
    <2>1. Right(exchange, e, stream[e], sent[e], stats[Kind(e)], log[e], FALSE)
      BY <1>1, <1>9, OpenIs
    <2>2. (h.method = "HEAD") \in BOOLEAN
      OBVIOUS
    <2> HIDE DEF e
    <2>3. Right(exchange, e, stream'[e], sent[e], stats[Kind(e)], log[e], FALSE)
      BY <1>6, <1>9, <2>1, <2>2, RightSame
    <2>4. (phase' # "open") = FALSE
      BY <1>1, <1>6
    <2> QED
      BY <1>6, <2>3, <2>4 DEF RightOf
  <1>11. \A b \in Dirs : b = d \/ b = e
    BY DEF Dirs, Other
  <1>12. \A b \in Dirs : RightOf(b)'
    BY <1>8, <1>10, <1>11
  <1>13. stream'[e].buffer = stream[e].buffer /\ stream'[e].headerOnlyRequest = (h.method = "HEAD")
    <2> HIDE DEF e
    <2> QED
      BY <1>6, <1>9 DEF StreamDir
  <1>14. Begun(e)' = Begun(e)
    BY <1>6 DEF Begun
  <1>15. HeaderInTurn(d, h)
    <2>1. ASSUME d = "in" PROVE Used(stream'["out"], sent["out"]) = Used(stream["out"], sent["out"])
      <3>1. e = "out"
        BY <2>1 DEF Other
      <3> QED
        BY <1>13, <3>1 DEF Used
    <2> QED
      BY <1>1, <1>3, <2>1, HeaderInTurnIs
  <1>16. InTurn' /\ HeadComes'
    <2>1. h.method = "RESPONSE" <=> d = "out"
      BY <1>4 DEF Understood
    <2>2. CASE d = "in"
      <3>1. e = "out"
        BY <2>2 DEF Other
      <3> DEFINE ki == Begun("in")
                 ko == Begun("out")
      <3>2. /\ Begun("in")' = ki + 1 /\ Begun("out")' = ko
            /\ stream'["in"].headerOnlyRequest = FALSE
            /\ stream'["out"].headerOnlyRequest = (h.method = "HEAD")
        BY <1>6, <1>13, <1>14, <2>2, <3>1
      <3>3. /\ InOrder(exchange, sent["in"], sent["out"], ki + 1, ko, Used(stream'["out"], sent["out"]))
            /\ Heads(exchange, FALSE, h.method = "HEAD", ki + 1, ko)
        BY <1>15, <2>2 DEF HeaderInTurn, Heads
      <3>4. InTurn'
        BY <1>6, <3>2, <3>3 DEF InTurn
      <3>5. HeadComes'
        BY <1>6, <3>2, <3>3 DEF HeadComes, Heads
      <3> QED
        BY <3>4, <3>5
    <2>3. CASE d = "out"
      <3>1. e = "in"
        BY <2>3 DEF Other
      <3> DEFINE ki == Begun("in")
                 ko == Begun("out")
      <3>2. /\ Begun("in")' = ki /\ Begun("out")' = ko + 1
            /\ stream'["in"].headerOnlyRequest = FALSE
            /\ stream'["out"].headerOnlyRequest = FALSE
        BY <1>6, <1>13, <1>14, <2>1, <2>3, <3>1
      <3>3. /\ InOrder(exchange, sent["in"], sent["out"], ki, ko + 1, Used(stream'["out"], sent["out"]))
            /\ Heads(exchange, FALSE, FALSE, ki, ko + 1)
        BY <1>15, <2>3 DEF HeaderInTurn, Heads
      <3>4. InTurn'
        BY <1>6, <3>2, <3>3 DEF InTurn
      <3>5. HeadComes'
        BY <1>6, <3>2, <3>3 DEF HeadComes, Heads
      <3> QED
        BY <3>4, <3>5
    <2> QED
      BY <2>2, <2>3 DEF Dirs
  <1> QED
    BY <1>7, <1>12, <1>16 DEF InStepNow

\* The sections that give the connection up
GivesUp(d) == StrangeHeader(d) \/ BogusHeader(d) \/ UnsupportedHeader(d) \/ OrphanResponse(d)

\* They leave both directions corrupted, and what was told as it was.
LEMMA GivesUpIs ==
    ASSUME NEW d \in Dirs, TypeOK, GivesUp(d)
    PROVE  IsCorrupted' /\ log' = log /\ Works(d, "HEADER")
  <1>1. log' = log /\ Works(d, "HEADER")
    BY DEF GivesUp, StrangeHeader, BogusHeader, UnsupportedHeader, OrphanResponse, IsGoodHeader
  <1>2. PICK s \in StreamDir : Corrupt(d, s)
    <2>1. CASE StrangeHeader(d)
      BY <2>1, StateOK DEF StrangeHeader, OKDir
    <2>2. CASE BogusHeader(d)
      BY <1>1, <2>2, HeaderTaken DEF BogusHeader
    <2>3. CASE UnsupportedHeader(d)
      BY <1>1, <2>3, HeaderTaken DEF UnsupportedHeader
    <2>4. CASE OrphanResponse(d)
      BY <2>4, HeaderGood DEF OrphanResponse
    <2> QED
      BY <2>1, <2>2, <2>3, <2>4 DEF GivesUp
  <1>3. stream'["in"].state = "CORRUPTED"
    BY <1>2, CorruptOK DEF Dirs
  <1> QED
    BY <1>1, <1>3 DEF IsCorrupted

\* Each section that goes on keeps the decoder in step.
LEMMA SectionKeeps ==
    ASSUME NEW d \in Dirs, Runs(d), Section(d), TypeOK', CorruptedTogether', ~GivesUp(d)
    PROVE  InStepNow'
  <1>1. InStepNow /\ phase = "open" /\ TypeOK
    BY DEF Runs, InStepNow
  <1>3. CASE GoodHeader(d)
    BY <1>3, GoodHeaderKeeps
  <1>4. CASE ~GoodHeader(d)
    <2>1. UnknownContent(d) \/ ChunkSize(d) \/ Content(d) \/ ChunkData(d) \/ ChunkEnd(d)
      BY <1>4 DEF Section, GivesUp
    <2>2. Kept(d)
      BY <2>1, UnknownKept, ChunkSizeKept, ContentKept, ChunkDataKept, ChunkEndKept
    <2> QED
      BY <1>1, <2>2, KeptIs
  <1> QED
    BY <1>3, <1>4

-----------------------------------------------------------------------------
(* What was told *)

\* What begins a sequence looks as the beginning of it.
LEMMA SeenBegins ==
    ASSUME NEW x, NEW l \in Seq(Event), NEW m \in Seq(Event), Begins(l, m)
    PROVE  /\ Seen(x, l) \in Seq(Event) /\ Seen(x, m) \in Seq(Event)
           /\ Begins(Seen(x, l), Seen(x, m))
  <1>1. /\ Seen(x, l) \in Seq(Event) /\ Len(Seen(x, l)) = Len(l) /\ Len(l) \in Nat
        /\ Seen(x, m) \in Seq(Event) /\ Len(Seen(x, m)) = Len(m) /\ Len(m) \in Nat
    BY SeenIs
  <1>2. Len(l) <= Len(m) /\ \A i \in 1 .. Len(l) : l[i] = m[i]
    BY DEF Begins
  <1>3. ASSUME NEW i \in 1 .. Len(l) PROVE Seen(x, l)[i] = Seen(x, m)[i]
    <2>1. i \in 1 .. Len(m)
      BY <1>1, <1>2
    <2>2. Seen(x, l)[i] = SeenAs(x, l[i]) /\ Seen(x, m)[i] = SeenAs(x, m[i])
      BY <2>1, SeenIs
    <2> QED
      BY <1>2, <2>2
  <1> QED
    BY <1>1, <1>2, <1>3 DEF Begins

\* What is told begins what is due.
LEMMA ToldIs ==
    ASSUME InStepNow, NEW d \in Dirs
    PROVE  /\ sent[d] \in 0 .. Len(Wires[exchange][d])
           /\ Begins(Seen(exchange, log[d]), Seen(exchange, DueWith[exchange][d][sent[d]]))
  <1> DEFINE x == exchange
             s == stream[d]
             n == sent[d]
             u == Used(s, n)
             l == log[d]
             p == Pending(s)
             a == DueWith[x][d][u]
             b == DueWith[x][d][n]
  <1>1. /\ x \in Exchanges /\ OKDir(s) /\ n \in Nat /\ l \in Seq(Event) /\ Conforming
    BY DirectionIs DEF InStepNow
  <1>2. Buffered(x, d, s, n) /\ Placed(x, d, s, Begun(d), u) /\ Told(x, d, s, u, l)
    BY DEF InStepNow, RightOf, Right, Begun
  <1>3. Behind(x, d, Begun(d), u, n)
    BY BehindIs
  <1>4. n \in 0 .. Len(Wires[x][d]) /\ u \in 0 .. n
    <2>1. n <= Len(Wires[x][d]) /\ u \in Nat /\ u <= n
      BY <1>2, <1>3 DEF Buffered, Behind
    <2> QED
      BY <1>1, <2>1
  <1> HIDE DEF u
  <1>5. a \in Seq(Event) /\ b \in Seq(Event) /\ Begins(a, b)
    <2>1. Len(Wires[x][d]) \in Nat
      BY <1>1, DueIs
    <2>2. u \in 0 .. Len(Wires[x][d])
      BY <1>1, <1>4, <2>1
    <2> HIDE DEF x, n
    <2> QED
      BY <1>1, <1>4, <2>2, DueIs
  <1>6. p \in Seq(Event)
    <2>1. CASE s.state = "CONTENT" /\ s.contentLength = 0
      <3>1. s.header \in Headers
        BY <1>1, <2>1 DEF OKDir, StreamDir, CountersFit
      <3>2. Finished(s.header) \in Event
        BY <3>1 DEF Finished, Note, Event
      <3> QED
        BY <2>1, <3>2 DEF Pending
    <2>2. CASE ~(s.state = "CONTENT" /\ s.contentLength = 0)
      BY <2>2 DEF Pending
    <2> QED
      BY <2>1, <2>2
  <1>7. Seen(x, l \o p) = Seen(x, a)
    BY <1>2 DEF Told
  <1> HIDE DEF x, s, n, l, p, a, b
  <1>8. Seen(x, l) \in Seq(Event) /\ Seen(x, p) \in Seq(Event) /\ Seen(x, l \o p) = Seen(x, l) \o Seen(x, p)
    BY <1>1, <1>6, SeenIs, SeenConcat
  <1>9. Begins(Seen(x, l), Seen(x, l) \o Seen(x, p))
    <2>1. Begins(Seen(x, p), Seen(x, p))
      BY DEF Begins
    <2> QED
      BY <1>8, <2>1, BeginsConcat
  <1>10. Seen(x, a) \in Seq(Event) /\ Seen(x, b) \in Seq(Event) /\ Begins(Seen(x, a), Seen(x, b))
    BY <1>5, SeenBegins
  <1>11. Begins(Seen(x, l), Seen(x, a))
    BY <1>7, <1>8, <1>9
  <1>12. Begins(Seen(x, l), Seen(x, b))
    BY <1>8, <1>10, <1>11, BeginsOn
  <1> QED
    BY <1>4, <1>12 DEF x, l, n, b

\* Before the first message of a direction nothing is told.
LEMMA NothingTold ==
    ASSUME InStepNow, NEW d \in Dirs, Begun(d) = 0
    PROVE  log[d] = <<>>
  <1> DEFINE x == exchange
             s == stream[d]
             l == log[d]
             u == Used(s, sent[d])
  <1>1. /\ x \in Exchanges /\ l \in Seq(Event) /\ Conforming /\ Len(l) \in Nat
    BY DirectionIs, LenProperties DEF InStepNow
  <1>2. Placed(x, d, s, 0, u) /\ Told(x, d, s, u, l)
    BY DEF InStepNow, RightOf, Right, Begun
  <1>3. u = 0 /\ s.state = "HEADER"
    BY <1>2 DEF Placed
  <1>4. Pending(s) = <<>> /\ DueWith[x][d][0] = <<>>
    <2>1. DueWith[x][d][0] = <<>>
      BY <1>1, DueIs
    <2> QED
      BY <1>3, <2>1 DEF Pending
  <1>5. Seen(x, l \o <<>>) = Seen(x, <<>>)
    BY <1>2, <1>3, <1>4 DEF Told
  <1> HIDE DEF x, s, l, u
  <1>6. l \o <<>> = l /\ <<>> \in Seq(Event) /\ Len(<<>>) = 0
    BY <1>1, ConcatProperties
  <1>7. Len(Seen(x, l)) = Len(l)
    BY <1>1, SeenIs
  <1>8. Len(Seen(x, <<>>)) = 0
    <2>1. \A e \in Seq(Event) : Len(Seen(x, e)) = Len(e)
      BY SeenIs
    <2> QED
      BY <1>6, <2>1
  <1>9. Len(l) = 0
    BY <1>5, <1>6, <1>7, <1>8
  <1> QED
    BY <1>1, <1>9, EmptySeq DEF l

\* A response that no request precedes was seen early.
LEMMA OrphanIs ==
    ASSUME InStepNow, NEW h, Found("out", h), stream["in"].header = NoHeader
    PROVE  exchange.order = "any" /\ log["in"] = <<>>
  <1> DEFINE x == exchange
             ki == Begun("in")
             ko == Begun("out")
             E == EndsOf[x]["out"]
             o == sent["out"]
  <1>1. /\ Conforming /\ x \in Exchanges /\ "in" \in Dirs /\ "out" \in Dirs
        /\ MessagesOf(x, "in") = x.requests /\ MessagesOf(x, "out") = x.responses
    BY DEF InStepNow, Fixed, Dirs, MessagesOf
  <1>2. Begun("in") = 0
    <2>1. Placed(x, "in", stream["in"], ki, Used(stream["in"], sent["in"])) /\ ki \in Nat
      BY <1>1, BehindIs, DirectionIs DEF InStepNow
    <2>2. ASSUME ki > 0 PROVE FALSE
      <3>1. ki \in 1 .. Len(MessagesOf(x, "in")) /\ stream["in"].header = MessagesOf(x, "in")[ki]
        BY <2>1, <2>2 DEF Placed
      <3>2. MessagesOf(x, "in")[ki] # NoHeader
        <4> HIDE DEF x, ki
        <4> QED
          BY <1>1, <3>1, MessageOK
      <3> QED
        BY <3>1, <3>2
    <2> QED
      BY <2>1, <2>2
  <1>3. log["in"] = <<>>
    BY <1>1, <1>2, NothingTold
  <1>4. ASSUME x.order # "any" PROVE FALSE
    <2>1. o <= E[Lesser(0, Len(x.responses))]
      BY <1>2, <1>4 DEF InStepNow, InTurn, InOrder
    <2>2. ko \in Nat /\ ko + 1 \in 1 .. Len(x.responses) /\ E[ko] \in Nat /\ E[ko] + 5 <= o
      BY <1>1 DEF Found
    <2>3. Len(x.responses) \in Nat /\ E[0] = 0
      BY <1>1, CountOfMessages, EndsAre
    <2>4. Lesser(0, Len(x.responses)) = 0
      BY <2>2, <2>3 DEF Lesser
    <2>5. o \in Nat
      BY <1>1 DEF InStepNow, Fixed
    <2> HIDE DEF E, o, ko
    <2> QED
      BY <2>1, <2>2, <2>3, <2>4, <2>5
  <1> QED
    BY <1>3, <1>4

\* A connection is given up for what comes next.
LEMMA ReasonIs ==
    ASSUME InStepNow, NEW d \in Dirs, GivesUp(d), exchange' = exchange
    PROVE  GivenUpForAReason'
  <1> DEFINE h == FirstCell(stream[d]).header
             j == Begun(d) + 1
  <1>1. TypeOK /\ Conforming /\ exchange \in Exchanges
    BY DEF InStepNow, Fixed
  <1>2. log' = log /\ Works(d, "HEADER") /\ withZlib' = withZlib
    BY <1>1, GivesUpIs DEF GivesUp, StrangeHeader, BogusHeader, UnsupportedHeader, OrphanResponse
  <1>3. Found(d, h)
    BY <1>2, HeaderFound
  <1>4. FirstCell(stream[d]).kind = "head" /\ j \in 1 .. Len(Messages(d)) /\ h = Messages(d)[j]
    BY <1>3 DEF Found, Messages
  <1>5. j \in DOMAIN Messages(d)
    BY <1>1, <1>4, CountOfMessages, LenProperties DEF Messages
  <1>6. ASSUME h.strange \/ h.method = "BOGUS" \/ (h.gzip /\ ~withZlib)
        PROVE  GivenUpForAReason'
    <2>1. \E e \in Dirs : \E k \in DOMAIN Messages(e) :
             LET g == Messages(e)[k] IN g.strange \/ g.method = "BOGUS" \/ (g.gzip /\ ~withZlib)
      BY <1>4, <1>5, <1>6
    <2>2. \A e : Messages(e)' = Messages(e)
      BY DEF Messages
    <2> QED
      BY <1>2, <2>1, <2>2 DEF GivenUpForAReason
  <1>7. CASE StrangeHeader(d)
    BY <1>4, <1>6, <1>7 DEF StrangeHeader
  <1>8. CASE BogusHeader(d)
    BY <1>4, <1>6, <1>8 DEF BogusHeader
  <1>9. CASE UnsupportedHeader(d)
    BY <1>6, <1>9 DEF UnsupportedHeader
  <1>10. CASE OrphanResponse(d)
    <2>1. h.method = "RESPONSE" /\ stream[Other(d)].header = NoHeader
      BY <1>10 DEF OrphanResponse
    <2>2. Understood(d, h)
      <3> HIDE DEF h
      <3> QED
        BY <1>3, HeaderUnderstood
    <2>3. d = "out" /\ Other(d) = "in"
      BY <2>1, <2>2 DEF Understood, Other
    <2>4. exchange.order = "any" /\ log["in"] = <<>>
      <3> HIDE DEF h
      <3> QED
        BY <1>3, <2>1, <2>3, OrphanIs
    <2> QED
      BY <1>2, <2>4 DEF GivenUpForAReason
  <1> QED
    BY <1>7, <1>8, <1>9, <1>10 DEF GivesUp

-----------------------------------------------------------------------------
(* Between handlers *)

\* Nothing that came is left to do, and what is complete is known.
AtRest(d) ==
    /\ Waits(exchange, d, stream[d], Begun(d), Used(stream[d], sent[d]), sent[d])
    /\ Completed(exchange, d, Begun(d), Used(stream[d], sent[d]), sent[d])

\* Between handlers every direction is at rest.
LEMMA Resting ==
    ASSUME InStepNow, Idle, loop = <<>>, NEW d \in Dirs
    PROVE  AtRest(d)
  <1> DEFINE x == exchange
             s == stream[d]
             n == sent[d]
             k == Begun(d)
             u == Used(s, n)
  <1>1. ~HasWork(s)
    BY DEF Idle
  <1>2. OKDir(s) /\ x \in Exchanges /\ n \in Nat /\ Conforming
    BY DirectionIs DEF InStepNow
  <1>3. Buffered(x, d, s, n) /\ Placed(x, d, s, k, Used(s, n)) /\ Behind(x, d, k, Used(s, n), n)
    BY BehindIs
  <1> HIDE DEF x, s, n, k
  <1>4. Waits(x, d, s, k, u, n)
    BY <1>1, <1>2, <1>3, IdleIs
  <1>5. u <= EndsOf[x][d][k] /\ (s.state = "HEADER" => u = EndsOf[x][d][k])
    BY <1>2, <1>3, PlacedIs
  <1>6. k = 0 => u = EndsOf[x][d][k]
    BY <1>3, <1>5 DEF Placed
  <1> HIDE DEF u
  <1>7. Behind(x, d, k, u, n)
    BY <1>3 DEF u
  <1>8. Completed(x, d, k, u, n)
    BY <1>2, <1>4, <1>5, <1>6, <1>7, CompleteIs
  <1> QED
    BY <1>4, <1>8 DEF AtRest, x, s, n, k, u

\* What is complete of a direction, in terms of what has begun
LEMMA CompleteNow ==
    ASSUME InStepNow, NEW d \in Dirs, AtRest(d)
    PROVE  Complete(d) = IF Used(stream[d], sent[d]) < EndsOf[exchange][d][Begun(d)] THEN Begun(d) - 1 ELSE Begun(d)
  BY DEF AtRest, Completed, CompleteOf, Complete, Ends

-----------------------------------------------------------------------------
(* What is captured *)

\* Some cells of direction d are captured, up to the n-th.
Captures(d, n, cells) ==
    /\ n \in Nat /\ sent[d] < n /\ n <= Len(Wires[exchange][d]) /\ n <= Limit(d)
    /\ cells \in Seq(Cell) /\ Len(cells) = n - sent[d]
    /\ \A i \in 1 .. n - sent[d] : cells[i] = Wires[exchange][d][sent[d] + i].cell
    /\ OnData(d, cells)
    /\ sent' = [sent EXCEPT ![d] = n] /\ exchange' = exchange

\* What Capture() does
LEMMA CaptureIs ==
    ASSUME Fixed, Conforming, NEW d \in Dirs, Capture(d)
    PROVE  \E n, cells : Captures(d, n, cells)
  <1> DEFINE x == exchange
             W == Wires[x][d]
             K == Len(MessagesOf(x, d))
             E == EndsOf[x][d]
  <1>1. x \in Exchanges /\ sent[d] \in Nat
    BY DEF Fixed
  <1>2. /\ W \in Seq(WireCell) /\ Len(W) \in Nat /\ DOMAIN E = 0 .. K /\ K \in Nat
        /\ \A k \in 0 .. K : E[k] \in Nat /\ E[k] <= Len(W)
    <2>1. W \in Seq(WireCell) /\ Len(W) \in Nat
      BY <1>1, EndsAre
    <2>2. DOMAIN E = 0 .. K /\ K \in Nat
      BY <1>1, EndsAre, CountOfMessages
    <2>3. \A k \in 0 .. K : E[k] \in Nat /\ E[k] <= Len(W)
      BY <1>1, EndsAre
    <2> QED
      BY <2>1, <2>2, <2>3
  <1>3. Limit(d) \in Nat /\ Limit(d) <= Len(W)
    <2>1. Wire(d) = W /\ Ends(d) = E /\ Len(Messages(d)) = K
      BY DEF Wire, Ends, Messages
    <2>2. K \in DOMAIN E
      BY <1>2
    <2>3. Limit(d) = Len(W) \/ \E k \in DOMAIN E : Limit(d) = E[k]
      <3> HIDE DEF W, E, K
      <3> QED
        BY <2>1, <2>2 DEF Limit
    <2> HIDE DEF W, E, K
    <2> QED
      BY <1>2, <2>3
  <1>4. PICK n \in sent[d] + 1 .. Limit(d) :
            /\ OnData(d, [i \in 1 .. n - sent[d] |-> W[sent[d] + i].cell])
            /\ sent' = [sent EXCEPT ![d] = n]
            /\ exchange' = exchange
    BY DEF Capture, Wire
  <1> DEFINE m == n - sent[d]
             cells == [i \in 1 .. m |-> W[sent[d] + i].cell]
  <1>5. n \in Nat /\ sent[d] < n /\ n <= Len(W) /\ n <= Limit(d) /\ m \in Nat
    <2> HIDE DEF W
    <2> QED
      BY <1>1, <1>2, <1>3
  <1>6. ASSUME NEW i \in 1 .. m PROVE W[sent[d] + i].cell \in Cell
    <2>1. sent[d] + i \in 1 .. Len(W)
      <3> HIDE DEF W
      <3> QED
        BY <1>1, <1>2, <1>5
    <2>2. W[sent[d] + i] \in WireCell
      <3> HIDE DEF W
      <3> QED
        BY <1>2, <2>1, ElementOfSeq
    <2> QED
      BY <2>2 DEF WireCell
  <1>7. cells \in [1 .. m -> Cell] /\ \A i \in 1 .. m : cells[i] = W[sent[d] + i].cell
    BY <1>6
  <1>8. OnData(d, cells)
    BY <1>4
  <1> HIDE DEF cells, m, W
  <1>9. cells \in Seq(Cell) /\ Len(cells) = m
    BY <1>5, <1>7, FunctionIsSeq
  <1>10. Captures(d, n, cells)
    BY <1>4, <1>5, <1>7, <1>8, <1>9 DEF Captures, m, W
  <1> QED
    BY <1>10

\* What was told begins all that is due later on.
LEMMA ToldLater ==
    ASSUME Fixed, Conforming, ToldRight, TypeOK, NEW d \in Dirs, NEW n \in sent[d] .. Len(Wires[exchange][d])
    PROVE  Begins(Seen(exchange, log[d]), Seen(exchange, DueWith[exchange][d][n]))
  <1> DEFINE x == exchange
             m == sent[d]
             l == log[d]
             a == DueWith[x][d][m]
             b == DueWith[x][d][n]
             W == Len(Wires[x][d])
  <1>1. x \in Exchanges /\ m \in 0 .. W /\ m \in Nat /\ l \in Seq(Event) /\ Begins(Seen(x, l), Seen(x, a))
    BY DEF Fixed, ToldRight, TypeOK
  <1>2. W \in Nat
    BY <1>1, DueIs
  <1>3. n \in 0 .. W /\ m \in 0 .. n
    <2> HIDE DEF W, m
    <2>1. n \in m .. W
      BY DEF W, m
    <2> QED
      BY <1>1, <1>2, <2>1
  <1>4. a \in Seq(Event) /\ b \in Seq(Event) /\ Begins(a, b)
    <2> HIDE DEF x, m
    <2> QED
      BY <1>1, <1>3, DueIs
  <1> HIDE DEF x, l, a, b
  <1>5. Seen(x, a) \in Seq(Event) /\ Seen(x, b) \in Seq(Event) /\ Begins(Seen(x, a), Seen(x, b))
    BY <1>4, SeenBegins
  <1>6. Seen(x, l) \in Seq(Event)
    BY <1>1, SeenIs
  <1>7. Begins(Seen(x, l), Seen(x, a))
    BY <1>1
  <1>8. Begins(Seen(x, l), Seen(x, b))
    BY <1>5, <1>6, <1>7, BeginsOn
  <1> QED
    BY <1>8 DEF x, l, b

\* The cells that follow in direction d, up to the n-th
Follow(x, d, m, n, cells) ==
    /\ m <= n /\ n <= Len(Wires[x][d]) /\ cells \in Seq(Cell) /\ Len(cells) = n - m
    /\ \A i \in 1 .. n - m : cells[i] = Wires[x][d][m + i].cell

\* What is captured only makes the buffer longer.
Longer(x, d, s, t, m, n) == Buffered(x, d, t, n) /\ Used(t, n) = Used(s, m)

\* A longer buffer is still what was captured.
LEMMA LongerIs ==
    ASSUME NEW x, NEW d, NEW s \in StreamDir, NEW m \in Nat, NEW n \in Nat, NEW cells,
           Follow(x, d, m, n, cells), Buffered(x, d, s, m), NEW t, t.buffer = s.buffer \o cells
    PROVE  Longer(x, d, s, t, m, n)
  <1> DEFINE b == s.buffer
             u == Used(s, m)
             r == b \o cells
  <1>1. b \in Seq(Cell) /\ cells \in Seq(Cell) /\ Len(b) \in Nat
    BY LenProperties DEF StreamDir, Follow
  <1>2. /\ m <= n /\ n <= Len(Wires[x][d]) /\ Len(cells) = n - m
        /\ \A i \in 1 .. n - m : cells[i] = Wires[x][d][m + i].cell
    BY DEF Follow
  <1>3. Len(b) <= m /\ \A i \in 1 .. Len(b) : b[i] = Wires[x][d][u + i].cell
    BY DEF Buffered
  <1>4. u = m - Len(b)
    BY DEF Used
  <1> HIDE DEF b, u
  <1>5. /\ Len(r) = Len(b) + Len(cells)
        /\ \A i \in 1 .. Len(b) : r[i] = b[i]
        /\ \A i \in 1 .. Len(cells) : r[Len(b) + i] = cells[i]
    BY <1>1, ConcatAt
  <1> HIDE DEF r
  <1>6. t.buffer = r
    BY DEF r, b
  <1>7. Len(r) = Len(b) + (n - m) /\ Len(r) <= n /\ n - Len(r) = u
    BY <1>1, <1>2, <1>3, <1>4, <1>5
  <1>8. ASSUME NEW i \in 1 .. Len(r) PROVE r[i] = Wires[x][d][u + i].cell
    <2>1. CASE i <= Len(b)
      <3>1. i \in 1 .. Len(b)
        BY <1>1, <1>7, <2>1
      <3> QED
        BY <1>3, <1>5, <3>1
    <2>2. CASE ~(i <= Len(b))
      <3>1. PICK j \in 1 .. n - m : i = Len(b) + j
        <4>1. i - Len(b) \in 1 .. n - m /\ i = Len(b) + (i - Len(b))
          BY <1>1, <1>7, <2>2
        <4> QED
          BY <4>1
      <3>2. j \in 1 .. Len(cells) /\ m + j = u + i
        BY <1>1, <1>2, <1>4, <3>1
      <3>3. r[i] = cells[j] /\ cells[j] = Wires[x][d][m + j].cell
        BY <1>2, <1>5, <3>1, <3>2
      <3> QED
        BY <3>2, <3>3
    <2> QED
      BY <2>1, <2>2
  <1>9. Used(t, n) = u
    BY <1>6, <1>7 DEF Used
  <1>10. Buffered(x, d, t, n)
    BY <1>2, <1>6, <1>7, <1>8, <1>9 DEF Buffered
  <1> QED
    BY <1>9, <1>10 DEF Longer, u

\* t is s with cells appended to its buffer.
Extends(s, t, cells) == t = [s EXCEPT !.buffer = s.buffer \o cells]

\* It stays right.
LEMMA RightLonger ==
    ASSUME NEW x, NEW d, NEW s \in StreamDir, NEW m \in Nat, NEW n \in Nat, NEW cells,
           Follow(x, d, m, n, cells), NEW c, NEW l, NEW closing, Right(x, d, s, m, c, l, closing),
           NEW t, Extends(s, t, cells)
    PROVE  Right(x, d, t, n, c, l, closing) /\ Longer(x, d, s, t, m, n)
  <1>1. /\ t.buffer = s.buffer \o cells /\ t.header = s.header /\ t.state = s.state /\ t.unzip = s.unzip
        /\ t.isRequest = s.isRequest /\ t.contentLength = s.contentLength
        /\ t.chunkLength = s.chunkLength /\ t.contentReceived = s.contentReceived
    BY DEF StreamDir, Extends
  <1> DEFINE k == c["numHeaders"]
             u == Used(s, m)
  <1>2. Buffered(x, d, s, m) /\ Placed(x, d, s, k, u) /\ Told(x, d, s, u, l) /\ Counted(x, d, s, k, c, l, closing)
    BY DEF Right
  <1>3. Longer(x, d, s, t, m, n)
    <2>1. t.buffer = s.buffer \o cells
      BY <1>1
    <2> QED
      BY <1>2, <2>1, LongerIs
  <1>4. Pending(t) = Pending(s)
    BY <1>1 DEF Pending
  <1>5. Placed(x, d, t, k, u)
    <2> HIDE DEF k, u
    <2>1. InMessage(x, d, s, k, u) <=> InMessage(x, d, t, k, u)
      BY <1>1 DEF InMessage, InChunk
    <2> QED
      BY <1>1, <1>2, <2>1 DEF Placed
  <1>6. Told(x, d, t, u, l)
    BY <1>2, <1>4 DEF Told
  <1>7. Counted(x, d, t, k, c, l, closing)
    BY <1>1, <1>2 DEF Counted, IsOver
  <1> QED
    BY <1>3, <1>5, <1>6, <1>7 DEF Right, Longer

-----------------------------------------------------------------------------
(* How far it may get *)

\* What may be captured keeps the order.
LEMMA OrderIn ==
    ASSUME InStepNow, AtRest("out"), NEW n \in Nat, n <= Limit("in")
    PROVE  InOrder(exchange, n, sent["out"], Begun("in"), Begun("out"), Used(stream["out"], sent["out"]))
  <1> DEFINE x == exchange
             i == sent["in"]
             o == sent["out"]
             ki == Begun("in")
             ko == Begun("out")
             uo == Used(stream["out"], sent["out"])
             E == EndsOf[x]["in"]
             I == Len(x.requests)
             c == Complete("out")
  <1>1. /\ Conforming /\ x \in Exchanges /\ "in" \in Dirs /\ "out" \in Dirs
        /\ MessagesOf(x, "in") = x.requests /\ MessagesOf(x, "out") = x.responses
    BY DEF InStepNow, Fixed, Dirs, MessagesOf
  <1>2. InOrder(x, i, o, ki, ko, uo) /\ Behind(x, "out", ko, uo, o)
    BY <1>1, BehindIs DEF InStepNow, InTurn
  <1>3. c = IF uo < EndsOf[x]["out"][ko] THEN ko - 1 ELSE ko
    BY <1>1, CompleteNow
  <1>4. /\ I \in Nat /\ ko \in Nat /\ ko <= I
        /\ DOMAIN E = 0 .. I
        /\ \A k \in 0 .. I : \A j \in 0 .. k : E[j] <= E[k]
        /\ \A k \in 0 .. I : E[k] \in Nat
    <2>1. I \in Nat /\ Len(x.responses) \in Nat /\ Len(x.responses) <= I
      BY <1>1, CountOfMessages DEF Conforming, Conforms
    <2>2. ko \in 0 .. Len(x.responses)
      BY <1>1, <1>2 DEF Behind
    <2>3. DOMAIN E = 0 .. I
      BY <1>1, EndsAre
    <2>4. /\ \A k \in 0 .. I : \A j \in 0 .. k : E[j] <= E[k]
          /\ \A k \in 0 .. I : E[k] \in Nat
      BY <1>1, EndsGrow
    <2> QED
      BY <2>1, <2>2, <2>3, <2>4
  <1>5. x.order = "sequential" => Limit("in") = E[IF c + 1 \in DOMAIN E THEN c + 1 ELSE I]
    BY <1>1 DEF Limit, Ends, Messages
  <1>6. ASSUME x.order = "sequential", uo < EndsOf[x]["out"][ko] PROVE n <= E[ko]
    <2>1. c = ko - 1 /\ c + 1 = ko
      BY <1>3, <1>4, <1>6
    <2>2. ko \in DOMAIN E
      BY <1>4
    <2>3. Limit("in") = E[ko]
      BY <1>5, <1>6, <2>1, <2>2
    <2> QED
      BY <2>3
  <1>7. ASSUME x.order = "sequential" PROVE n <= E[Lesser(ko + 1, I)]
    <2> DEFINE a == Lesser(ko + 1, I)
    <2>1. a \in 0 .. I /\ (ko + 1 <= I => a = ko + 1) /\ (~(ko + 1 <= I) => a = I) /\ ko <= a
      BY <1>4 DEF Lesser
    <2>2. CASE uo < EndsOf[x]["out"][ko]
      <3>1. n <= E[ko]
        BY <1>6, <1>7, <2>2
      <3>2. ko \in 0 .. a /\ ko \in 0 .. I
        BY <1>4, <2>1
      <3> HIDE DEF a, E
      <3>3. E[ko] <= E[a] /\ E[ko] \in Nat /\ E[a] \in Nat
        BY <1>4, <2>1, <3>2
      <3> QED
        BY <3>1, <3>3 DEF a
    <2>3. CASE ~(uo < EndsOf[x]["out"][ko])
      <3>1. c = ko
        BY <1>3, <2>3
      <3>2. Limit("in") = E[a]
        <4>1. c + 1 \in DOMAIN E <=> ko + 1 <= I
          BY <1>4, <3>1
        <4> HIDE DEF a, E, c
        <4> QED
          BY <1>5, <1>7, <2>1, <3>1, <4>1
      <3> QED
        BY <3>2
    <2> QED
      BY <2>2, <2>3
  <1> QED
    BY <1>2, <1>6, <1>7 DEF InOrder

\* Responses come in order.
LEMMA OrderOut ==
    ASSUME InStepNow, AtRest("in"), NEW n \in Nat, n <= Limit("out")
    PROVE  InOrder(exchange, sent["in"], n, Begun("in"), Begun("out"), Used(stream["out"], sent["out"]))
  <1> DEFINE x == exchange
             i == sent["in"]
             o == sent["out"]
             ki == Begun("in")
             ko == Begun("out")
             uo == Used(stream["out"], sent["out"])
             ui == Used(stream["in"], sent["in"])
             E == EndsOf[x]["out"]
             O == Len(x.responses)
             c == Complete("in")
  <1>1. /\ Conforming /\ x \in Exchanges /\ "in" \in Dirs /\ "out" \in Dirs
        /\ MessagesOf(x, "in") = x.requests /\ MessagesOf(x, "out") = x.responses
    BY DEF InStepNow, Fixed, Dirs, MessagesOf
  <1>2. InOrder(x, i, o, ki, ko, uo) /\ Behind(x, "in", ki, ui, i)
    BY <1>1, BehindIs DEF InStepNow, InTurn
  <1>3. c = IF ui < EndsOf[x]["in"][ki] THEN ki - 1 ELSE ki
    BY <1>1, CompleteNow
  <1>4. /\ O \in Nat /\ ki \in Nat
        /\ DOMAIN E = 0 .. O
        /\ \A k \in 0 .. O : \A j \in 0 .. k : E[j] <= E[k]
        /\ \A k \in 0 .. O : E[k] \in Nat
    <2>1. O \in Nat /\ Len(x.requests) \in Nat
      BY <1>1, CountOfMessages
    <2>2. ki \in 0 .. Len(x.requests)
      BY <1>1, <1>2 DEF Behind
    <2>3. DOMAIN E = 0 .. O
      BY <1>1, EndsAre
    <2>4. /\ \A k \in 0 .. O : \A j \in 0 .. k : E[j] <= E[k]
          /\ \A k \in 0 .. O : E[k] \in Nat
      BY <1>1, EndsGrow
    <2> QED
      BY <2>1, <2>2, <2>3, <2>4
  <1>5. x.order # "any" => Limit("out") = E[IF c \in DOMAIN E THEN c ELSE O]
    BY <1>1 DEF Limit, Ends, Messages
  <1>6. c \in Int /\ c <= ki /\ c >= 0
    <2>1. CASE ui < EndsOf[x]["in"][ki]
      <3>1. c = ki - 1
        BY <1>3, <2>1
      <3>2. ki # 0
        <4>1. ASSUME ki = 0 PROVE FALSE
          <5>1. EndsOf[x]["in"][ki] = 0 /\ ui \in Nat
            BY <1>1, <1>2, <4>1, EndsAre DEF Behind
          <5> QED
            BY <2>1, <5>1
        <4> QED
          BY <4>1
      <3> QED
        BY <1>4, <3>1, <3>2
    <2>2. CASE ~(ui < EndsOf[x]["in"][ki])
      <3>1. c = ki
        BY <1>3, <2>2
      <3> QED
        BY <1>4, <3>1
    <2> QED
      BY <2>1, <2>2
  <1>7. ASSUME x.order # "any" PROVE n <= E[Lesser(ki, O)]
    <2> DEFINE a == Lesser(ki, O)
               j == IF c \in DOMAIN E THEN c ELSE O
    <2>1. a \in 0 .. O /\ (ki <= O => a = ki) /\ (~(ki <= O) => a = O)
      BY <1>4 DEF Lesser
    <2>2. j \in 0 .. a
      <3>1. CASE c <= O
        <4>1. c \in DOMAIN E
          BY <1>4, <1>6, <3>1
        <4>2. j = c
          BY <4>1
        <4> HIDE DEF a, j, c
        <4> QED
          BY <1>4, <1>6, <2>1, <3>1, <4>2
      <3>2. CASE ~(c <= O)
        <4>1. c \notin DOMAIN E
          BY <1>4, <1>6, <3>2
        <4>2. j = O
          BY <4>1
        <4> HIDE DEF a, j, c
        <4> QED
          BY <1>4, <1>6, <2>1, <3>2, <4>2
      <3> QED
        BY <3>1, <3>2
    <2>3. n <= E[j]
      BY <1>5, <1>7
    <2>4. j \in 0 .. O
      <3> HIDE DEF a, j
      <3> QED
        BY <1>4, <2>1, <2>2
    <2> HIDE DEF a, j, E
    <2>5. E[j] <= E[a] /\ E[j] \in Nat /\ E[a] \in Nat
      BY <1>4, <2>1, <2>2, <2>4
    <2>6. n <= E[a]
      BY <2>3, <2>5
    <2> QED
      BY <2>6 DEF a
  <1> QED
    BY <1>2, <1>7 DEF InOrder

-----------------------------------------------------------------------------
(* The invariant step by step *)

\* While the decoder is in step, nothing was given up and what was told is due.
LEMMA InStepIs == InStepNow => ToldRight /\ ~IsCorrupted
  <1> SUFFICES ASSUME InStepNow PROVE ToldRight /\ ~IsCorrupted
    OBVIOUS
  <1>1. ToldRight
    <2>1. ASSUME NEW d \in Dirs
          PROVE  /\ sent[d] \in 0 .. Len(Wires[exchange][d])
                 /\ Begins(Seen(exchange, log[d]), Seen(exchange, DueWith[exchange][d][sent[d]]))
      BY ToldIs
    <2> QED
      BY <2>1 DEF ToldRight
  <1>2. "in" \in Dirs
    BY DEF Dirs
  <1>3. Placed(exchange, "in", stream["in"], Begun("in"), Used(stream["in"], sent["in"]))
    BY <1>2, BehindIs
  <1> QED
    BY <1>1, <1>3 DEF Placed, IsCorrupted

\* All of the invariant while the decoder is in step
LEMMA AllInStep == InStepNow /\ Idle => IInv
  BY InStepIs DEF IInv, InStepNow, InStep, GivenUpForAReason

\* All of the invariant once the connection was given up
LEMMA AllGivenUp ==
    TypeOK /\ CorruptedTogether /\ Fixed /\ Idle /\ ToldRight /\ GivenUpForAReason /\ IsCorrupted => IInv
  BY DEF IInv, InStep

\* What the invariant says of a decoder that goes on
LEMMA InStepFrom ==
    ASSUME IInv, Conforming, ~IsCorrupted
    PROVE  InStepNow
  BY DEF IInv, InStep, InStepNow

\* A section keeps the other direction idle.
LEMMA SectionIdle ==
    ASSUME TypeOK, Idle, NEW d \in Dirs, Section(d)
    PROVE  Idle' /\ phase = "open"
  <1>1. /\ loop # <<>> /\ loop[1] = d /\ loop' = loop
    BY SectionRuns
  <1>2. HasWork(stream[d])
    BY DEF Section, StrangeHeader, BogusHeader, UnsupportedHeader, OrphanResponse, GoodHeader,
           IsGoodHeader, UnknownContent, ChunkSize, Content, ChunkData, ChunkEnd, Works
  <1>3. phase = "open" /\ phase' = phase
    <2>1. phase' = phase
      BY DEF Section, StrangeHeader, BogusHeader, UnsupportedHeader, OrphanResponse, GoodHeader,
             UnknownContent, ChunkSize, Content, ChunkData, ChunkEnd
    <2> QED
      BY <1>2, <2>1 DEF Idle, CloseFinds
  <1>4. HasWork(stream'[Other(d)]) => HasWork(stream[Other(d)])
    BY SectionStep DEF Progress
  <1>5. Other(d) # d /\ Other(d) \in Dirs /\ \A e \in Dirs : e = d \/ e = Other(d)
    BY DEF Dirs, Other
  <1>6. ~HasWork(stream[Other(d)])
    BY <1>1, <1>5 DEF Idle
  <1>7. \A e \in Dirs : HasWork(stream'[e]) => e = d
    BY <1>4, <1>5, <1>6
  <1>8. CloseFinds'
    BY <1>3 DEF CloseFinds
  <1> QED
    BY <1>1, <1>3, <1>7, <1>8 DEF Idle

\* A section keeps the invariant.
LEMMA SectionInv ==
    ASSUME IInv, Conforming, NEW d \in Dirs, Section(d), UNCHANGED <<exchange, sent>>
    PROVE  IInv'
  <1>1. TypeOK /\ CorruptedTogether /\ Idle /\ ToldRight /\ Fixed
    BY DEF IInv
  <1>2. Next
    BY DEF Next, Handle
  <1>3. TypeOK' /\ CorruptedTogether'
    BY <1>1, <1>2, TypesStep, TogetherStep
  <1>4. Idle' /\ phase = "open"
    BY <1>1, SectionIdle
  <1>5. ~IsCorrupted
    BY <1>1, SectionRuns DEF CorruptedTogether, IsCorrupted, Dirs
  <1>6. InStepNow
    BY <1>5, InStepFrom
  <1>7. Runs(d)
    BY <1>4, <1>6 DEF Runs
  <1>8. CASE GivesUp(d)
    <2>1. IsCorrupted' /\ log' = log
      BY <1>1, <1>8, GivesUpIs
    <2>2. GivenUpForAReason'
      BY <1>6, <1>8, ReasonIs
    <2>3. ToldRight'
      BY <1>1, <2>1 DEF ToldRight
    <2>4. Fixed'
      BY <1>1, <1>8 DEF Fixed, GivesUp, StrangeHeader, BogusHeader, UnsupportedHeader, OrphanResponse
    <2> QED
      BY <1>3, <1>4, <2>1, <2>2, <2>3, <2>4, AllGivenUp, PTL
  <1>9. CASE ~GivesUp(d)
    <2>1. InStepNow'
      BY <1>3, <1>7, <1>9, SectionKeeps
    <2> QED
      BY <1>4, <2>1, AllInStep, PTL
  <1> QED
    BY <1>8, <1>9

\* The end of a loop keeps it.
LEMMA ReturnInv ==
    ASSUME IInv, Conforming, Return, UNCHANGED <<exchange, sent>>
    PROVE  IInv'
  <1>1. TypeOK /\ CorruptedTogether /\ Idle /\ ToldRight /\ Fixed /\ GivenUpForAReason
    BY DEF IInv
  <1>2. Next
    BY DEF Next, Handle
  <1>3. TypeOK' /\ CorruptedTogether'
    BY <1>1, <1>2, TypesStep, TogetherStep
  <1>4. UNCHANGED <<withZlib, stream, stats, phase, log, exchange, sent>>
    BY DEF Return
  <1>5. Idle'
    <2>1. \A d \in Dirs : ~HasWork(stream[d])
      BY <1>1 DEF Idle, Return
    <2> QED
      BY <1>4, <2>1 DEF Idle, CloseFinds
  <1>6. Fixed' /\ ToldRight' /\ GivenUpForAReason'
    BY <1>1, <1>4 DEF Fixed, ToldRight, GivenUpForAReason, IsCorrupted, Messages
  <1>7. InStep'
    <2>1. InStep
      BY DEF IInv
    <2> QED
      BY <1>4, <2>1 DEF InStep, IsCorrupted, RightOf, InTurn, HeadComes, Begun
  <1> QED
    BY <1>3, <1>5, <1>6, <1>7 DEF IInv

\* The end of the connection keeps it.
LEMMA ClosedInv ==
    ASSUME IInv, Conforming, Closed, UNCHANGED <<exchange, sent>>
    PROVE  IInv'
  <1>1. TypeOK /\ CorruptedTogether /\ Idle /\ ToldRight /\ Fixed /\ GivenUpForAReason
    BY DEF IInv
  <1>2. Next
    BY DEF Next, Handle
  <1>3. TypeOK' /\ CorruptedTogether'
    BY <1>1, <1>2, TypesStep, TogetherStep
  <1>4. UNCHANGED <<withZlib, stream, stats, loop, log, exchange, sent>> /\ phase = "closing" /\ phase' = "closed"
    BY DEF Closed
  <1>5. Idle'
    BY <1>1, <1>4 DEF Idle, CloseFinds
  <1>6. Fixed' /\ ToldRight' /\ GivenUpForAReason'
    BY <1>1, <1>4 DEF Fixed, ToldRight, GivenUpForAReason, IsCorrupted, Messages
  <1>7. InStep'
    <2>1. InStep
      BY DEF IInv
    <2>2. (phase # "open") = TRUE /\ (phase' # "open") = TRUE
      BY <1>4
    <2>3. \A d \in Dirs : RightOf(d) => RightOf(d)'
      BY <1>4, <2>2 DEF RightOf
    <2> QED
      BY <1>4, <2>1, <2>3 DEF InStep, IsCorrupted, InTurn, HeadComes, Begun
  <1> QED
    BY <1>3, <1>5, <1>6, <1>7 DEF IInv

\* What comes leaves the decoder in step.
LEMMA CaptureKeeps ==
    ASSUME InStepNow, Idle, NEW d \in Dirs, NEW n, NEW cells, Captures(d, n, cells),
           TypeOK', CorruptedTogether'
    PROVE  InStepNow'
  <1> DEFINE x == exchange
             s == stream[d]
             m == sent[d]
             e == Other(d)
             t == [s EXCEPT !.buffer = s.buffer \o cells]
  <1>1. /\ n \in Nat /\ m < n /\ n <= Len(Wires[x][d]) /\ n <= Limit(d)
        /\ cells \in Seq(Cell) /\ Len(cells) = n - m
        /\ \A i \in 1 .. n - m : cells[i] = Wires[x][d][m + i].cell
        /\ OnData(d, cells)
        /\ sent' = [sent EXCEPT ![d] = n] /\ exchange' = exchange
    BY DEF Captures
  <1>2. phase = "open" /\ loop = <<>> /\ UNCHANGED <<withZlib, stats, phase, log>> /\ Become(d, t)
    BY <1>1 DEF OnData
  <1>3. TypeOK /\ Fixed /\ Conforming
    BY DEF InStepNow
  <1>4. s \in StreamDir /\ e \in Dirs /\ e # d /\ m \in Nat /\ \A b \in Dirs : b = d \/ b = e
    BY <1>3, StateOK DEF OKDir, Fixed, Dirs, Other
  <1>5. stream'[d] = t /\ stream'[e] = stream[e] /\ sent'[d] = n /\ sent'[e] = sent[e]
    <2>1. stream \in [Dirs -> StreamDir] /\ sent \in [Dirs -> Nat]
      BY <1>3 DEF TypeOK, Fixed
    <2> HIDE DEF t, e
    <2> QED
      BY <1>1, <1>2, <1>4, <2>1 DEF Become
  <1>6. Fixed'
    <2>1. sent' \in [Dirs -> Nat]
      BY <1>1, <1>3 DEF Fixed
    <2> QED
      BY <1>1, <1>2, <1>3, <2>1 DEF Fixed
  <1>7. Right(x, d, t, n, stats[Kind(d)], log[d], FALSE) /\ Used(t, n) = Used(s, m)
    <2>1. Right(x, d, s, m, stats[Kind(d)], log[d], FALSE)
      BY <1>2, OpenIs
    <2>2. Follow(x, d, m, n, cells)
      <3>1. m <= n
        BY <1>1, <1>4
      <3> QED
        BY <1>1, <3>1 DEF Follow
    <2>3. Extends(s, t, cells)
      BY DEF Extends
    <2>4. s \in StreamDir /\ m \in Nat /\ n \in Nat
      BY <1>1, <1>4
    <2> HIDE DEF x, s, m, t
    <2>5. Right(x, d, t, n, stats[Kind(d)], log[d], FALSE)
      BY <2>1, <2>2, <2>3, <2>4, RightLonger
    <2>6. Longer(x, d, s, t, m, n)
      BY <2>1, <2>2, <2>3, <2>4, RightLonger
    <2> QED
      BY <2>5, <2>6 DEF Longer
  <1>8. \A b \in Dirs : RightOf(b)'
    <2>1. (phase' # "open") = FALSE /\ (phase # "open") = FALSE
      BY <1>2
    <2>2. RightOf(d)'
      BY <1>1, <1>2, <1>5, <1>7, <2>1 DEF RightOf
    <2>3. RightOf(e)
      BY <1>4 DEF InStepNow
    <2>4. RightOf(e)'
      BY <1>1, <1>2, <1>5, <2>1, <2>3 DEF RightOf
    <2> QED
      BY <1>4, <2>2, <2>4
  <1>9. HeadComes'
    <2>1. t.headerOnlyRequest = s.headerOnlyRequest
      BY <1>4 DEF StreamDir
    <2>2. /\ stream'["in"].headerOnlyRequest = stream["in"].headerOnlyRequest
          /\ stream'["out"].headerOnlyRequest = stream["out"].headerOnlyRequest
      BY <1>4, <1>5, <2>1 DEF Dirs
    <2>3. HeadComes
      BY DEF InStepNow
    <2> QED
      BY <1>1, <1>2, <2>2, <2>3 DEF HeadComes, Begun
  <1>10. InTurn'
    <2>1. Used(stream'["out"], sent'["out"]) = Used(stream["out"], sent["out"])
      BY <1>4, <1>5, <1>7 DEF Dirs
    <2>2. "in" \in Dirs /\ "out" \in Dirs
      BY DEF Dirs
    <2>3. CASE d = "in"
      <3>1. AtRest("out")
        BY <1>2, <2>2, Resting
      <3>2. n \in Nat /\ n <= Limit("in")
        BY <1>1, <2>3
      <3>3. InOrder(exchange, n, sent["out"], Begun("in"), Begun("out"), Used(stream["out"], sent["out"]))
        BY <3>1, <3>2, OrderIn
      <3>4. sent'["in"] = n /\ sent'["out"] = sent["out"]
        BY <1>5, <2>3 DEF Other
      <3> QED
        BY <1>1, <1>2, <2>1, <3>3, <3>4 DEF InTurn, Begun
    <2>4. CASE d = "out"
      <3>1. AtRest("in")
        BY <1>2, <2>2, Resting
      <3>2. n \in Nat /\ n <= Limit("out")
        BY <1>1, <2>4
      <3>3. InOrder(exchange, sent["in"], n, Begun("in"), Begun("out"), Used(stream["out"], sent["out"]))
        BY <3>1, <3>2, OrderOut
      <3>4. sent'["out"] = n /\ sent'["in"] = sent["in"]
        BY <1>5, <2>4 DEF Other
      <3> QED
        BY <1>1, <1>2, <2>1, <3>3, <3>4 DEF InTurn, Begun
    <2> QED
      BY <2>3, <2>4 DEF Dirs
  <1> QED
    BY <1>3, <1>6, <1>8, <1>9, <1>10 DEF InStepNow

\* What comes gives work to its own direction.
LEMMA DataIdle ==
    ASSUME TypeOK, Idle, NEW d \in Dirs, NEW cells \in Seq(Cell), OnData(d, cells)
    PROVE  Idle'
  <1>1. phase = "open" /\ phase' = "open" /\ loop = <<>> /\ loop' = <<d>>
    BY DEF OnData
  <1>2. \A e \in Dirs : ~HasWork(stream[e])
    BY <1>1 DEF Idle
  <1>3. \A e \in Dirs : e # d => stream'[e] = stream[e]
    BY DEF OnData, Become, TypeOK
  <1>4. \A e \in Dirs : HasWork(stream'[e]) => e = d
    BY <1>2, <1>3
  <1>5. loop' # <<>> /\ loop'[1] = d
    BY <1>1
  <1> QED
    BY <1>1, <1>4, <1>5 DEF Idle, CloseFinds

\* What comes keeps the invariant.
LEMMA CaptureInv ==
    ASSUME IInv, Conforming, NEW d \in Dirs, Capture(d)
    PROVE  IInv'
  <1>1. TypeOK /\ CorruptedTogether /\ Idle /\ ToldRight /\ Fixed /\ GivenUpForAReason
    BY DEF IInv
  <1>2. PICK n, cells : Captures(d, n, cells)
    BY <1>1, CaptureIs
  <1>3. /\ OnData(d, cells) /\ cells \in Seq(Cell) /\ n \in Nat /\ sent[d] < n /\ n <= Len(Wires[exchange][d])
        /\ sent' = [sent EXCEPT ![d] = n] /\ exchange' = exchange
    BY <1>2 DEF Captures
  <1>4. TypeOK' /\ CorruptedTogether'
    <2>1. Next
      BY <1>3 DEF Next
    <2> QED
      BY <1>1, <2>1, TypesStep, TogetherStep
  <1>5. Idle'
    BY <1>1, <1>3, DataIdle
  <1>6. CASE ~IsCorrupted
    <2>1. InStepNow
      BY <1>6, InStepFrom
    <2>2. InStepNow'
      BY <1>1, <1>2, <1>4, <2>1, CaptureKeeps
    <2> QED
      BY <1>5, <2>2, AllInStep, PTL
  <1>7. CASE IsCorrupted
    <2>1. IsCorrupted'
      BY <1>1, <1>3, <1>7, OnDataStep DEF IsCorrupted, Dirs
    <2>2. log' = log /\ withZlib' = withZlib
      BY <1>3 DEF OnData
    <2>3. GivenUpForAReason'
      BY <1>1, <1>3, <1>7, <2>2 DEF GivenUpForAReason, Messages
    <2>4. sent' \in [Dirs -> Nat] /\ sent'[d] = n /\ \A e \in Dirs : e # d => sent'[e] = sent[e]
      BY <1>1, <1>3 DEF Fixed
    <2>5. Fixed'
      BY <1>1, <1>3, <2>2, <2>4 DEF Fixed
    <2>6. ASSUME NEW e \in Dirs
          PROVE  /\ sent'[e] \in 0 .. Len(Wires[exchange][e])
                 /\ Begins(Seen(exchange, log[e]), Seen(exchange, DueWith[exchange][e][sent'[e]]))
      <3>1. CASE e = d
        <4>1. sent[d] \in Nat /\ exchange \in Exchanges
          BY <1>1 DEF Fixed
        <4>2. Len(Wires[exchange][d]) \in Nat
          BY <4>1, DueIs
        <4>3. n \in sent[d] .. Len(Wires[exchange][d]) /\ n \in 0 .. Len(Wires[exchange][d])
          BY <1>3, <4>1, <4>2
        <4>4. Begins(Seen(exchange, log[d]), Seen(exchange, DueWith[exchange][d][n]))
          BY <1>1, <4>3, ToldLater
        <4> QED
          BY <2>4, <3>1, <4>3, <4>4
      <3>2. CASE e # d
        BY <1>1, <2>4, <3>2 DEF ToldRight
      <3> QED
        BY <3>1, <3>2
    <2>7. ToldRight'
      BY <1>3, <2>2, <2>6 DEF ToldRight
    <2> QED
      BY <1>4, <1>5, <2>1, <2>3, <2>5, <2>7, AllGivenUp, PTL
  <1> QED
    BY <1>6, <1>7

\* Content that ends with the connection is counted as over in its direction.
LEMMA ClosingCounts ==
    ASSUME InStepNow, phase = "open", OnClose, NEW d \in Dirs
    PROVE  Right(exchange, d, stream[d], sent[d], stats'[Kind(d)], log[d], TRUE) /\ Begun(d)' = Begun(d)
  <1> DEFINE x == exchange
             s == stream[d]
             n == sent[d]
             l == log[d]
             c == stats[Kind(d)]
             c2 == stats'[Kind(d)]
             k == c["numHeaders"]
             u == Used(s, n)
             more == UnknownEnded(Kind(d))
  <1>1. Right(x, d, s, n, c, l, FALSE)
    BY OpenIs
  <1>2. c \in [Counters -> Nat] /\ Kind(d) \in Kinds /\ TypeOK
    BY DirectionIs DEF InStepNow
  <1>3. c2 = [i \in Counters |-> c[i] + (IF i = "numOK" THEN more ELSE 0)]
    BY <1>2 DEF OnClose
  <1>4. \A e \in Dirs : stream[e].state = "UNKNOWN_CONTENT" => (KindOf(stream[e]) = Kind(d) <=> e = d)
    <2>1. ASSUME NEW e \in Dirs, stream[e].state = "UNKNOWN_CONTENT"
          PROVE  KindOf(stream[e]) = Kind(d) <=> e = d
      <3>1. KindOf(stream[e]) = Kind(e)
        BY <2>1, OwnKind
      <3> QED
        BY <3>1 DEF Kind, Dirs
    <2> QED
      BY <2>1
  <1>5. more = IF s.state = "UNKNOWN_CONTENT" THEN 1 ELSE 0
    <2>1. {e \in Dirs : stream[e].state = "UNKNOWN_CONTENT" /\ KindOf(stream[e]) = Kind(d)}
            = IF s.state = "UNKNOWN_CONTENT" THEN {d} ELSE {}
      BY <1>4
    <2> QED
      BY <2>1 DEF UnknownEnded, Dirs
  <1> HIDE DEF more
  <1>6. /\ \A i \in Counters : c[i] \in Nat
        /\ \A i \in Counters : i # "numOK" => c2[i] = c[i]
        /\ c2["numOK"] = c["numOK"] + more
    BY <1>2, <1>3, <1>5 DEF Counters
  <1>7. /\ c2["numHeaders"] = k /\ c2["numNormal"] = c["numNormal"] /\ c2["numChunked"] = c["numChunked"]
        /\ c2["numUnkownSize"] = c["numUnkownSize"] /\ c2["numWithoutPayload"] = c["numWithoutPayload"]
        /\ k \in Nat
    BY <1>6 DEF Counters
  <1>8. Buffered(x, d, s, n) /\ Placed(x, d, s, k, u) /\ Told(x, d, s, u, l) /\ Counted(x, d, s, k, c, l, FALSE)
    BY <1>1 DEF Right
  <1>9. Counted(x, d, s, k, c2, l, TRUE)
    <2>1. /\ HeadersIn(l) = FirstMessages(x, d, k)
          /\ c["numNormal"] + c["numChunked"] + c["numUnkownSize"] + c["numWithoutPayload"] = k
          /\ c["numOK"] = IF s.state = "HEADER" THEN k ELSE k - 1
      BY <1>8 DEF Counted, IsOver
    <2>2. c2["numOK"] = IF s.state = "HEADER" \/ s.state = "UNKNOWN_CONTENT" THEN k ELSE k - 1
      <3> HIDE DEF c, c2, s, k
      <3>1. CASE s.state = "HEADER"
        BY <1>5, <1>6, <1>7, <2>1, <3>1
      <3>2. CASE s.state = "UNKNOWN_CONTENT"
        BY <1>5, <1>6, <1>7, <2>1, <3>2
      <3>3. CASE s.state # "HEADER" /\ s.state # "UNKNOWN_CONTENT"
        BY <1>5, <1>6, <1>7, <2>1, <3>3
      <3> QED
        BY <3>1, <3>2, <3>3
    <2> HIDE DEF c, c2, s, k
    <2>3. c2["numOK"] = IF IsOver(s, TRUE) THEN k ELSE k - 1
      BY <2>2 DEF IsOver
    <2> QED
      BY <1>7, <2>1, <2>3 DEF Counted
  <1>10. Right(x, d, s, n, c2, l, TRUE)
    <2> HIDE DEF c2
    <2> QED
      BY <1>7, <1>8, <1>9 DEF Right
  <1> QED
    BY <1>7, <1>10 DEF Begun

\* Closing keeps the invariant.
LEMMA CloseInv ==
    ASSUME IInv, Conforming, OnClose, UNCHANGED <<exchange, sent>>
    PROVE  IInv'
  <1>1. TypeOK /\ CorruptedTogether /\ Idle /\ ToldRight /\ Fixed /\ GivenUpForAReason
    BY DEF IInv
  <1>2. Next
    BY DEF Next
  <1>3. TypeOK' /\ CorruptedTogether'
    BY <1>1, <1>2, TypesStep, TogetherStep
  <1>4. /\ UNCHANGED <<withZlib, stream, log, exchange, sent>> /\ phase = "open" /\ phase' = "closing"
        /\ loop = <<>>
    BY DEF OnClose
  <1>5. Idle'
    <2>1. \A d \in Dirs : ~HasWork(stream[d])
      BY <1>1, <1>4 DEF Idle
    <2> QED
      BY <1>4, <2>1 DEF Idle, CloseFinds
  <1>6. Fixed' /\ ToldRight' /\ GivenUpForAReason'
    BY <1>1, <1>4 DEF Fixed, ToldRight, GivenUpForAReason, IsCorrupted, Messages
  <1>7. InStep'
    <2>1. CASE ~IsCorrupted
      <3>1. InStepNow
        BY <2>1, InStepFrom
      <3>2. (phase' # "open") = TRUE
        BY <1>4
      <3>3. ASSUME NEW d \in Dirs PROVE RightOf(d)' /\ Begun(d)' = Begun(d)
        <4>1. Right(exchange, d, stream[d], sent[d], stats'[Kind(d)], log[d], TRUE) /\ Begun(d)' = Begun(d)
          BY <1>4, <3>1, ClosingCounts
        <4> QED
          BY <1>4, <3>2, <4>1 DEF RightOf
      <3>4. Begun("in")' = Begun("in") /\ Begun("out")' = Begun("out")
        BY <3>3 DEF Dirs
      <3>5. InTurn /\ HeadComes
        BY <3>1 DEF InStepNow
      <3>6. InTurn' /\ HeadComes'
        BY <1>4, <3>4, <3>5 DEF InTurn, HeadComes
      <3> QED
        BY <3>3, <3>6 DEF InStep
    <2>2. CASE IsCorrupted
      BY <1>4, <2>2 DEF InStep, IsCorrupted
    <2> QED
      BY <2>1, <2>2
  <1> QED
    BY <1>3, <1>5, <1>6, <1>7 DEF IInv

-----------------------------------------------------------------------------
(* The invariant holds *)

\* At the start nothing was sent, and nothing is known.
LEMMA RightAtStart ==
    ASSUME Conforming, NEW x \in Exchanges, NEW d \in Dirs,
           NEW c, \A i \in Counters : c[i] = 0
    PROVE  Right(x, d, NewStreamDir, 0, c, <<>>, FALSE)
  <1> DEFINE s == NewStreamDir
             l == <<>>
  <1>1. /\ s.buffer = <<>> /\ s.state = "HEADER" /\ s.header = NoHeader
        /\ c["numHeaders"] = 0 /\ c["numNormal"] = 0 /\ c["numChunked"] = 0
        /\ c["numUnkownSize"] = 0 /\ c["numWithoutPayload"] = 0 /\ c["numOK"] = 0
    BY DEF NewStreamDir, Counters
  <1>2. Len(s.buffer) = 0 /\ Used(s, 0) = 0
    <2>1. Used(s, 0) = 0 - Len(s.buffer)
      BY DEF Used
    <2>2. s.buffer = <<>>
      BY <1>1
    <2> HIDE DEF s
    <2>3. Len(s.buffer) = 0
      BY <2>2
    <2> QED
      BY <2>1, <2>3
  <1>3. Len(Wires[x][d]) \in Nat /\ Len(MessagesOf(x, d)) \in Nat /\ DueWith[x][d][0] = <<>>
    BY DueIs, CountOfMessages
  <1>4. Buffered(x, d, s, 0)
    BY <1>2, <1>3 DEF Buffered
  <1>5. Placed(x, d, s, 0, 0)
    BY <1>1, <1>3 DEF Placed
  <1>6. Told(x, d, s, 0, l)
    <2>1. Pending(s) = <<>>
      BY <1>1 DEF Pending
    <2>2. l \o Pending(s) = <<>>
      BY <2>1
    <2> QED
      BY <1>3, <2>2 DEF Told
  <1>7. Counted(x, d, s, 0, c, l, FALSE)
    <2>1. HeadersIn(l) = {}
      BY DEF HeadersIn
    <2>2. FirstMessages(x, d, 0) = {}
      BY DEF FirstMessages
    <2>3. IsOver(s, FALSE)
      BY <1>1 DEF IsOver
    <2> QED
      <3> HIDE DEF s, l
      <3> QED
        BY <1>1, <2>1, <2>2, <2>3 DEF Counted
  <1> HIDE DEF s, l
  <1>8. Right(x, d, s, 0, c, l, FALSE)
    BY <1>1, <1>2, <1>4, <1>5, <1>6, <1>7 DEF Right
  <1> QED
    BY <1>8 DEF s, l

\* The initial states satisfy the invariant.
LEMMA IInvInit ==
    ASSUME ExchangeInit, Conforming
    PROVE  IInv
  <1>1. /\ exchange \in Exchanges /\ withZlib = exchange.withZlib /\ sent = [d \in Dirs |-> 0]
        /\ stream = [d \in Dirs |-> NewStreamDir] /\ phase = "open" /\ loop = <<>>
        /\ stats = [k \in Kinds |-> [c \in Counters |-> 0]] /\ log = [d \in Dirs |-> <<>>]
    BY DEF ExchangeInit, Init
  <1>2. TypeOK
    BY TypesInit DEF ExchangeInit
  <1>3. \A d \in Dirs : stream[d].state = "HEADER" /\ stream[d].buffer = <<>> /\ stream[d].headerOnlyRequest = FALSE
    BY <1>1 DEF NewStreamDir
  <1>4. CorruptedTogether
    BY <1>3 DEF CorruptedTogether, Dirs
  <1>5. Idle
    <2>1. \A d \in Dirs : ~HasWork(stream[d])
      <3>1. HeaderEnds(<<>>) = {}
        BY DEF HeaderEnds, LineEnds
      <3> QED
        BY <1>3, <3>1 DEF HasWork
    <2> QED
      BY <2>1 DEF Idle, CloseFinds
  <1>6. Fixed
    <2>1. sent \in [Dirs -> Nat]
      BY <1>1
    <2> QED
      BY <1>1, <2>1 DEF Fixed
  <1>7. (phase # "open") = FALSE
    BY <1>1
  <1>8. ASSUME NEW d \in Dirs PROVE RightOf(d) /\ Begun(d) = 0 /\ sent[d] = 0
    <2>1. stream[d] = NewStreamDir /\ sent[d] = 0 /\ log[d] = <<>>
      BY <1>1
    <2>2. \A i \in Counters : stats[Kind(d)][i] = 0
      BY <1>1 DEF Kind, Kinds
    <2>3. Right(exchange, d, NewStreamDir, 0, stats[Kind(d)], <<>>, FALSE)
      BY <1>1, <2>2, RightAtStart
    <2> QED
      BY <1>7, <2>1, <2>2, <2>3 DEF RightOf, Begun, Counters
  <1>9. /\ Begun("in") = 0 /\ Begun("out") = 0 /\ sent["in"] = 0 /\ sent["out"] = 0
        /\ stream["in"].headerOnlyRequest = FALSE /\ stream["out"].headerOnlyRequest = FALSE
    BY <1>3, <1>8 DEF Dirs
  <1>10. HeadComes
    BY <1>9 DEF HeadComes, Heads
  <1>11. InTurn
    <2> DEFINE x == exchange
               j == Lesser(0, Len(x.responses))
               k == Lesser(0 + 1, Len(x.requests))
    <2>1. "in" \in Dirs /\ "out" \in Dirs
      BY DEF Dirs
    <2>2. /\ MessagesOf(x, "in") = x.requests /\ MessagesOf(x, "out") = x.responses
          /\ Len(x.requests) \in Nat /\ Len(x.responses) \in Nat
      BY <1>1, <2>1, CountOfMessages DEF MessagesOf
    <2>3. j \in 0 .. Len(x.responses) /\ k \in 0 .. Len(x.requests)
      BY <2>2 DEF Lesser
    <2>4. EndsOf[x]["out"][j] \in Nat
      <3>1. \A i \in 0 .. Len(MessagesOf(x, "out")) : EndsOf[x]["out"][i] \in Nat
        BY <1>1, <2>1, EndsGrow
      <3> QED
        BY <2>2, <2>3, <3>1
    <2>5. /\ EndsOf[x]["in"][k] \in Nat /\ EndsOf[x]["in"][0] \in Nat
      <3>1. \A i \in 0 .. Len(MessagesOf(x, "in")) : EndsOf[x]["in"][i] \in Nat
        BY <1>1, <2>1, EndsGrow
      <3> QED
        BY <2>2, <2>3, <3>1
    <2>6. \A uo : InOrder(x, 0, 0, 0, 0, uo)
      BY <2>4, <2>5 DEF InOrder
    <2> QED
      BY <1>9, <2>6 DEF InTurn
  <1>12. InStepNow
    BY <1>2, <1>4, <1>6, <1>8, <1>10, <1>11 DEF InStepNow
  <1> QED
    BY <1>5, <1>12, AllInStep

\* Every step keeps it.
LEMMA IInvStep ==
    ASSUME IInv, Conforming, [ExchangeNext]_exchangeVars
    PROVE  IInv'
  <1>1. ASSUME NEW d \in Dirs, Capture(d) PROVE IInv'
    BY <1>1, CaptureInv
  <1>2. CASE Close
    <2>1. OnClose /\ UNCHANGED <<exchange, sent>>
      BY <1>2 DEF Close
    <2> QED
      BY <2>1, CloseInv
  <1>3. CASE Decode
    <2>1. Handle /\ UNCHANGED <<exchange, sent>>
      BY <1>3 DEF Decode
    <2>2. ASSUME NEW d \in Dirs, Section(d) PROVE IInv'
      BY <2>1, <2>2, SectionInv
    <2>3. CASE Return
      BY <2>1, <2>3, ReturnInv
    <2>4. CASE Closed
      BY <2>1, <2>4, ClosedInv
    <2> QED
      BY <2>1, <2>2, <2>3, <2>4 DEF Handle
  <1>4. CASE UNCHANGED exchangeVars
    <2>1. UNCHANGED <<withZlib, stream, stats, loop, phase, log, exchange, sent>>
      BY <1>4 DEF exchangeVars, vars
    <2>2. TypeOK' /\ CorruptedTogether'
      <3>1. UNCHANGED vars /\ TypeOK /\ CorruptedTogether
        BY <2>1 DEF vars, IInv
      <3> QED
        BY <3>1, TypesStep, TogetherStep
    <2>3. Fixed' /\ Idle' /\ ToldRight' /\ GivenUpForAReason'
      <3>1. Fixed /\ Idle /\ ToldRight /\ GivenUpForAReason
        BY DEF IInv
      <3> QED
        BY <2>1, <3>1 DEF Fixed, Idle, CloseFinds, ToldRight, GivenUpForAReason, IsCorrupted, Messages
    <2>4. InStep'
      <3>1. InStep
        BY DEF IInv
      <3> QED
        BY <2>1, <3>1 DEF InStep, IsCorrupted, RightOf, InTurn, HeadComes, Begun
    <2> QED
      BY <2>2, <2>3, <2>4 DEF IInv
  <1> QED
    BY <1>1, <1>2, <1>3, <1>4 DEF ExchangeNext

\* The invariant from which the rest follows
THEOREM Understands ==
    ASSUME Conforming
    PROVE  ExchangeSpec => []IInv
  <1>1. ExchangeInit => IInv
    BY IInvInit
  <1>2. IInv /\ [ExchangeNext]_exchangeVars => IInv'
    BY IInvStep
  <1> QED
    BY <1>1, <1>2, PTL DEF ExchangeSpec

-----------------------------------------------------------------------------
(* What follows for the listeners *)

\* The beginning of a sequence is its prefix.
LEMMA PrefixIs ==
    ASSUME NEW S, NEW s \in Seq(S), NEW t \in Seq(S), Begins(s, t)
    PROVE  IsPrefix(s, t)
  <1>1. s = SubSeq(t, 1, Len(s))
    BY BeginningIsCut
  <1>2. Begins(s, s) /\ Len(s) <= Len(t) /\ Len(s) \in Nat
    BY DEF Begins
  <1>3. s = SubSeq(s, 1, Len(s))
    BY <1>2, BeginningIsCut
  <1> QED
    BY <1>1, <1>2, <1>3 DEF IsPrefix

\* Without requests, what is the beginning stays it.
LEMMA UnpairedIs ==
    ASSUME NEW x, NEW l \in Seq(Event), NEW m \in Seq(Event)
    PROVE  /\ Seen(x, l) = Seen(x, m) => Unpaired(l) = Unpaired(m)
           /\ Begins(Seen(x, l), Seen(x, m)) => IsPrefix(Unpaired(l), Unpaired(m))
           /\ x.order = "sequential" /\ Begins(Seen(x, l), Seen(x, m)) => IsPrefix(l, m)
  <1> DEFINE y == [order |-> "any"]
  <1>1. \A e : Seen(y, e) = Unpaired(e)
    BY DEF Seen
  <1>2. Seen(y, l) \in Seq(Event) /\ Seen(y, m) \in Seq(Event)
    BY SeenIs
  <1>3. Unpaired(l) \in Seq(Event) /\ Unpaired(m) \in Seq(Event)
    BY <1>1, <1>2
  <1>4. Begins(l, m) => Begins(Unpaired(l), Unpaired(m))
    <2> HAVE Begins(l, m)
    <2>1. Begins(Seen(y, l), Seen(y, m))
      BY SeenBegins
    <2> QED
      BY <1>1, <2>1
  <1>5. CASE x.order = "sequential"
    <2>1. Seen(x, l) = l /\ Seen(x, m) = m
      BY <1>5 DEF Seen
    <2>2. Begins(l, m) => IsPrefix(l, m)
      BY PrefixIs
    <2>3. Begins(Unpaired(l), Unpaired(m)) => IsPrefix(Unpaired(l), Unpaired(m))
      BY <1>3, PrefixIs
    <2> QED
      BY <1>4, <2>1, <2>2, <2>3
  <1>6. CASE x.order # "sequential"
    <2>1. Seen(x, l) = Unpaired(l) /\ Seen(x, m) = Unpaired(m)
      BY <1>6 DEF Seen
    <2>2. Begins(Unpaired(l), Unpaired(m)) => IsPrefix(Unpaired(l), Unpaired(m))
      BY <1>3, PrefixIs
    <2> QED
      BY <1>6, <2>1, <2>2
  <1> QED
    BY <1>5, <1>6

\* What is due is a sequence of events.
LEMMA DueNow ==
    ASSUME IInv, Conforming, NEW d \in Dirs
    PROVE  /\ log[d] \in Seq(Event) /\ Due(d) \in Seq(Event)
           /\ Begins(Seen(exchange, log[d]), Seen(exchange, Due(d)))
  <1>1. /\ exchange \in Exchanges /\ sent[d] \in 0 .. Len(Wires[exchange][d])
        /\ Begins(Seen(exchange, log[d]), Seen(exchange, DueWith[exchange][d][sent[d]]))
        /\ log[d] \in Seq(Event)
    BY DEF IInv, Fixed, ToldRight, TypeOK
  <1>2. DueWith[exchange][d][sent[d]] \in Seq(Event)
    BY <1>1, DueIs
  <1> QED
    BY <1>1, <1>2 DEF Due

\* Between handlers all that is due was told.
LEMMA AllTold ==
    ASSUME InStepNow, NEW d \in Dirs, AtRest(d)
    PROVE  Seen(exchange, log[d]) = Seen(exchange, Due(d))
  <1> DEFINE x == exchange
             s == stream[d]
             n == sent[d]
             l == log[d]
             u == Used(s, n)
  <1>1. Pending(s) = <<>> /\ DueWith[x][d][n] = DueWith[x][d][u]
    BY DEF AtRest, Waits
  <1>2. Seen(x, l \o Pending(s)) = Seen(x, DueWith[x][d][u])
    BY DEF InStepNow, RightOf, Right, Told
  <1>3. l \in Seq(Event)
    BY DEF InStepNow, TypeOK
  <1> HIDE DEF l, s, u, n
  <1>4. l \o <<>> = l
    BY <1>3
  <1>5. l \o Pending(s) = l
    BY <1>1, <1>4
  <1>6. Seen(x, l) = Seen(x, DueWith[x][d][n])
    BY <1>1, <1>2, <1>5
  <1> QED
    BY <1>6 DEF Due, l, n

\* The invariant implies it.
LEMMA DecodedNow ==
    ASSUME IInv, Conforming
    PROVE  DecodedAsSent
  <1>1. ASSUME NEW d \in Dirs, loop = <<>>, ~IsCorrupted
        PROVE  Unpaired(log[d]) = Unpaired(Due(d))
    <2>1. InStepNow /\ Idle
      BY <1>1, InStepFrom DEF IInv
    <2>2. AtRest(d)
      BY <1>1, <2>1, Resting
    <2>3. Seen(exchange, log[d]) = Seen(exchange, Due(d))
      BY <2>1, <2>2, AllTold
    <2>4. log[d] \in Seq(Event) /\ Due(d) \in Seq(Event)
      BY DueNow
    <2> QED
      BY <2>3, <2>4, UnpairedIs
  <1>2. ASSUME NEW d \in Dirs PROVE IsPrefix(Unpaired(log[d]), Unpaired(Due(d)))
    <2>1. /\ log[d] \in Seq(Event) /\ Due(d) \in Seq(Event)
          /\ Begins(Seen(exchange, log[d]), Seen(exchange, Due(d)))
      BY DueNow
    <2> QED
      BY <2>1, UnpairedIs
  <1> QED
    BY <1>1, <1>2 DEF DecodedAsSent

\* The invariant implies it.
LEMMA AnswersNow ==
    ASSUME IInv, Conforming
    PROVE  AnswersItsRequest
  <1>1. ASSUME NEW d \in Dirs, exchange.order = "sequential"
        PROVE  IsPrefix(log[d], Due(d))
    <2>1. /\ log[d] \in Seq(Event) /\ Due(d) \in Seq(Event)
          /\ Begins(Seen(exchange, log[d]), Seen(exchange, Due(d)))
      BY DueNow
    <2> QED
      BY <1>1, <2>1, UnpairedIs
  <1> QED
    BY <1>1 DEF AnswersItsRequest

-----------------------------------------------------------------------------
(* What follows for the statistics *)

\* No two messages of a direction are the same: they are numbered.
LEMMA MessagesDiffer ==
    ASSUME Conforming, NEW x \in Exchanges, NEW d \in Dirs, NEW k \in 0 .. Len(MessagesOf(x, d))
    PROVE  /\ Cardinality(FirstMessages(x, d, k)) = k
           /\ k > 0 => FirstMessages(x, d, k) \ {MessagesOf(x, d)[k]} = FirstMessages(x, d, k - 1)
           /\ k > 0 => FirstMessages(x, d, k - 1) \ {MessagesOf(x, d)[k]} = FirstMessages(x, d, k - 1)
  <1> DEFINE M == MessagesOf(x, d)
  <1>1. Len(M) \in Nat /\ k \in Nat /\ k <= Len(M)
    BY CountOfMessages
  <1>2. \A j \in 1 .. Len(M) : M[j].nr = j
    BY MessageOK
  <1>3. FirstMessages(x, d, k) = {M[j] : j \in 1 .. k} /\ FirstMessages(x, d, k - 1) = {M[j] : j \in 1 .. k - 1}
    BY DEF FirstMessages
  <1> HIDE DEF M
  <1>4. \A i, j \in 1 .. k : M[i] = M[j] => i = j
    BY <1>1, <1>2
  <1>5. Cardinality({M[j] : j \in 1 .. k}) = k
    <2> DEFINE S == {M[j] : j \in 1 .. k}
               f == [j \in 1 .. k |-> M[j]]
    <2>1. f \in [1 .. k -> S] /\ IsInjective(f)
      BY <1>4 DEF IsInjective
    <2>2. \A t \in S : \E j \in 1 .. k : f[j] = t
      OBVIOUS
    <2>3. f \in Bijection(1 .. k, S)
      BY <2>1, <2>2 DEF Bijection, Injection, Surjection
    <2>4. ExistsBijection(1 .. k, S)
      BY <2>3 DEF ExistsBijection
    <2> QED
      BY <1>1, <2>4, FS_CountingElements
  <1>6. k > 0 => {M[j] : j \in 1 .. k} \ {M[k]} = {M[j] : j \in 1 .. k - 1}
    BY <1>1, <1>4
  <1>7. k > 0 => {M[j] : j \in 1 .. k - 1} \ {M[k]} = {M[j] : j \in 1 .. k - 1}
    BY <1>1, <1>4
  <1> QED
    BY <1>3, <1>5, <1>6, <1>7 DEF M

\* Only the message under way can end with the connection.
EndlessOf(x, d, k) == {h \in FirstMessages(x, d, k) : Framing(x, h) = "close"}

\* It is the one under way, if the decoder knows no end of it.
LEMMA EndlessIs ==
    ASSUME Conforming, NEW x \in Exchanges, NEW d \in Dirs, NEW s \in StreamDir, NEW k, NEW u, Placed(x, d, s, k, u)
    PROVE  /\ EndlessOf(x, d, k) = IF s.state = "UNKNOWN_CONTENT" THEN {MessagesOf(x, d)[k]} ELSE {}
           /\ s.state = "UNKNOWN_CONTENT" => k > 0
  <1> DEFINE M == MessagesOf(x, d)
  <1>1. Len(M) \in Nat /\ k \in 0 .. Len(M)
    BY CountOfMessages DEF Placed
  <1>2. \A j \in 1 .. Len(M) : j < Len(M) => Framing(x, M[j]) # "close"
    BY MessageOK
  <1>3. EndlessOf(x, d, k) = {h \in {M[j] : j \in 1 .. k} : Framing(x, h) = "close"}
    BY DEF EndlessOf, FirstMessages
  <1>4. CASE k = 0
    <2>1. s.state # "UNKNOWN_CONTENT"
      BY <1>4 DEF Placed
    <2> QED
      BY <1>3, <1>4, <2>1
  <1>5. CASE k # 0
    <2>1. k \in 1 .. Len(M) /\ k > 0 /\ \A j \in 1 .. k : j = k \/ (j \in 1 .. Len(M) /\ j < Len(M))
      <3> HIDE DEF M
      <3> QED
        BY <1>1, <1>5
    <2>2. Framing(x, M[k]) = "close" <=> s.state = "UNKNOWN_CONTENT"
      <3>1. s.header = M[k] /\ InMessage(x, d, s, k, u) /\ s.state # "CORRUPTED" /\ s.state \in States
        BY <2>1 DEF Placed, StreamDir
      <3> HIDE DEF M
      <3>2. CASE s.state = "HEADER"
        BY <3>1, <3>2 DEF InMessage
      <3>3. CASE s.state = "CONTENT"
        BY <3>1, <3>3 DEF InMessage
      <3>4. CASE s.state = "UNKNOWN_CONTENT"
        BY <3>1, <3>4 DEF InMessage
      <3>5. CASE s.state \in ChunkStates
        BY <3>1, <3>5 DEF InMessage, ChunkStates
      <3> QED
        BY <3>1, <3>2, <3>3, <3>4, <3>5 DEF States, ChunkStates
    <2>3. \A j \in 1 .. k : Framing(x, M[j]) = "close" => j = k
      BY <1>2, <2>1
    <2>4. k \in 1 .. k
      BY <1>1, <2>1
    <2> HIDE DEF M
    <2>5. CASE s.state = "UNKNOWN_CONTENT"
      <3>1. {h \in {M[j] : j \in 1 .. k} : Framing(x, h) = "close"} = {M[k]}
        BY <2>2, <2>3, <2>4, <2>5
      <3> QED
        BY <1>3, <2>1, <2>5, <3>1 DEF M
    <2>6. CASE s.state # "UNKNOWN_CONTENT"
      <3>1. {h \in {M[j] : j \in 1 .. k} : Framing(x, h) = "close"} = {}
        BY <2>2, <2>3, <2>6
      <3> QED
        BY <1>3, <2>6, <3>1
    <2> QED
      BY <2>5, <2>6
  <1> QED
    BY <1>4, <1>5

\* Content of a known size is not over before its last cell is used.
LEMMA NotOver ==
    ASSUME Conforming, NEW x \in Exchanges, NEW d \in Dirs, NEW s, OKDir(s), NEW k, NEW u, Placed(x, d, s, k, u),
           Pending(s) = <<>>, s.state \notin {"HEADER", "UNKNOWN_CONTENT"}
    PROVE  u < EndsOf[x][d][k]
  <1> DEFINE M == MessagesOf(x, d)
             e == EndsOf[x][d][k - 1]
             end == EndsOf[x][d][k]
  <1>1. Len(M) \in Nat /\ k \in 0 .. Len(M) /\ k # 0
    BY CountOfMessages DEF Placed
  <1>2. k \in 1 .. Len(M) /\ k > 0
    BY <1>1
  <1>3. s.header = M[k] /\ InMessage(x, d, s, k, u) /\ s.state # "CORRUPTED" /\ s.state \in States
    BY <1>2 DEF Placed, OKDir, StreamDir
  <1>4. s.contentReceived \in Nat /\ s.contentLength \in Nat /\ s.chunkLength \in Nat
    BY DEF OKDir, StreamDir
  <1>5. CASE s.state = "CONTENT"
    <2>1. Framing(x, M[k]) = "length" /\ s.contentLength = M[k].length /\ u = e + 5 + s.contentReceived
      BY <1>3, <1>5 DEF InMessage
    <2>2. s.contentLength # 0
      BY <1>5 DEF Pending
    <2>3. s.contentReceived < s.contentLength
      BY <1>3, <1>5, <2>2 DEF InMessage
    <2>4. end = e + 5 + Len(Body(x, M[k])) /\ e \in Nat
      BY <1>2, EndsAre, HeadingIs
    <2>5. Len(Body(x, M[k])) = M[k].length
      <3>1. M[k] \in Headers /\ Asked(x, M[k]) \in Headers \cup {NoHeader}
        BY <1>2, MessageOK
      <3> QED
        BY <2>1, <3>1, BodyOK
    <2> HIDE DEF M, e, end
    <2>6. u < end
      BY <1>4, <2>1, <2>3, <2>4, <2>5
    <2> QED
      BY <2>6 DEF end
  <1>6. CASE s.state \in ChunkStates
    <2>1. PICK j \in 0 .. Len(Chunks), at \in Nat : OnChunk(x, d, s, k, u, j, at)
      BY <1>6, ChunkPlace
    <2>2. /\ NextSize(j) \in Nat /\ at + NextSize(j) + 5 <= end
          /\ s.state = "CHUNK_SIZE" => u = at
          /\ s.state = "CHUNK_DATA" => s.chunkLength = NextSize(j) /\ u = at + 3 + s.contentReceived
          /\ s.state = "CHUNK_END" => u = at + 3 + NextSize(j)
      BY <2>1 DEF OnChunk
    <2>3. s.state = "CHUNK_DATA" => s.contentReceived <= s.chunkLength
      BY DEF OKDir, CountersFit
    <2>4. end \in Nat
      BY <1>2, HeadingIs
    <2> HIDE DEF end
    <2>5. u < end
      BY <1>4, <1>6, <2>2, <2>3, <2>4, SMTT(30) DEF ChunkStates
    <2> QED
      BY <2>5 DEF end
  <1> QED
    BY <1>3, <1>5, <1>6 DEF States, ChunkStates

\* Of the messages that have begun, those that have come to their end, in one
\* direction where all that came is used
OverOf(x, d, k, c) == {h \in FirstMessages(x, d, k) : \E n \in 0 .. c : n > 0 /\ MessagesOf(x, d)[n] = h}

\* What is counted as processed is what has come to its end, with the
\* message that the end of the connection ends once it is closed.
OverTold(x, d, k, c, numOK, closing) ==
    numOK = Cardinality(OverOf(x, d, k, c) \ EndlessOf(x, d, k))
              + (IF closing THEN Cardinality(EndlessOf(x, d, k)) ELSE 0)

\* The counter numOK says that.
LEMMA OverIs ==
    ASSUME Conforming, NEW x \in Exchanges, NEW d \in Dirs, NEW s, OKDir(s), NEW k, NEW u, Placed(x, d, s, k, u),
           Pending(s) = <<>>, EndsOf[x][d][k] \in Nat, s.state = "HEADER" => u = EndsOf[x][d][k],
           NEW c, c = IF u < EndsOf[x][d][k] THEN k - 1 ELSE k,
           NEW closing \in BOOLEAN, NEW numOK, numOK = IF IsOver(s, closing) THEN k ELSE k - 1
    PROVE  OverTold(x, d, k, c, numOK, closing)
  <1> DEFINE M == MessagesOf(x, d)
             over == OverOf(x, d, k, c)
             endless == EndlessOf(x, d, k)
  <1>1. Len(M) \in Nat /\ k \in 0 .. Len(M) /\ k \in Nat /\ (c = k \/ c = k - 1) /\ c \in Nat
    <2>1. Len(M) \in Nat /\ k \in 0 .. Len(M) /\ (k = 0 => s.state = "HEADER")
      BY CountOfMessages DEF Placed
    <2>2. s.state = "HEADER" => c = k
      OBVIOUS
    <2> HIDE DEF M
    <2>3. k \in Nat /\ (c = k \/ c = k - 1)
      BY <2>1
    <2> QED
      BY <2>1, <2>2, <2>3
  <1>2. over = FirstMessages(x, d, c)
    <2>1. FirstMessages(x, d, k) = {M[j] : j \in 1 .. k} /\ FirstMessages(x, d, c) = {M[j] : j \in 1 .. c}
      BY DEF FirstMessages
    <2>2. over = {h \in {M[j] : j \in 1 .. k} : \E n \in 0 .. c : n > 0 /\ M[n] = h}
      BY <2>1 DEF OverOf
    <2> HIDE DEF M, over
    <2>3. {h \in {M[j] : j \in 1 .. k} : \E n \in 0 .. c : n > 0 /\ M[n] = h} = {M[j] : j \in 1 .. c}
      BY <1>1
    <2> QED
      BY <2>1, <2>2, <2>3
  <1>3. endless = (IF s.state = "UNKNOWN_CONTENT" THEN {M[k]} ELSE {}) /\ (s.state = "UNKNOWN_CONTENT" => k > 0)
    <2>1. s \in StreamDir
      BY DEF OKDir
    <2> QED
      BY <2>1, EndlessIs
  <1>4. s.state = "HEADER" => u = EndsOf[x][d][k] /\ ~(u < EndsOf[x][d][k])
    OBVIOUS
  <1>5. Cardinality({}) = 0 /\ Cardinality({M[k]}) = 1
    BY FS_EmptySet, FS_Singleton
  <1>6. CASE s.state = "HEADER"
    <2>1. c = k /\ numOK = k /\ endless = {}
      BY <1>3, <1>4, <1>6 DEF IsOver
    <2>2. Cardinality(FirstMessages(x, d, k)) = k
      BY <1>1, MessagesDiffer
    <2>3. over \ endless = FirstMessages(x, d, k)
      BY <1>2, <2>1
    <2> HIDE DEF over, endless
    <2>4. numOK = Cardinality(over \ endless) + (IF closing THEN Cardinality(endless) ELSE 0)
      BY <1>1, <1>5, <2>1, <2>2, <2>3
    <2> QED
      BY <2>4 DEF OverTold, over, endless
  <1>7. CASE s.state = "UNKNOWN_CONTENT"
    <2>1. k > 0 /\ endless = {M[k]} /\ numOK = (IF closing THEN k ELSE k - 1)
      BY <1>3, <1>7 DEF IsOver
    <2>2. over \ endless = FirstMessages(x, d, k - 1)
      <3>1. /\ FirstMessages(x, d, k) \ {M[k]} = FirstMessages(x, d, k - 1)
            /\ FirstMessages(x, d, k - 1) \ {M[k]} = FirstMessages(x, d, k - 1)
        BY <1>1, <2>1, MessagesDiffer
      <3> QED
        BY <1>1, <1>2, <2>1, <3>1
    <2>3. Cardinality(FirstMessages(x, d, k - 1)) = k - 1
      <3>1. k - 1 \in 0 .. Len(M)
        <4> HIDE DEF M
        <4> QED
          BY <1>1, <2>1
      <3> QED
        BY <3>1, MessagesDiffer
    <2>4. Cardinality(over \ endless) = k - 1 /\ Cardinality(endless) = 1
      BY <1>5, <2>1, <2>2, <2>3
    <2> HIDE DEF over, endless
    <2>5. numOK = Cardinality(over \ endless) + (IF closing THEN Cardinality(endless) ELSE 0)
      BY <1>1, <2>1, <2>4
    <2> QED
      BY <2>5 DEF OverTold, over, endless
  <1>8. CASE s.state \notin {"HEADER", "UNKNOWN_CONTENT"}
    <2>1. u < EndsOf[x][d][k]
      BY <1>8, NotOver
    <2>2. c = k - 1 /\ numOK = k - 1 /\ endless = {}
      BY <1>3, <1>8, <2>1 DEF IsOver
    <2>3. Cardinality(FirstMessages(x, d, k - 1)) = k - 1
      <3>1. k - 1 \in 0 .. Len(M)
        <4> HIDE DEF M
        <4> QED
          BY <1>1, <2>2
      <3> QED
        BY <3>1, MessagesDiffer
    <2>4. over \ endless = FirstMessages(x, d, k - 1)
      BY <1>2, <2>2
    <2> HIDE DEF over, endless
    <2>5. numOK = Cardinality(over \ endless) + (IF closing THEN Cardinality(endless) ELSE 0)
      BY <1>1, <1>5, <2>2, <2>3, <2>4
    <2> QED
      BY <2>5 DEF OverTold, over, endless
  <1> QED
    BY <1>6, <1>7, <1>8

\* The invariant implies it.
LEMMA StatsNow ==
    ASSUME IInv, Conforming
    PROVE  StatsTellMessages
  <1> SUFFICES ASSUME NEW d \in Dirs, loop = <<>>, ~IsCorrupted
               PROVE  LET kind == IF d = "in" THEN "requests" ELSE "responses"
                          told == {log[d][i].header : i \in HeadersTold(d)}
                          over == {h \in told : \E n \in 0 .. Complete(d) : n > 0 /\ Messages(d)[n] = h}
                          endless == {h \in told : Framing(exchange, h) = "close"}
                      IN  /\ stats[kind]["numHeaders"] = Cardinality(told)
                          /\ stats[kind]["numNormal"] + stats[kind]["numChunked"] + stats[kind]["numUnkownSize"]
                                + stats[kind]["numWithoutPayload"] = Cardinality(told)
                          /\ stats[kind]["numOK"] = Cardinality(over \ endless)
                                + (IF phase = "open" THEN 0 ELSE Cardinality(endless))
    BY DEF StatsTellMessages
  <1> DEFINE x == exchange
             s == stream[d]
             n == sent[d]
             c == stats[Kind(d)]
             k == Begun(d)
             u == Used(s, n)
             told == {log[d][i].header : i \in HeadersTold(d)}
  <1>1. InStepNow /\ Idle
    BY InStepFrom DEF IInv
  <1>2. AtRest(d)
    BY <1>1, Resting
  <1>3. OKDir(s) /\ n \in Nat /\ k \in Nat /\ x \in Exchanges
    BY <1>1, DirectionIs DEF InStepNow
  <1>4. Buffered(x, d, s, n) /\ Placed(x, d, s, k, u)
    BY <1>1, BehindIs
  <1>5. Counted(x, d, s, k, c, log[d], phase # "open")
    BY <1>1 DEF InStepNow, RightOf, Right, Begun
  <1>6. told = FirstMessages(x, d, k)
    BY <1>5 DEF Counted, HeadersIn, HeadersTold
  <1>7. Complete(d) = IF u < EndsOf[x][d][k] THEN k - 1 ELSE k
    BY <1>1, <1>2, CompleteNow
  <1>8. Pending(s) = <<>>
    BY <1>2 DEF AtRest, Waits
  <1> HIDE DEF s, n, k, c, x
  <1>9. /\ k \in 0 .. Len(MessagesOf(x, d)) /\ EndsOf[x][d][k] \in Nat
        /\ s.state = "HEADER" => u = EndsOf[x][d][k]
    BY <1>3, <1>4, PlacedIs
  <1>10. Cardinality(FirstMessages(x, d, k)) = k
    BY <1>3, <1>9, MessagesDiffer
  <1> DEFINE closing == phase # "open"
  <1>11. c["numOK"] = IF IsOver(s, closing) THEN k ELSE k - 1
    BY <1>5 DEF Counted
  <1>12. OverTold(x, d, k, Complete(d), c["numOK"], closing)
    <2>1. closing \in BOOLEAN
      OBVIOUS
    <2> HIDE DEF closing, u
    <2> QED
      BY <1>3, <1>4, <1>7, <1>8, <1>9, <1>11, <2>1, OverIs
  <1>13. c["numHeaders"] = k
    BY DEF k, c, Begun
  <1>14. c["numNormal"] + c["numChunked"] + c["numUnkownSize"] + c["numWithoutPayload"] = k
    BY <1>5 DEF Counted
  <1> DEFINE over == {h \in told : \E i \in 0 .. Complete(d) : i > 0 /\ Messages(d)[i] = h}
             endless == {h \in told : Framing(exchange, h) = "close"}
  <1>15. over = OverOf(x, d, k, Complete(d)) /\ endless = EndlessOf(x, d, k)
    BY <1>6 DEF OverOf, EndlessOf, Messages, x
  <1>16. c["numOK"] = Cardinality(over \ endless) + (IF phase = "open" THEN 0 ELSE Cardinality(endless))
    <2> HIDE DEF over, endless, told
    <2> QED
      BY <1>12, <1>15 DEF OverTold
  <1>17. Cardinality(told) = k
    BY <1>6, <1>10
  <1>18. c = stats[IF d = "in" THEN "requests" ELSE "responses"]
    BY DEF c, Kind
  <1> QED
    BY <1>13, <1>14, <1>16, <1>17, <1>18

-----------------------------------------------------------------------------
(* The theorems *)

\* Wherever the two streams are cut and however they interleave, the listeners
\* are told what was sent (HTTPDecoder::check, HTTPStream).
THEOREM ListenersAreTold ==
    ASSUME Conforming
    PROVE  ExchangeSpec => []DecodedAsSent
  <1>1. IInv => DecodedAsSent
    BY DecodedNow
  <1> QED
    BY <1>1, Understands, PTL

\* While the client waits for each response, a response is told with the
\* request it answers (HTTPStreamDir::header of the other direction).
THEOREM RightRequest ==
    ASSUME Conforming
    PROVE  ExchangeSpec => []AnswersItsRequest
  <1>1. IInv => AnswersItsRequest
    BY AnswersNow
  <1> QED
    BY <1>1, Understands, PTL

\* No connection of agreeing ends is given up, but for a header that the
\* decoder does not support or a response without request (state CORRUPTED).
THEOREM NotWithoutReason ==
    ASSUME Conforming
    PROVE  ExchangeSpec => []GivenUpForAReason
  <1>1. IInv => GivenUpForAReason
    BY DEF IInv
  <1> QED
    BY <1>1, Understands, PTL

\* HTTPDecoderStats say what happened to each message.
THEOREM StatsAreRight ==
    ASSUME Conforming
    PROVE  ExchangeSpec => []StatsTellMessages
  <1>1. IInv => StatsTellMessages
    BY StatsNow
  <1> QED
    BY <1>1, Understands, PTL

\* onClose() finds nothing that was captured and not decoded.
THEOREM NothingLeftAtClose ==
    ASSUME Conforming
    PROVE  ExchangeSpec => []CloseFinds
  <1>1. IInv => CloseFinds
    BY DEF IInv, Idle
  <1> QED
    BY <1>1, Understands, PTL

=============================================================================
