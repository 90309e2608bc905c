-------------------------- MODULE TCPCaptureProofs --------------------------
(***************************************************************************)
(* Proofs about TCPReassembler, for any connections, buffer size, timeout  *)
(* and packets, and about TCPCapture on top of it, for any segments of the *)
(* ends and anything a sniffer can do with them, as long as the code can   *)
(* tell the connections and their ends apart.                              *)
(***************************************************************************)
EXTENDS TCPCapture, SequenceLemmas, FiniteSetTheorems

-----------------------------------------------------------------------------
(* Arbitrary packets *)

\* The id and the direction of a packet have the types of map key and field.
LEMMA PacketTypes ==
    ASSUME NEW p \in Packet
    PROVE  /\ StreamId(p) \in Nat \X Nat
           /\ DstPort(p) \in Nat
           /\ PayloadOf(p) \in Payload
           /\ \A s : DirOf(p, s) \in Dirs
  <1>1. p.conn \in [initIP : Nat, respIP : Nat, initPort : Nat, respPort : Nat]
    BY ConnsAssumption DEF Packet
  <1>2. QED
    BY <1>1 DEF Packet, StreamId, DstPort, PayloadOf, Payload, DirOf, Dirs

\* Sequence numbers stay below SeqSpace.
LEMMA SeqModulo ==
    ASSUME NEW n \in Nat
    PROVE  n % SeqSpace \in SeqNumbers
  BY SizesAssumption DEF SeqNumbers

\* A counter may go up by any number, numOpenConnections also down.
LEMMA StatsUpdate ==
    ASSUME NEW st \in Stats, NEW n \in Nat
    PROVE  /\ [st EXCEPT !.numPackets = @ + n] \in Stats
           /\ [st EXCEPT !.numIDCollision = @ + n] \in Stats
           /\ [st EXCEPT !.numOpenConnections = @ - n] \in Stats
           /\ [st EXCEPT !.numPurgedConnections = @ + n] \in Stats
           /\ [st EXCEPT !.numPacketsIgnored = @ + n] \in Stats
           /\ [st EXCEPT !.numSeqNumberMismatch = @ + n] \in Stats
           /\ [st EXCEPT !.numSeqNumberReOrdered = @ + n] \in Stats
           /\ [st EXCEPT !.numRetransmits = @ + n] \in Stats
           /\ [st EXCEPT !.numErrors = @ + n] \in Stats
  BY DEF Stats

\* The numbers the accounting is about
LEMMA StatsNumbers ==
    ASSUME NEW st \in Stats
    PROVE  /\ st.numConnections \in Nat /\ st.numOpenConnections \in Int
           /\ st.numPurgedConnections \in Nat /\ st.numIDCollision \in Nat
           /\ st.numErrors \in Nat
  BY DEF Stats

\* Counting a packet keeps the statistics what they are.
LEMMA CountedOK ==
    ASSUME TypeOK, NEW p
    PROVE  /\ Counted(p) \in Stats
           /\ Counted(p).numSeqNumberMismatch = stats.numSeqNumberMismatch
           /\ Counted(p).numPurgedConnections = stats.numPurgedConnections
           /\ Counted(p).numIDCollision = stats.numIDCollision
           /\ Counted(p).numErrors = stats.numErrors
           /\ IsOpening(p) =>
                /\ Counted(p).numOpenConnections = stats.numOpenConnections + 1
                /\ Counted(p).numConnections = stats.numConnections + 1
           /\ ~IsOpening(p) =>
                /\ Counted(p).numOpenConnections = stats.numOpenConnections
                /\ Counted(p).numConnections = stats.numConnections
  <1>1. stats \in Stats
    BY DEF TypeOK
  <1>2. CASE IsOpening(p)
    <2>1. Counted(p) = [stats EXCEPT !.numPackets = stats.numPackets + 1,
                                     !.numConnections = stats.numConnections + 1,
                                     !.numOpenConnections = stats.numOpenConnections + 1]
      BY <1>2 DEF Counted
    <2> DEFINE c1 == [stats EXCEPT !.numPackets = stats.numPackets + 1]
               c2 == [c1 EXCEPT !.numConnections = stats.numConnections + 1]
    <2>a. c1 \in Stats
      BY <1>1 DEF Stats
    <2>b. c2 \in Stats
      <3> HIDE DEF c1
      <3> QED BY <1>1, <2>a DEF Stats
    <2>c. [c2 EXCEPT !.numOpenConnections = stats.numOpenConnections + 1] \in Stats
      <3> HIDE DEF c2
      <3> QED BY <1>1, <2>b DEF Stats
    <2>2. Counted(p) \in Stats
      BY <2>1, <2>c, Zenon
    <2>3. /\ Counted(p).numSeqNumberMismatch = stats.numSeqNumberMismatch
          /\ Counted(p).numPurgedConnections = stats.numPurgedConnections
          /\ Counted(p).numIDCollision = stats.numIDCollision
          /\ Counted(p).numErrors = stats.numErrors
          /\ Counted(p).numOpenConnections = stats.numOpenConnections + 1
          /\ Counted(p).numConnections = stats.numConnections + 1
      BY <1>1, <2>1 DEF Stats
    <2>4. QED
      BY <1>2, <2>2, <2>3
  <1>3. CASE ~IsOpening(p)
    BY <1>1, <1>3 DEF Counted, Stats
  <1>4. QED
    BY <1>2, <1>3

\* The stream a packet is for is well formed before its payload is looked at.
LEMMA SubjectOK ==
    ASSUME TypeOK, NEW p \in Packet, IsFor(p)
    PROVE  /\ StreamOK(Subject(p))
           /\ KnownListeners(p) \in Seq(Listener)
  <1>1. CASE IsOpening(p)
    <2>1. NewStream(p) \in Stream
      BY PacketTypes, SizesAssumption
      DEF NewStream, Stream, Packet, TypeOK, SeqNumbers, Dirs
    <2>2. \A d \in Dirs : NewStream(p).buffer[d] = {}
      BY DEF NewStream
    <2>3. StreamOK(NewStream(p))
      BY <2>1, <2>2, FS_EmptySet, SizesAssumption DEF StreamOK
    <2>4. NewListener \in Listener
      BY DEF NewListener, Listener
    <2>5. QED
      BY <1>1, <2>3, <2>4 DEF Subject, KnownListeners, TypeOK
  <1>2. CASE ~IsOpening(p)
    <2>1. StreamOK(streams[StreamId(p)])
      BY <1>2 DEF IsFor, IsTracked, TypeOK
    <2>2. StreamOK(Subject(p))
      BY <1>2, <2>1 DEF Subject, StreamOK, Stream, Packet, Dirs
    <2>3. QED
      BY <1>2, <2>2 DEF KnownListeners, TypeOK
  <1>3. QED
    BY <1>1, <1>2

-----------------------------------------------------------------------------
(* Type correctness *)

\* What remains of a table after streams of it were released is well formed.
LEMMA ReleaseOK ==
    ASSUME NEW table, DOMAIN table \subseteq Nat \X Nat, IsFiniteSet(DOMAIN table),
           NEW ids, ids \subseteq DOMAIN table,
           \A id \in DOMAIN table \ ids : StreamOK(table[id]),
           NEW ls \in Seq(Listener), NEW objs \in SUBSET Nat,
           Release(table, ids, ls, objs)
    PROVE  /\ DOMAIN streams' = DOMAIN table \ ids
           /\ DOMAIN streams' \subseteq Nat \X Nat
           /\ IsFiniteSet(DOMAIN streams')
           /\ \A id \in DOMAIN streams' : streams'[id] = table[id] /\ StreamOK(streams'[id])
           /\ listeners' \in Seq(Listener)
           /\ heap' \subseteq Nat
  <1>1. DOMAIN streams' = DOMAIN table \ ids
        /\ \A id \in DOMAIN streams' : streams'[id] = table[id]
    BY DEF Release, Without
  <1>2. IsFiniteSet(DOMAIN streams')
    BY <1>1, FS_Subset
  <1>3. listeners' \in Seq(Listener)
    <2> DEFINE L == {table[id].listener : id \in ids}
    <2>1. listeners' = [l \in 1 .. Len(ls) |->
                          IF l \in L THEN [ls[l] EXCEPT !.closes = @ + 1] ELSE ls[l]]
      BY DEF Release, CloseListeners
    <2>2. \A l \in 1 .. Len(ls) :
            (IF l \in L THEN [ls[l] EXCEPT !.closes = @ + 1] ELSE ls[l]) \in Listener
      <3> TAKE l \in 1 .. Len(ls)
      <3>1. ls[l] \in Listener
        BY ElementOfSeq
      <3>2. ls[l].closes + 1 \in Nat
        BY <3>1 DEF Listener
      <3>3. [ls[l] EXCEPT !.closes = ls[l].closes + 1] \in Listener
        BY <3>1, <3>2 DEF Listener
      <3> HIDE DEF L
      <3> QED BY <3>1, <3>3, Zenon
    <2> HIDE DEF L
    <2>3. Len(ls) \in Nat
      BY LenProperties
    <2> QED BY <2>1, <2>2, <2>3
  <1>4. heap' \subseteq Nat
    BY DEF Release
  <1>5. QED
    BY <1>1, <1>2, <1>3, <1>4

\* The end of the handler leaves a stream that is not over well formed.
LEMMA AfterOK ==
    ASSUME TypeOK, NEW p \in Packet, NEW s, StreamOK(s)
    PROVE  /\ After(p, s).listener = s.listener
           /\ After(p, s).buffer = s.buffer
           /\ ~IsOver(p, After(p, s)) => StreamOK(After(p, s))
  <1> DEFINE d == DirOf(p, s)
             nx == IF "SYN" \in p.flags THEN (s.next[d] + 1) % SeqSpace ELSE s.next[d]
             fins == IF "FIN" \in p.flags THEN s.numFIN + 1 ELSE s.numFIN
             a == After(p, s)
  <1>1. s \in Stream /\ d \in Dirs /\ now \in Clock
    BY PacketTypes DEF StreamOK, TypeOK
  <1>2. nx \in SeqNumbers
    <2>1. s.next[d] \in SeqNumbers /\ s.next[d] + 1 \in Nat
      BY <1>1 DEF Stream, SeqNumbers
    <2>2. QED
      BY <2>1, SeqModulo
  <1>3. a = [s EXCEPT !.lastActivityTs = now, !.next = [s.next EXCEPT ![d] = nx],
                      !.numFIN = fins]
    BY <1>1 DEF After, Stream
  <1> HIDE DEF d, nx, a
  <1>4. /\ a.listener = s.listener /\ a.buffer = s.buffer /\ a.numFIN = fins
        /\ a.localPort = s.localPort /\ a.lastActivityTs = now
        /\ a.next = [s.next EXCEPT ![d] = nx]
    BY <1>1, <1>3 DEF Stream
  <1>5. ASSUME ~IsOver(p, a)
        PROVE  a \in Stream
    <2>1. fins \in {0, 1}
      BY <1>1, <1>4, <1>5 DEF IsOver, Stream
    <2>2. [s.next EXCEPT ![d] = nx] \in [Dirs -> SeqNumbers]
      BY <1>1, <1>2 DEF Stream
    <2> HIDE DEF fins
    <2>3. QED
      BY <1>1, <1>3, <2>1, <2>2 DEF Stream
  <1>6. QED
    BY <1>4, <1>5 DEF StreamOK, a

\* Every outcome that ends with a purge keeps the types.
LEMMA FinishOK ==
    ASSUME TypeOK, NEW p \in Packet, IsFor(p),
           NEW s, StreamOK(s), NEW ls \in Seq(Listener), NEW objs \in SUBSET Nat,
           NEW st \in Stats, Finish(p, s, ls, objs, st)
    PROVE  TypeOK'
  <1> DEFINE table == Store(p, After(p, s))
             done == IF IsOver(p, After(p, s)) THEN {StreamId(p)} ELSE {}
             purging == purgeCnt + 1 >= PurgeEvery
             old == IF purging THEN Idle(table) \ done ELSE {}
             counted == [st EXCEPT !.numPurgedConnections = @ + Cardinality(old)]
  <1>1. /\ purgeCnt' = IF purging THEN 0 ELSE purgeCnt + 1
        /\ Release(table, done \cup old, ls, objs)
        /\ stats' = [counted EXCEPT !.numOpenConnections = @ - Cardinality(done \cup old)]
        /\ alive' = alive /\ now' = now
    BY DEF Finish, CloseStreams
  <1>2. /\ DOMAIN table = DOMAIN streams \cup {StreamId(p)}
        /\ DOMAIN table \subseteq Nat \X Nat
        /\ IsFiniteSet(DOMAIN table)
    <2>1. /\ StreamId(p) \in Nat \X Nat
          /\ DOMAIN streams \subseteq Nat \X Nat /\ IsFiniteSet(DOMAIN streams)
      BY PacketTypes DEF TypeOK
    <2>2. IsFiniteSet(DOMAIN streams \cup {StreamId(p)})
      BY <2>1, FS_AddElement
    <2>3. DOMAIN table = DOMAIN streams \cup {StreamId(p)}
      BY DEF Store
    <2> HIDE DEF table
    <2> QED
      BY <2>1, <2>2, <2>3
  <1>3. /\ old \subseteq DOMAIN table
        /\ done \subseteq DOMAIN table
    BY <1>2 DEF Idle
  <1>4. \A id \in DOMAIN table \ (done \cup old) : StreamOK(table[id])
    <2> TAKE id \in DOMAIN table \ (done \cup old)
    <2>1. CASE id = StreamId(p)
      BY <2>1, AfterOK DEF Store
    <2>2. CASE id # StreamId(p)
      BY <2>2 DEF Store, TypeOK
    <2>3. QED
      BY <2>1, <2>2
  <1>5. Cardinality(old) \in Nat /\ Cardinality(done \cup old) \in Nat
    BY <1>2, <1>3, FS_Subset, FS_CardinalityType
  <1> HIDE DEF table, done, old
  <1>6. stats' \in Stats
    <2>1. counted \in Stats
      BY <1>5, StatsUpdate
    <2> HIDE DEF counted
    <2>2. QED
      BY <1>1, <1>5, <2>1, StatsUpdate
  <1>7. purgeCnt' \in 0 .. PurgeEvery - 1
    BY <1>1, SizesAssumption DEF TypeOK
  <1>8. QED
    BY <1>1, <1>2, <1>3, <1>4, <1>6, <1>7, ReleaseOK DEF TypeOK

\* Telling a listener of data keeps the listeners what they are.
LEMMA InformOK ==
    ASSUME NEW ls \in Seq(Listener), NEW l \in DOMAIN ls, NEW d \in Dirs,
           NEW out \in Seq(Payload)
    PROVE  /\ Inform(ls, l, d, out) \in Seq(Listener)
           /\ DOMAIN Inform(ls, l, d, out) = DOMAIN ls
           /\ \A k \in DOMAIN ls : /\ Inform(ls, l, d, out)[k].closes = ls[k].closes
                                   /\ k # l => Inform(ls, l, d, out)[k] = ls[k]
  <1> DEFINE data == [ls[l].data EXCEPT ![d] = @ \o out]
             new == [ls[l] EXCEPT !.data = data]
  <1>1. ls[l] \in Listener /\ l \in 1 .. Len(ls) /\ Len(ls) \in Nat
    BY LenProperties, ElementOfSeq
  <1>2. ls[l].data[d] \o out \in Seq(Payload)
    BY <1>1, ConcatProperties DEF Listener
  <1>3. data \in [Dirs -> Seq(Payload)]
    BY <1>1, <1>2 DEF Listener
  <1>4. Inform(ls, l, d, out) = [ls EXCEPT ![l] = new]
    BY DEF Inform
  <1> HIDE DEF data
  <1>5. new \in Listener /\ new.closes = ls[l].closes
    BY <1>1, <1>3 DEF Listener
  <1> HIDE DEF new
  <1>6. [ls EXCEPT ![l] = new] \in Seq(Listener)
    BY <1>1, <1>5, ExceptSeq
  <1>7. QED
    BY <1>4, <1>5, <1>6

\* The listener of the stream a packet is for is one of those known.
LEMMA SubjectListener ==
    ASSUME TypeOK, ListenerLifecycle, NEW p \in Packet, IsFor(p)
    PROVE  Subject(p).listener \in DOMAIN KnownListeners(p)
  <1>1. CASE IsOpening(p)
    <2>1. Len(KnownListeners(p)) = Len(listeners) + 1
      BY <1>1, AppendProperties DEF KnownListeners, TypeOK, NewListener, Listener
    <2>2. DOMAIN KnownListeners(p) = 1 .. Len(KnownListeners(p)) /\ Len(listeners) \in Nat
      BY SubjectOK, LenProperties DEF TypeOK
    <2>3. QED
      BY <1>1, <2>1, <2>2 DEF Subject, NewStream
  <1>2. CASE ~IsOpening(p)
    <2>1. streams[StreamId(p)] \in Stream /\ StreamId(p) \in DOMAIN streams
      BY <1>2 DEF IsFor, IsTracked, TypeOK, StreamOK
    <2>2. Subject(p).listener = streams[StreamId(p)].listener
      BY <1>2, <2>1 DEF Subject, Stream
    <2>3. QED
      BY <1>2, <2>1, <2>2 DEF KnownListeners, ListenerLifecycle, Owns
  <1>3. QED
    BY <1>1, <1>2

\* The vector of the segments found in the buffer, as it is passed on.
LEMMA OrderedOK ==
    ASSUME NEW G \in SUBSET Segment, IsFiniteSet(G), NEW o \in Ordered(G)
    PROVE  [i \in DOMAIN o |-> o[i].data] \in Seq(Payload)
  <1>1. Cardinality(G) \in Nat
    BY FS_CardinalityType
  <1>2. o \in [1 .. Cardinality(G) -> G]
    BY DEF Ordered
  <1>3. \A i \in 1 .. Cardinality(G) : o[i].data \in Payload
    BY <1>2 DEF Segment
  <1>4. QED
    BY <1>1, <1>2, <1>3

\* The counters the accounting is about are those of Counted(p).
SameAccounts(p, st) ==
    /\ st \in Stats
    /\ st.numConnections = Counted(p).numConnections
    /\ st.numOpenConnections = Counted(p).numOpenConnections
    /\ st.numPurgedConnections = Counted(p).numPurgedConnections
    /\ st.numIDCollision = Counted(p).numIDCollision
    /\ st.numErrors = Counted(p).numErrors

\* What the handler does with the buffers, the segments and the listener of a
\* stream: nothing, ...
Keeps(p, s, ls, objs, st) ==
    /\ s.buffer = Subject(p).buffer
    /\ objs = heap
    /\ ls = KnownListeners(p)
    /\ st.numSeqNumberMismatch = stats.numSeqNumberMismatch

\* ... or it tells the listener of the payload, and of some that was buffered, ...
Passes(p, s, ls, objs, st) ==
    LET d == DirOf(p, Subject(p))
    IN  \E hits \in SUBSET Subject(p).buffer[d], out \in Seq(Payload) :
           /\ s.buffer = [Subject(p).buffer EXCEPT ![d] = @ \ hits]
           /\ objs = heap \ {g.at : g \in hits}
           /\ ls = Inform(KnownListeners(p), s.listener, d, out)
           /\ \A i \in DOMAIN out : out[i] = PayloadOf(p) \/ \E g \in hits : out[i] = g.data
           /\ st.numSeqNumberMismatch = stats.numSeqNumberMismatch

\* ... or it buffers the payload.
Waits(p, s, ls, objs, st) ==
    LET d == DirOf(p, Subject(p))
        g == [at |-> stats.numSeqNumberMismatch, data |-> PayloadOf(p)]
    IN  /\ s.buffer = [Subject(p).buffer EXCEPT ![d] = @ \cup {g}]
        /\ objs = heap \cup {g.at}
        /\ ls = KnownListeners(p)
        /\ st.numSeqNumberMismatch = stats.numSeqNumberMismatch + 1

\* The handler gets to its end with the stream s, the listeners ls and the
\* segments objs, all well formed, and no listener but the stream's own was
\* told of anything.
Proceeds(p, s, ls, objs, st) ==
    /\ IsFor(p)
    /\ StreamOK(s)
    /\ s.listener = Subject(p).listener
    /\ s.localPort = Subject(p).localPort
    /\ Keeps(p, s, ls, objs, st) \/ Passes(p, s, ls, objs, st) \/ Waits(p, s, ls, objs, st)
    /\ ls \in Seq(Listener)
    /\ DOMAIN ls = DOMAIN KnownListeners(p)
    /\ \A l \in DOMAIN ls : /\ ls[l].closes = KnownListeners(p)[l].closes
                            /\ l # s.listener => ls[l] = KnownListeners(p)[l]
    /\ objs \in SUBSET Nat
    /\ SameAccounts(p, st)
    /\ Finish(p, s, ls, objs, st)

\* Handing on a segment gets to the end of the handler.
LEMMA DeliverProceeds ==
    ASSUME TypeOK, ListenerLifecycle, NEW p \in Packet, Deliver(p)
    PROVE  \E s, ls, objs, st : Proceeds(p, s, ls, objs, st)
  <1> DEFINE s == Subject(p)
             d == DirOf(p, s)
             next == (p.seq + p.len) % SeqSpace
             hits == {g \in s.buffer[d] : g.data.seq = next}
             left == [s EXCEPT !.next[d] = next, !.buffer[d] = @ \ hits]
             st == [Counted(p) EXCEPT !.numSeqNumberReOrdered = @ + Cardinality(hits)]
  <1>1. IsFor(p)
    BY DEF Deliver
  <1>2. StreamOK(s) /\ KnownListeners(p) \in Seq(Listener)
    BY <1>1, SubjectOK
  <1>3. d \in Dirs
    BY PacketTypes
  <1>4. next \in SeqNumbers
    <2>1. p.seq + p.len \in Nat
      BY DEF Packet, SeqNumbers
    <2>2. QED
      BY <2>1, SeqModulo
  <1>5. hits \in SUBSET Segment /\ IsFiniteSet(hits)
    <2>1. s.buffer[d] \in SUBSET Segment /\ IsFiniteSet(s.buffer[d])
      BY <1>2, <1>3 DEF StreamOK, Stream
    <2>2. QED
      BY <2>1, FS_Subset
  <1>6. /\ StreamOK(left) /\ left.listener = s.listener /\ left.localPort = s.localPort
        /\ left.buffer = [s.buffer EXCEPT ![d] = @ \ hits]
    <2> DEFINE nx == [s.next EXCEPT ![d] = next]
               b == [s.buffer EXCEPT ![d] = @ \ hits]
    <2>1. s \in Stream
      BY <1>2 DEF StreamOK
    <2>2. nx \in [Dirs -> SeqNumbers]
      BY <1>3, <1>4, <2>1 DEF Stream
    <2>3. b \in [Dirs -> SUBSET Segment]
      BY <1>3, <2>1 DEF Stream
    <2>4. left = [s EXCEPT !.next = nx, !.buffer = b]
      BY <1>3, <2>1 DEF Stream
    <2>5. \A e \in Dirs : b[e] \subseteq s.buffer[e]
      BY <1>3, <2>1 DEF Stream
    <2>6. \A e \in Dirs : IsFiniteSet(b[e]) /\ Cardinality(b[e]) <= BufSize
      <3> TAKE e \in Dirs
      <3>1. IsFiniteSet(s.buffer[e]) /\ Cardinality(s.buffer[e]) <= BufSize
        BY <1>2 DEF StreamOK
      <3>2. /\ IsFiniteSet(b[e]) /\ Cardinality(b[e]) <= Cardinality(s.buffer[e])
            /\ Cardinality(b[e]) \in Nat /\ Cardinality(s.buffer[e]) \in Nat
        BY <2>5, <3>1, FS_Subset, FS_CardinalityType
      <3> HIDE DEF b, s
      <3>3. QED
        BY <3>1, <3>2, SizesAssumption
    <2> HIDE DEF nx, b, s
    <2>7. /\ left \in Stream /\ left.buffer = b
          /\ left.listener = s.listener /\ left.localPort = s.localPort
      BY <2>1, <2>2, <2>3, <2>4 DEF Stream
    <2>8. QED
      BY <2>6, <2>7 DEF StreamOK, b
  <1>7. SameAccounts(p, st) /\ st.numSeqNumberMismatch = stats.numSeqNumberMismatch
    <2>1. /\ Cardinality(hits) \in Nat /\ Counted(p) \in Stats
          /\ Counted(p).numSeqNumberMismatch = stats.numSeqNumberMismatch
      BY <1>5, CountedOK, FS_CardinalityType
    <2> HIDE DEF hits
    <2>2. QED
      BY <2>1, StatsUpdate DEF SameAccounts, Stats
  <1>8. heap \ {g.at : g \in hits} \in SUBSET Nat
    BY DEF TypeOK
  <1>9. s.listener \in DOMAIN KnownListeners(p)
    BY <1>1, SubjectListener
  <1>10. PICK o \in Ordered(hits) :
           Finish(p, left,
             Inform(KnownListeners(p), s.listener, d,
                    <<PayloadOf(p)>> \o [i \in DOMAIN o |-> o[i].data]),
             heap \ {g.at : g \in hits}, st)
    BY DEF Deliver
  <1> HIDE DEF s, d, next, hits, left, st
  <1> DEFINE out == <<PayloadOf(p)>> \o [i \in DOMAIN o |-> o[i].data]
             known == KnownListeners(p)
             ls == Inform(known, s.listener, d, out)
  <1>11. out \in Seq(Payload)
    BY <1>5, OrderedOK, PacketTypes, ConcatProperties
  <1>o. \A i \in DOMAIN out : out[i] = PayloadOf(p) \/ \E g \in hits : out[i] = g.data
    <2> DEFINE later == [i \in DOMAIN o |-> o[i].data]
    <2>1. Cardinality(hits) \in Nat /\ o \in [1 .. Cardinality(hits) -> hits]
      BY <1>5, FS_CardinalityType DEF Ordered
    <2>2. \A i \in DOMAIN later : \E g \in hits : later[i] = g.data
      BY <2>1
    <2>3. later \in Seq(Payload) /\ <<PayloadOf(p)>> \in Seq(Payload)
      BY <1>5, OrderedOK, PacketTypes
    <2> HIDE DEF later
    <2>4. \A i \in DOMAIN (<<PayloadOf(p)>> \o later) :
             \/ (<<PayloadOf(p)>> \o later)[i] = PayloadOf(p)
             \/ \E k \in DOMAIN later : (<<PayloadOf(p)>> \o later)[i] = later[k]
      BY <2>3
    <2>5. QED
      BY <2>2, <2>4, ZenonT(60) DEF later
  <1>12. /\ ls \in Seq(Listener)
         /\ DOMAIN ls = DOMAIN KnownListeners(p)
         /\ \A l \in DOMAIN ls : /\ ls[l].closes = KnownListeners(p)[l].closes
                                 /\ l # s.listener => ls[l] = KnownListeners(p)[l]
    <2> HIDE DEF out, known
    <2>1. known \in Seq(Listener) /\ s.listener \in DOMAIN known
      BY <1>2, <1>9 DEF known
    <2>2. /\ ls \in Seq(Listener)
          /\ DOMAIN ls = DOMAIN known
          /\ \A k \in DOMAIN known : /\ ls[k].closes = known[k].closes
                                     /\ k # s.listener => ls[k] = known[k]
      <3> HIDE DEF ls
      <3>1. ls = Inform(known, s.listener, d, out)
        BY DEF ls
      <3>2. QED
        BY <1>3, <1>11, <2>1, <3>1, InformOK
    <2>3. QED
      BY <2>2 DEF known
  <1>13. Finish(p, left, ls, heap \ {g.at : g \in hits}, st)
    BY <1>10
  <1>p. Passes(p, left, ls, heap \ {g.at : g \in hits}, st)
    <2>1. hits \in SUBSET s.buffer[d]
      BY DEF hits
    <2>2. ls = Inform(KnownListeners(p), left.listener, d, out)
      BY <1>6
    <2> HIDE DEF ls, out
    <2>3. QED
      BY <1>6, <1>7, <1>11, <1>o, <2>1, <2>2 DEF Passes, s, d
  <1> HIDE DEF ls
  <1>14. Proceeds(p, left, ls, heap \ {g.at : g \in hits}, st)
    BY <1>1, <1>6, <1>7, <1>8, <1>12, <1>13, <1>p DEF Proceeds, s
  <1>15. QED
    BY <1>14

\* Keeping a segment for later, too: the buffer was not full.
LEMMA HoldProceeds ==
    ASSUME TypeOK, NEW p \in Packet, Hold(p)
    PROVE  \E s, ls, objs, st : Proceeds(p, s, ls, objs, st)
  <1> DEFINE s == Subject(p)
             d == DirOf(p, s)
             g == [at |-> stats.numSeqNumberMismatch, data |-> PayloadOf(p)]
             kept == [s EXCEPT !.buffer[d] = @ \cup {g}]
             st == [Counted(p) EXCEPT !.numSeqNumberMismatch = @ + 1]
  <1>1. /\ IsFor(p)
        /\ ~IsFull(s.buffer[d])
        /\ Finish(p, kept, KnownListeners(p), heap \cup {g.at}, st)
    BY DEF Hold
  <1>2. StreamOK(s) /\ KnownListeners(p) \in Seq(Listener)
    BY <1>1, SubjectOK
  <1>3. d \in Dirs
    BY PacketTypes
  <1>4. g \in Segment /\ g.at \in Nat
    BY PacketTypes DEF Segment, TypeOK, Stats
  <1>5. SameAccounts(p, st) /\ st.numSeqNumberMismatch = stats.numSeqNumberMismatch + 1
    <2>1. Counted(p) \in Stats /\ Counted(p).numSeqNumberMismatch = stats.numSeqNumberMismatch
      BY CountedOK
    <2>2. QED
      BY <2>1, StatsUpdate DEF SameAccounts, Stats
  <1>6. /\ StreamOK(kept) /\ kept.listener = s.listener /\ kept.localPort = s.localPort
        /\ kept.buffer = [s.buffer EXCEPT ![d] = @ \cup {g}]
    <2> DEFINE b == [s.buffer EXCEPT ![d] = @ \cup {g}]
    <2>1. s \in Stream
      BY <1>2 DEF StreamOK
    <2> HIDE DEF s, d, g
    <2>2. b \in [Dirs -> SUBSET Segment]
      BY <1>3, <1>4, <2>1 DEF Stream
    <2>3. kept = [s EXCEPT !.buffer = b]
      BY <1>3, <2>1 DEF Stream
    <2>4. /\ b[d] = s.buffer[d] \cup {g}
          /\ \A e \in Dirs \ {d} : b[e] = s.buffer[e]
      BY <1>3, <2>1 DEF Stream
    <2>5. \A e \in Dirs : IsFiniteSet(s.buffer[e]) /\ Cardinality(s.buffer[e]) <= BufSize
      BY <1>2 DEF StreamOK
    <2>6. IsFiniteSet(b[d]) /\ Cardinality(b[d]) <= BufSize
      <3>1. /\ IsFiniteSet(s.buffer[d] \cup {g})
            /\ Cardinality(s.buffer[d] \cup {g}) <= Cardinality(s.buffer[d]) + 1
            /\ Cardinality(s.buffer[d]) \in Nat
            /\ Cardinality(s.buffer[d] \cup {g}) \in Nat
        <4> DEFINE c == s.buffer[d]
        <4>1. IsFiniteSet(c)
          BY <1>3, <2>5
        <4> HIDE DEF c
        <4>2. /\ IsFiniteSet(c \cup {g})
              /\ Cardinality(c \cup {g}) = Cardinality(c) \/ Cardinality(c \cup {g}) = Cardinality(c) + 1
              /\ Cardinality(c) \in Nat
          BY <4>1, FS_AddElement, FS_CardinalityType
        <4>3. QED
          BY <4>2 DEF c
      <3>2. Cardinality(s.buffer[d]) < BufSize
        BY <1>1, <3>1, SizesAssumption DEF IsFull
      <3> HIDE DEF b
      <3>3. QED
        BY <2>4, <3>1, <3>2, SizesAssumption
    <2> HIDE DEF b, kept
    <2>7. \A e \in Dirs : IsFiniteSet(b[e]) /\ Cardinality(b[e]) <= BufSize
      BY <2>4, <2>5, <2>6, Zenon
    <2>8. /\ kept \in Stream /\ kept.buffer = b
          /\ kept.listener = s.listener /\ kept.localPort = s.localPort
      BY <2>1, <2>2, <2>3 DEF Stream
    <2>9. QED
      BY <2>7, <2>8 DEF StreamOK, b
  <1>7. heap \cup {g.at} \in SUBSET Nat
    BY <1>4 DEF TypeOK
  <1> HIDE DEF s, d, g, kept, st
  <1>w. Waits(p, kept, KnownListeners(p), heap \cup {g.at}, st)
    BY <1>5, <1>6 DEF Waits, s, d, g
  <1>8. Proceeds(p, kept, KnownListeners(p), heap \cup {g.at}, st)
    BY <1>1, <1>2, <1>5, <1>6, <1>7, <1>w DEF Proceeds, s
  <1>9. QED
    BY <1>8

\* So do a packet without payload and a retransmission.
LEMMA QuietProceeds ==
    ASSUME TypeOK, NEW p \in Packet, NoPayload(p) \/ SkipRetransmit(p)
    PROVE  \E s, ls, objs, st : Proceeds(p, s, ls, objs, st)
  <1>1. IsFor(p)
    BY DEF NoPayload, SkipRetransmit
  <1>2. /\ StreamOK(Subject(p)) /\ KnownListeners(p) \in Seq(Listener)
        /\ heap \in SUBSET Nat /\ Counted(p) \in Stats
        /\ Counted(p).numSeqNumberMismatch = stats.numSeqNumberMismatch
    BY <1>1, SubjectOK, CountedOK DEF TypeOK
  <1>3. PICK st : /\ SameAccounts(p, st)
                  /\ st.numSeqNumberMismatch = stats.numSeqNumberMismatch
                  /\ Finish(p, Subject(p), KnownListeners(p), heap, st)
    <2>1. CASE NoPayload(p)
      BY <1>2, <2>1 DEF NoPayload, SameAccounts
    <2>2. CASE SkipRetransmit(p)
      <3> DEFINE st == [Counted(p) EXCEPT !.numRetransmits = @ + 1]
      <3>1. SameAccounts(p, st) /\ st.numSeqNumberMismatch = stats.numSeqNumberMismatch
        BY <1>2, StatsUpdate DEF SameAccounts, Stats
      <3>2. Finish(p, Subject(p), KnownListeners(p), heap, st)
        BY <2>2 DEF SkipRetransmit
      <3> HIDE DEF st
      <3>3. QED
        BY <3>1, <3>2
    <2>3. QED
      BY <2>1, <2>2
  <1>4. Proceeds(p, Subject(p), KnownListeners(p), heap, st)
    BY <1>1, <1>2, <1>3 DEF Proceeds, Keeps
  <1>5. QED
    BY <1>4

\* Closing streams of the map at once keeps the types.
LEMMA CloseOK ==
    ASSUME TypeOK, NEW table, NEW ids, ids \subseteq DOMAIN table,
           DOMAIN table \subseteq Nat \X Nat, IsFiniteSet(DOMAIN table),
           \A id \in DOMAIN table \ ids : StreamOK(table[id]),
           NEW ls \in Seq(Listener), NEW st \in Stats,
           CloseStreams(table, ids, ls, heap, st),
           UNCHANGED <<alive, purgeCnt, now>>
    PROVE  TypeOK'
  <1>1. /\ Release(table, ids, ls, heap)
        /\ stats' = [st EXCEPT !.numOpenConnections = @ - Cardinality(ids)]
    BY DEF CloseStreams
  <1>2. Cardinality(ids) \in Nat
    BY FS_Subset, FS_CardinalityType
  <1>3. stats' \in Stats
    BY <1>1, <1>2, StatsUpdate
  <1>4. heap \in SUBSET Nat
    BY DEF TypeOK
  <1>5. QED
    BY <1>1, <1>3, <1>4, ReleaseOK DEF TypeOK

\* A collision, a packet of no stream and a full buffer keep the types.
LEMMA EarlyReturnsOK ==
    ASSUME TypeOK, NEW p \in Packet, Collide(p) \/ Ignore(p) \/ Overflow(p)
    PROVE  TypeOK'
  <1>1. stats \in Stats /\ Counted(p) \in Stats
    BY CountedOK DEF TypeOK
  <1>2. CASE Collide(p)
    <2> DEFINE st == [stats EXCEPT !.numPackets = stats.numPackets + 1,
                                   !.numIDCollision = stats.numIDCollision + 1]
               c == [stats EXCEPT !.numPackets = @ + 1]
    <2>1. c \in Stats /\ c.numIDCollision = stats.numIDCollision
      BY <1>1, StatsUpdate DEF Stats
    <2>2. st = [c EXCEPT !.numIDCollision = @ + 1]
      BY <1>1 DEF Stats
    <2> HIDE DEF c, st
    <2>3. st \in Stats
      BY <2>1, <2>2, StatsUpdate
    <2>4. /\ CloseStreams(streams, {StreamId(p)}, listeners, heap, st)
          /\ UNCHANGED <<alive, purgeCnt, now>>
          /\ {StreamId(p)} \subseteq DOMAIN streams
      BY <1>2 DEF Collide, IsTracked, st
    <2>5. QED
      BY <2>3, <2>4, CloseOK DEF TypeOK
  <1>3. CASE Ignore(p)
    BY <1>1, <1>3, StatsUpdate DEF Ignore, TypeOK
  <1>4. CASE Overflow(p)
    <2> DEFINE s == Subject(p)
               st == [Counted(p) EXCEPT !.numErrors = @ + 1]
    <2>1. /\ IsFor(p)
          /\ CloseStreams(Store(p, s), {StreamId(p)}, KnownListeners(p), heap, st)
          /\ UNCHANGED <<alive, purgeCnt, now>>
      BY <1>4 DEF Overflow
    <2>2. st \in Stats
      BY <1>1, StatsUpdate
    <2>3. KnownListeners(p) \in Seq(Listener)
      BY <2>1, SubjectOK
    <2>4. /\ DOMAIN Store(p, s) = DOMAIN streams \cup {StreamId(p)}
          /\ DOMAIN Store(p, s) \subseteq Nat \X Nat
          /\ IsFiniteSet(DOMAIN Store(p, s))
      BY PacketTypes, FS_AddElement DEF Store, TypeOK
    <2>5. \A id \in DOMAIN Store(p, s) \ {StreamId(p)} : StreamOK(Store(p, s)[id])
      BY <2>4 DEF Store, TypeOK
    <2> HIDE DEF s, st
    <2>6. QED
      BY <2>1, <2>2, <2>3, <2>4, <2>5, CloseOK
  <1>5. QED
    BY <1>2, <1>3, <1>4

\* Every step keeps the types; that a listener is there to be told of data
\* needs the life cycle of the listeners.
LEMMA TypeStep ==
    ASSUME TypeOK, ListenerLifecycle, [Next]_vars
    PROVE  TypeOK'
  <1>1. CASE UNCHANGED vars
    BY <1>1 DEF vars, TypeOK
  <1>2. ASSUME NEW p \in Packet, OnIPv4Packet(p)
        PROVE  TypeOK'
    <2>1. CASE Collide(p) \/ Ignore(p) \/ Overflow(p)
      BY <2>1, EarlyReturnsOK
    <2>2. CASE NoPayload(p) \/ Deliver(p) \/ SkipRetransmit(p) \/ Hold(p)
      <3>1. PICK s, ls, objs, st : Proceeds(p, s, ls, objs, st)
        BY <2>2, QuietProceeds, DeliverProceeds, HoldProceeds
      <3>2. QED
        BY <3>1, FinishOK DEF Proceeds, SameAccounts
    <2>3. QED
      BY <1>2, <2>1, <2>2 DEF OnIPv4Packet
  <1>3. CASE Tick
    BY <1>3 DEF Tick, TypeOK
  <1>4. CASE Destroy
    <2>1. listeners \in Seq(Listener) /\ heap \in SUBSET Nat
      BY DEF TypeOK
    <2>2. QED
      BY <1>4, <2>1, ReleaseOK DEF Destroy, TypeOK
  <1>5. QED
    BY <1>1, <1>2, <1>3, <1>4 DEF Next

-----------------------------------------------------------------------------
(* The life cycle of the listeners *)

\* Ownership depends only on which listener a stream has and on whether a
\* listener is open.
LEMMA OwnsSame ==
    ASSUME NEW t1, NEW t2, NEW l1, NEW l2, Owns(t1, l1),
           DOMAIN t1 = DOMAIN t2, \A id \in DOMAIN t1 : t2[id].listener = t1[id].listener,
           DOMAIN l1 = DOMAIN l2, \A l \in DOMAIN l1 : l2[l].closes = l1[l].closes
    PROVE  Owns(t2, l2)
  <1>1. \A id \in DOMAIN t2 : t2[id].listener \in DOMAIN l2
    BY DEF Owns
  <1>2. \A id1, id2 \in DOMAIN t2 : t2[id1].listener = t2[id2].listener => id1 = id2
    BY DEF Owns
  <1>3. ASSUME NEW l \in DOMAIN l2
        PROVE  l2[l].closes = IF \E id \in DOMAIN t2 : t2[id].listener = l THEN 0 ELSE 1
    <2>1. (\E id \in DOMAIN t2 : t2[id].listener = l)
             <=> (\E id \in DOMAIN t1 : t1[id].listener = l)
      OBVIOUS
    <2>2. l1[l].closes = IF \E id \in DOMAIN t1 : t1[id].listener = l THEN 0 ELSE 1
      BY <1>3 DEF Owns
    <2>3. QED
      BY <1>3, <2>1, <2>2
  <1>4. QED
    BY <1>1, <1>2, <1>3 DEF Owns

\* Releasing streams closes the listeners they own, and no other.
LEMMA ReleaseOwns ==
    ASSUME NEW table, NEW ids, ids \subseteq DOMAIN table,
           NEW ls \in Seq(Listener), NEW objs, Owns(table, ls), Release(table, ids, ls, objs)
    PROVE  Owns(streams', listeners')
  <1> DEFINE L == {table[id].listener : id \in ids}
  <1>1. /\ DOMAIN streams' = DOMAIN table \ ids
        /\ \A id \in DOMAIN streams' : streams'[id] = table[id]
    BY DEF Release, Without
  <1>2. /\ DOMAIN listeners' = DOMAIN ls
        /\ \A l \in DOMAIN ls :
              listeners'[l] = IF l \in L THEN [ls[l] EXCEPT !.closes = @ + 1] ELSE ls[l]
    BY DEF Release, CloseListeners
  <1>3. /\ \A id \in DOMAIN streams' : streams'[id].listener \in DOMAIN listeners'
        /\ \A id1, id2 \in DOMAIN streams' :
              streams'[id1].listener = streams'[id2].listener => id1 = id2
    BY <1>1, <1>2 DEF Owns
  <1>4. ASSUME NEW l \in DOMAIN ls
        PROVE  listeners'[l].closes =
                 IF \E id \in DOMAIN streams' : streams'[id].listener = l THEN 0 ELSE 1
    <2>1. ls[l] \in Listener
      BY <1>4
    <2>2. ls[l].closes = IF \E id \in DOMAIN table : table[id].listener = l THEN 0 ELSE 1
      BY <1>4 DEF Owns
    <2>3. CASE l \in L
      <3>1. PICK id \in ids : table[id].listener = l
        BY <2>3
      <3>2. ~ \E i \in DOMAIN streams' : streams'[i].listener = l
        BY <1>1, <3>1 DEF Owns
      <3>3. ls[l].closes = 0
        BY <2>2, <3>1
      <3>4. listeners'[l] = [ls[l] EXCEPT !.closes = ls[l].closes + 1]
        BY <1>2, <1>4, <2>3, Zenon
      <3>5. listeners'[l].closes = 1
        BY <2>1, <3>3, <3>4 DEF Listener
      <3>6. QED
        BY <3>2, <3>5
    <2>4. CASE l \notin L
      <3>1. (\E i \in DOMAIN streams' : streams'[i].listener = l)
               <=> (\E i \in DOMAIN table : table[i].listener = l)
        BY <1>1, <2>4
      <3>2. listeners'[l] = ls[l]
        BY <1>2, <1>4, <2>4, Zenon
      <3>3. QED
        BY <2>2, <3>1, <3>2
    <2>5. QED
      BY <2>3, <2>4
  <1>5. QED
    BY <1>2, <1>3, <1>4 DEF Owns

\* The stream a packet is for owns a listener of its own: a SYN that opens
\* one gets a new listener, the others have the one they had.
LEMMA StoreOwns ==
    ASSUME TypeOK, ListenerLifecycle, NEW p \in Packet, IsFor(p)
    PROVE  Owns(Store(p, Subject(p)), KnownListeners(p))
  <1> DEFINE id0 == StreamId(p)
             n == Len(listeners) + 1
             t == Store(p, Subject(p))
  <1>1. CASE IsOpening(p)
    <2>1. id0 \notin DOMAIN streams
      BY <1>1 DEF IsFor, IsTracked
    <2>2. Len(listeners) \in Nat /\ DOMAIN listeners = 1 .. Len(listeners)
      BY DEF TypeOK
    <2>3. /\ DOMAIN KnownListeners(p) = DOMAIN listeners \cup {n}
          /\ \A l \in DOMAIN listeners : KnownListeners(p)[l] = listeners[l]
          /\ KnownListeners(p)[n] = NewListener
          /\ n \notin DOMAIN listeners
      BY <1>1, <2>2 DEF KnownListeners, TypeOK
    <2>4. /\ DOMAIN t = DOMAIN streams \cup {id0}
          /\ \A id \in DOMAIN streams : t[id] = streams[id]
          /\ t[id0].listener = n
      BY <1>1, <2>1 DEF Store, Subject, NewStream
    <2>5. NewListener.closes = 0
      BY DEF NewListener
    <2> HIDE DEF id0, n, t
    <2>6. /\ \A id \in DOMAIN t : t[id].listener \in DOMAIN KnownListeners(p)
          /\ \A id1, id2 \in DOMAIN t : t[id1].listener = t[id2].listener => id1 = id2
      BY <2>1, <2>3, <2>4 DEF ListenerLifecycle, Owns
    <2>7. ASSUME NEW l \in DOMAIN KnownListeners(p)
          PROVE  KnownListeners(p)[l].closes =
                   IF \E id \in DOMAIN t : t[id].listener = l THEN 0 ELSE 1
      <3>1. CASE l = n
        BY <2>3, <2>4, <2>5, <3>1
      <3>2. CASE l \in DOMAIN listeners
        <4>1. (\E id \in DOMAIN t : t[id].listener = l)
                 <=> (\E id \in DOMAIN streams : streams[id].listener = l)
          BY <2>3, <2>4, <3>2
        <4>2. QED
          BY <2>3, <3>2, <4>1 DEF ListenerLifecycle, Owns
      <3>3. QED
        BY <2>3, <2>7, <3>1, <3>2
    <2>8. QED
      BY <2>6, <2>7 DEF Owns, t
  <1>2. CASE ~IsOpening(p)
    <2>1. id0 \in DOMAIN streams /\ KnownListeners(p) = listeners
      BY <1>2 DEF IsFor, IsTracked, KnownListeners
    <2>2. streams[id0] \in Stream
      BY <2>1 DEF TypeOK, StreamOK
    <2>3. Subject(p).listener = streams[id0].listener
      BY <1>2, <2>2 DEF Subject, Stream
    <2>4. DOMAIN t = DOMAIN streams /\ \A id \in DOMAIN t : t[id].listener = streams[id].listener
      BY <2>1, <2>3 DEF Store
    <2> HIDE DEF id0, t
    <2>5. QED
      BY <2>1, <2>4, OwnsSame DEF ListenerLifecycle, t
  <1>3. QED
    BY <1>1, <1>2

\* The same once its payload was looked at, and the stream changed by it.
LEMMA StoreChangedOwns ==
    ASSUME TypeOK, ListenerLifecycle, NEW p \in Packet, IsFor(p),
           NEW s, s.listener = Subject(p).listener,
           NEW ls, DOMAIN ls = DOMAIN KnownListeners(p),
           \A l \in DOMAIN ls : ls[l].closes = KnownListeners(p)[l].closes
    PROVE  Owns(Store(p, s), ls)
  <1>1. Owns(Store(p, Subject(p)), KnownListeners(p))
    BY StoreOwns
  <1>2. /\ DOMAIN Store(p, s) = DOMAIN Store(p, Subject(p))
        /\ \A id \in DOMAIN Store(p, s) :
              Store(p, s)[id].listener = Store(p, Subject(p))[id].listener
    BY DEF Store
  <1>3. QED
    BY <1>1, <1>2, OwnsSame

\* The end of the handler stores the stream and releases some of the map.
LEMMA FinishReleases ==
    ASSUME TypeOK, ListenerLifecycle, NEW p \in Packet,
           NEW s, NEW ls, NEW objs, NEW st, Proceeds(p, s, ls, objs, st)
    PROVE  \E table : \E ids \in SUBSET DOMAIN table :
             /\ Owns(table, ls)
             /\ Release(table, ids, ls, objs)
             /\ \E id \in DOMAIN table : table[id].listener = s.listener
  <1> DEFINE a == After(p, s)
             table == Store(p, a)
             done == IF IsOver(p, a) THEN {StreamId(p)} ELSE {}
             old == IF purgeCnt + 1 >= PurgeEvery THEN Idle(table) \ done ELSE {}
  <1>1. a.listener = s.listener /\ s.listener = Subject(p).listener
    BY AfterOK DEF Proceeds
  <1>2. Owns(table, ls)
    <2>1. /\ IsFor(p) /\ DOMAIN ls = DOMAIN KnownListeners(p)
          /\ \A l \in DOMAIN ls : ls[l].closes = KnownListeners(p)[l].closes
      BY DEF Proceeds
    <2> HIDE DEF a
    <2>2. QED
      BY <1>1, <2>1, StoreChangedOwns
  <1>3. done \cup old \in SUBSET DOMAIN table
    BY DEF Idle, Store
  <1>4. Release(table, done \cup old, ls, objs)
    BY DEF Proceeds, Finish, CloseStreams
  <1>5. StreamId(p) \in DOMAIN table /\ table[StreamId(p)].listener = s.listener
    <2> HIDE DEF a
    <2>1. QED
      BY <1>1 DEF Store
  <1> HIDE DEF table, done, old
  <1>6. QED
    BY <1>2, <1>3, <1>4, <1>5

\* Every step keeps the life cycle of the listeners.
LEMMA LifecycleStep ==
    ASSUME TypeOK, ListenerLifecycle, [Next]_vars
    PROVE  ListenerLifecycle'
  <1>1. CASE UNCHANGED vars
    BY <1>1 DEF vars, ListenerLifecycle, Owns
  <1>2. ASSUME NEW p \in Packet, OnIPv4Packet(p)
        PROVE  ListenerLifecycle'
    <2>1. CASE Collide(p)
      <3>1. /\ Release(streams, {StreamId(p)}, listeners, heap)
            /\ {StreamId(p)} \subseteq DOMAIN streams
        BY <2>1 DEF Collide, CloseStreams, IsTracked
      <3>2. QED
        BY <3>1, ReleaseOwns DEF ListenerLifecycle, TypeOK
    <2>2. CASE Ignore(p)
      BY <2>2 DEF Ignore, ListenerLifecycle, Owns
    <2>3. CASE Overflow(p)
      <3>1. /\ IsFor(p)
            /\ Release(Store(p, Subject(p)), {StreamId(p)}, KnownListeners(p), heap)
        BY <2>3 DEF Overflow, CloseStreams
      <3>2. {StreamId(p)} \subseteq DOMAIN Store(p, Subject(p))
        BY DEF Store
      <3>3. QED
        BY <3>1, <3>2, SubjectOK, StoreOwns, ReleaseOwns DEF ListenerLifecycle
    <2>4. CASE NoPayload(p) \/ Deliver(p) \/ SkipRetransmit(p) \/ Hold(p)
      <3>1. PICK s, ls, objs, st : Proceeds(p, s, ls, objs, st)
        BY <2>4, QuietProceeds, DeliverProceeds, HoldProceeds
      <3>2. QED
        BY <3>1, FinishReleases, ReleaseOwns DEF ListenerLifecycle, Proceeds
    <2>5. QED
      BY <1>2, <2>1, <2>2, <2>3, <2>4 DEF OnIPv4Packet
  <1>3. CASE Tick
    BY <1>3 DEF Tick, ListenerLifecycle, Owns
  <1>4. CASE Destroy
    BY <1>4, ReleaseOwns DEF Destroy, ListenerLifecycle, TypeOK
  <1>5. QED
    BY <1>1, <1>2, <1>3, <1>4 DEF Next

LEMMA InitOK ==
    ASSUME Init
    PROVE  TypeOK /\ ListenerLifecycle
  <1>1. streams = <<>> /\ listeners = <<>>
    BY DEF Init
  <1>2. DOMAIN streams = {} /\ DOMAIN listeners = {}
    BY <1>1
  <1>3. TypeOK
    BY <1>1, <1>2, FS_EmptySet, SizesAssumption DEF Init, TypeOK, NoStats, Stats
  <1>4. ListenerLifecycle
    BY <1>2 DEF ListenerLifecycle, Owns
  <1>5. QED
    BY <1>3, <1>4

\* The invariant: neither half of it is inductive without the other, since
\* data is handed to the listener of a stream, which must be one that exists.
LEMMA Invariant == Spec => [](TypeOK /\ ListenerLifecycle)
  <1>1. Init => TypeOK /\ ListenerLifecycle
    BY InitOK
  <1>2. TypeOK /\ ListenerLifecycle /\ [Next]_vars => (TypeOK /\ ListenerLifecycle)'
    BY TypeStep, LifecycleStep
  <1>3. QED
    BY <1>1, <1>2, PTL DEF Spec

\* The variables keep their types: no buffer of out-of-order segments ever
\* holds more than TCP_SEQ_BUFFER_SIZE of them, no stream in the map has
\* counted its second FIN.
THEOREM TypeCorrect == Spec => []TypeOK
  BY Invariant, PTL

\* In every behaviour each listener is open exactly as long as one stream
\* owns it: onClose() is called once, by whatever closes the stream.
THEOREM Lifecycle == Spec => []ListenerLifecycle
  BY Invariant, PTL

-----------------------------------------------------------------------------
(* Silence after the end *)

\* Releasing streams leaves the listeners alone that are closed already.
LEMMA ReleaseSilent ==
    ASSUME NEW table, NEW ids, ids \subseteq DOMAIN table, NEW ls, NEW objs,
           Owns(table, ls), Release(table, ids, ls, objs),
           NEW l \in DOMAIN ls, ls[l].closes # 0
    PROVE  l \in DOMAIN listeners' /\ listeners'[l] = ls[l]
  <1>1. \A id \in DOMAIN table : table[id].listener # l
    BY DEF Owns
  <1>2. l \notin {table[id].listener : id \in ids}
    BY <1>1
  <1>3. QED
    BY <1>2 DEF Release, CloseListeners

\* A new listener does not touch those that are there.
LEMMA KnownSame ==
    ASSUME TypeOK, NEW p, NEW l \in DOMAIN listeners
    PROVE  l \in DOMAIN KnownListeners(p) /\ KnownListeners(p)[l] = listeners[l]
  BY DEF KnownListeners, TypeOK

\* No step tells a listener anything that was closed before it.
LEMMA SilentStep ==
    ASSUME TypeOK, ListenerLifecycle, [Next]_vars,
           NEW l \in DOMAIN listeners, listeners[l].closes # 0
    PROVE  l \in DOMAIN listeners' /\ listeners'[l] = listeners[l]
  <1>1. CASE UNCHANGED listeners
    BY <1>1
  <1>2. ASSUME NEW p \in Packet, OnIPv4Packet(p)
        PROVE  l \in DOMAIN listeners' /\ listeners'[l] = listeners[l]
    <2> DEFINE known == KnownListeners(p)
    <2>1. l \in DOMAIN known /\ known[l] = listeners[l]
      BY KnownSame
    <2>2. CASE Collide(p)
      <3>1. /\ Release(streams, {StreamId(p)}, listeners, heap)
            /\ {StreamId(p)} \subseteq DOMAIN streams
        BY <2>2 DEF Collide, CloseStreams, IsTracked
      <3>2. QED
        BY <3>1, ReleaseSilent DEF ListenerLifecycle
    <2>3. CASE Ignore(p)
      BY <2>3 DEF Ignore
    <2> HIDE DEF known
    <2>4. CASE Overflow(p)
      <3>1. /\ IsFor(p)
            /\ Release(Store(p, Subject(p)), {StreamId(p)}, known, heap)
        BY <2>4 DEF Overflow, CloseStreams, known
      <3>2. {StreamId(p)} \subseteq DOMAIN Store(p, Subject(p))
        BY DEF Store
      <3>3. Owns(Store(p, Subject(p)), known)
        BY <3>1, StoreOwns DEF known
      <3>4. QED
        BY <2>1, <3>1, <3>2, <3>3, ReleaseSilent
    <2>5. CASE NoPayload(p) \/ Deliver(p) \/ SkipRetransmit(p) \/ Hold(p)
      <3>1. PICK s, ls, objs, st : Proceeds(p, s, ls, objs, st)
        BY <2>5, QuietProceeds, DeliverProceeds, HoldProceeds
      <3>2. PICK table : \E ids \in SUBSET DOMAIN table :
              /\ Owns(table, ls)
              /\ Release(table, ids, ls, objs)
              /\ \E id \in DOMAIN table : table[id].listener = s.listener
        BY <3>1, FinishReleases
      <3>3. PICK ids \in SUBSET DOMAIN table :
              /\ Owns(table, ls)
              /\ Release(table, ids, ls, objs)
              /\ \E id \in DOMAIN table : table[id].listener = s.listener
        BY <3>2
      <3>4. l \in DOMAIN ls /\ ls[l].closes # 0
        BY <2>1, <3>1 DEF Proceeds, known
      <3>5. l # s.listener
        BY <3>3, <3>4 DEF Owns
      <3>6. ls[l] = listeners[l]
        BY <2>1, <3>1, <3>5 DEF Proceeds, known
      <3>7. QED
        BY <3>3, <3>4, <3>6, ReleaseSilent
    <2>6. QED
      BY <1>2, <2>2, <2>3, <2>4, <2>5 DEF OnIPv4Packet
  <1>3. CASE Destroy
    BY <1>3, ReleaseSilent DEF Destroy, ListenerLifecycle
  <1>4. QED
    BY <1>1, <1>2, <1>3 DEF Next, Tick, vars

\* After its onClose() a listener, which the code has deleted by then, is
\* told of nothing any more, in no behaviour.
THEOREM Silence == Spec => SilentAfterClose
  <1>1. TypeOK /\ ListenerLifecycle /\ [Next]_vars =>
          [\A l \in DOMAIN listeners :
             listeners[l].closes > 0 => l \in DOMAIN listeners' /\ listeners'[l] = listeners[l]]_vars
    BY SilentStep
  <1>2. QED
    BY <1>1, Invariant, PTL DEF Spec, SilentAfterClose

-----------------------------------------------------------------------------
(* The accounts of the connections *)

\* Closing streams takes as many off numOpenConnections as off the map; the
\* reasons counted for it are not more than the streams closed.
LEMMA CloseAccounts ==
    ASSUME NEW table, IsFiniteSet(DOMAIN table), NEW ids, ids \subseteq DOMAIN table,
           NEW ls \in Seq(Listener), NEW objs, NEW st \in Stats,
           CloseStreams(table, ids, ls, objs, st),
           st.numOpenConnections = Cardinality(DOMAIN table),
           st.numConnections = Len(ls),
           st.numPurgedConnections + st.numIDCollision + st.numErrors
             <= st.numConnections - st.numOpenConnections + Cardinality(ids)
    PROVE  OpenAccounting'
  <1>1. DOMAIN streams' = DOMAIN table \ ids
    BY DEF CloseStreams, Release, Without
  <1>2. DOMAIN table \cap ids = ids
    OBVIOUS
  <1>3. /\ Cardinality(DOMAIN table \ ids) = Cardinality(DOMAIN table) - Cardinality(ids)
        /\ Cardinality(ids) \in Nat /\ Cardinality(DOMAIN table) \in Nat
    <2> DEFINE D == DOMAIN table
    <2>1. IsFiniteSet(D) /\ ids \in SUBSET D /\ D \cap ids = ids
      BY <1>2
    <2> HIDE DEF D
    <2>2. Cardinality(D \ ids) = Cardinality(D) - Cardinality(D \cap ids)
      BY <2>1, FS_Difference
    <2>3. Cardinality(ids) \in Nat /\ Cardinality(D) \in Nat
      BY <2>1, FS_Subset, FS_CardinalityType
    <2>4. QED
      BY <2>1, <2>2, <2>3 DEF D
  <1>4. Len(listeners') = Len(ls)
    BY DEF CloseStreams, Release, CloseListeners
  <1>5. /\ stats'.numOpenConnections = st.numOpenConnections - Cardinality(ids)
        /\ stats'.numConnections = st.numConnections
        /\ stats'.numPurgedConnections = st.numPurgedConnections
        /\ stats'.numIDCollision = st.numIDCollision
        /\ stats'.numErrors = st.numErrors
    BY DEF CloseStreams, Stats
  <1>6. st.numPurgedConnections \in Nat /\ st.numIDCollision \in Nat /\ st.numErrors \in Nat
    BY DEF Stats
  <1>7. QED
    BY <1>1, <1>3, <1>4, <1>5, <1>6 DEF OpenAccounting, Stats

\* A packet that gets to its stream is counted along with it.
LEMMA CountedAccounts ==
    ASSUME TypeOK, OpenAccounting, NEW p \in Packet, IsFor(p), NEW s
    PROVE  /\ IsFiniteSet(DOMAIN Store(p, s))
           /\ Counted(p).numOpenConnections = Cardinality(DOMAIN Store(p, s))
           /\ Counted(p).numConnections = Len(KnownListeners(p))
           /\ Counted(p).numPurgedConnections + Counted(p).numIDCollision + Counted(p).numErrors
                <= Counted(p).numConnections - Counted(p).numOpenConnections
  <1>1. /\ DOMAIN Store(p, s) = DOMAIN streams \cup {StreamId(p)}
        /\ IsFiniteSet(DOMAIN streams)
    BY DEF Store, TypeOK
  <1>2. /\ stats.numOpenConnections = Cardinality(DOMAIN streams)
        /\ stats.numConnections = Len(listeners)
        /\ stats.numPurgedConnections + stats.numIDCollision + stats.numErrors
              <= stats.numConnections - stats.numOpenConnections
    BY DEF OpenAccounting, IsFor
  <1>3. CASE IsOpening(p)
    <2>1. /\ IsFiniteSet(DOMAIN Store(p, s))
          /\ Cardinality(DOMAIN Store(p, s)) = Cardinality(DOMAIN streams) + 1
      BY <1>1, <1>3, FS_AddElement DEF IsFor, IsTracked
    <2>2. Len(KnownListeners(p)) = Len(listeners) + 1 /\ Len(listeners) \in Nat
      BY <1>3 DEF KnownListeners, TypeOK
    <2>3. QED
      <3>1. stats \in Stats
        BY DEF TypeOK
      <3>2. /\ Counted(p).numOpenConnections = stats.numOpenConnections + 1
            /\ Counted(p).numConnections = stats.numConnections + 1
            /\ Counted(p).numPurgedConnections = stats.numPurgedConnections
            /\ Counted(p).numIDCollision = stats.numIDCollision
            /\ Counted(p).numErrors = stats.numErrors
        BY <1>3, CountedOK
      <3>3. QED
        BY <1>2, <2>1, <2>2, <3>1, <3>2, StatsNumbers
  <1>4. CASE ~IsOpening(p)
    <2>1. DOMAIN Store(p, s) = DOMAIN streams /\ KnownListeners(p) = listeners
      BY <1>1, <1>4 DEF IsFor, IsTracked, KnownListeners
    <2>2. QED
      BY <1>1, <1>2, <1>4, <2>1, CountedOK
  <1>5. QED
    BY <1>3, <1>4

\* The end of the handler keeps the accounts: what it purges it counts.
LEMMA FinishAccounts ==
    ASSUME TypeOK, OpenAccounting, NEW p \in Packet,
           NEW s, NEW ls, NEW objs, NEW st, Proceeds(p, s, ls, objs, st)
    PROVE  OpenAccounting'
  <1> DEFINE a == After(p, s)
             table == Store(p, a)
             done == IF IsOver(p, a) THEN {StreamId(p)} ELSE {}
             old == IF purgeCnt + 1 >= PurgeEvery THEN Idle(table) \ done ELSE {}
             counted == [st EXCEPT !.numPurgedConnections = @ + Cardinality(old)]
  <1>1. CloseStreams(table, done \cup old, ls, objs, counted)
    BY DEF Proceeds, Finish
  <1>2. old \subseteq DOMAIN table /\ done \cup old \subseteq DOMAIN table
    BY DEF Idle, Store
  <1> HIDE DEF done, old
  <1>3. /\ IsFiniteSet(DOMAIN table)
        /\ Counted(p).numOpenConnections = Cardinality(DOMAIN table)
        /\ Counted(p).numConnections = Len(KnownListeners(p))
        /\ Counted(p).numPurgedConnections + Counted(p).numIDCollision + Counted(p).numErrors
             <= Counted(p).numConnections - Counted(p).numOpenConnections
    <2> HIDE DEF a
    <2>1. IsFor(p)
      BY DEF Proceeds
    <2>2. QED
      BY <2>1, CountedAccounts
  <1> HIDE DEF table, a
  <1>4. /\ IsFiniteSet(done \cup old)
        /\ Cardinality(old) <= Cardinality(done \cup old)
        /\ Cardinality(old) \in Nat /\ Cardinality(done \cup old) \in Nat
    <2>1. IsFiniteSet(done \cup old)
      BY <1>2, <1>3, FS_Subset
    <2>2. old \in SUBSET (done \cup old)
      OBVIOUS
    <2>3. QED
      BY <2>1, <2>2, FS_Subset, FS_CardinalityType
  <1>5. /\ st \in Stats
        /\ st.numConnections = Counted(p).numConnections
        /\ st.numOpenConnections = Counted(p).numOpenConnections
        /\ st.numPurgedConnections = Counted(p).numPurgedConnections
        /\ st.numIDCollision = Counted(p).numIDCollision
        /\ st.numErrors = Counted(p).numErrors
    BY DEF Proceeds, SameAccounts
  <1>6. /\ counted \in Stats
        /\ counted.numPurgedConnections = st.numPurgedConnections + Cardinality(old)
        /\ counted.numConnections = st.numConnections
        /\ counted.numOpenConnections = st.numOpenConnections
        /\ counted.numIDCollision = st.numIDCollision
        /\ counted.numErrors = st.numErrors
    BY <1>4, <1>5, StatsUpdate DEF Stats
  <1> HIDE DEF counted
  <1>7. ls \in Seq(Listener) /\ Len(ls) = Len(KnownListeners(p))
    <2>1. KnownListeners(p) \in Seq(Listener)
      BY SubjectOK DEF Proceeds
    <2>2. QED
      BY <2>1, LenProperties DEF Proceeds
  <1>8. counted.numPurgedConnections + counted.numIDCollision + counted.numErrors
          <= counted.numConnections - counted.numOpenConnections + Cardinality(done \cup old)
    <2>1. st.numPurgedConnections + st.numIDCollision + st.numErrors
            <= st.numConnections - st.numOpenConnections
      BY <1>3, <1>5
    <2>2. /\ st.numConnections \in Nat /\ st.numOpenConnections \in Int
          /\ st.numPurgedConnections \in Nat /\ st.numIDCollision \in Nat
          /\ st.numErrors \in Nat
      BY <1>5, StatsNumbers
    <2>3. QED
      BY <1>4, <1>6, <2>1, <2>2
  <1>9. /\ counted.numOpenConnections = Cardinality(DOMAIN table)
        /\ counted.numConnections = Len(ls)
    BY <1>3, <1>5, <1>6, <1>7
  <1>10. QED
    BY <1>1, <1>2, <1>3, <1>6, <1>7, <1>8, <1>9, CloseAccounts

\* Every step keeps the accounts.
LEMMA AccountsStep ==
    ASSUME TypeOK, ListenerLifecycle, OpenAccounting, [Next]_vars
    PROVE  OpenAccounting'
  <1>1. CASE UNCHANGED vars
    BY <1>1 DEF vars, OpenAccounting
  <1>2. ASSUME NEW p \in Packet, OnIPv4Packet(p)
        PROVE  OpenAccounting'
    <2>1. CASE Collide(p)
      <3> DEFINE st == [stats EXCEPT !.numPackets = stats.numPackets + 1,
                                     !.numIDCollision = stats.numIDCollision + 1]
                 c == [stats EXCEPT !.numPackets = @ + 1]
      <3>1. stats \in Stats
        BY DEF TypeOK
      <3>2. c \in Stats /\ st = [c EXCEPT !.numIDCollision = @ + 1]
        BY <3>1, StatsUpdate DEF Stats
      <3>3. /\ c.numConnections = stats.numConnections
            /\ c.numOpenConnections = stats.numOpenConnections
            /\ c.numPurgedConnections = stats.numPurgedConnections
            /\ c.numIDCollision = stats.numIDCollision
            /\ c.numErrors = stats.numErrors
        BY <3>1 DEF Stats
      <3> HIDE DEF c, st
      <3>4. /\ st \in Stats
            /\ st.numConnections = stats.numConnections
            /\ st.numOpenConnections = stats.numOpenConnections
            /\ st.numPurgedConnections = stats.numPurgedConnections
            /\ st.numIDCollision = stats.numIDCollision + 1
            /\ st.numErrors = stats.numErrors
        BY <3>2, <3>3, StatsUpdate DEF Stats
      <3>5. /\ CloseStreams(streams, {StreamId(p)}, listeners, heap, st)
            /\ {StreamId(p)} \subseteq DOMAIN streams
            /\ alive
        BY <2>1 DEF Collide, IsTracked, st
      <3>6. Cardinality({StreamId(p)}) = 1
        BY FS_Singleton
      <3>7. st.numPurgedConnections + st.numIDCollision + st.numErrors
              <= st.numConnections - st.numOpenConnections + Cardinality({StreamId(p)})
        <4>1. stats.numPurgedConnections + stats.numIDCollision + stats.numErrors
                <= stats.numConnections - stats.numOpenConnections
          BY <3>5 DEF OpenAccounting
        <4>2. QED
          BY <3>1, <3>4, <3>6, <4>1, StatsNumbers
      <3>8. QED
        BY <3>4, <3>5, <3>7, CloseAccounts DEF OpenAccounting, TypeOK
    <2>2. CASE Ignore(p)
      <3>1. stats' = [Counted(p) EXCEPT !.numPacketsIgnored = @ + 1] /\ ~IsOpening(p)
        BY <2>2 DEF Ignore
      <3>2. Counted(p) \in Stats
        BY CountedOK
      <3>3. UNCHANGED <<alive, streams, listeners>>
        BY <2>2 DEF Ignore
      <3>4. QED
        BY <3>1, <3>2, <3>3, CountedOK DEF OpenAccounting, Stats
    <2>3. CASE Overflow(p)
      <3> DEFINE table == Store(p, Subject(p))
                 st == [Counted(p) EXCEPT !.numErrors = @ + 1]
      <3>1. /\ IsFor(p)
            /\ CloseStreams(table, {StreamId(p)}, KnownListeners(p), heap, st)
        BY <2>3 DEF Overflow
      <3>2. {StreamId(p)} \subseteq DOMAIN table /\ Cardinality({StreamId(p)}) = 1
        BY FS_Singleton DEF Store
      <3>3. /\ IsFiniteSet(DOMAIN table)
            /\ Counted(p).numOpenConnections = Cardinality(DOMAIN table)
            /\ Counted(p).numConnections = Len(KnownListeners(p))
            /\ Counted(p).numPurgedConnections + Counted(p).numIDCollision + Counted(p).numErrors
                 <= Counted(p).numConnections - Counted(p).numOpenConnections
        BY <3>1, CountedAccounts
      <3> HIDE DEF table
      <3>4. Counted(p) \in Stats
        BY CountedOK
      <3>5. /\ st \in Stats
            /\ st.numConnections = Counted(p).numConnections
            /\ st.numOpenConnections = Counted(p).numOpenConnections
            /\ st.numPurgedConnections = Counted(p).numPurgedConnections
            /\ st.numIDCollision = Counted(p).numIDCollision
            /\ st.numErrors = Counted(p).numErrors + 1
        BY <3>4, StatsUpdate DEF Stats
      <3> HIDE DEF st
      <3>6. st.numPurgedConnections + st.numIDCollision + st.numErrors
              <= st.numConnections - st.numOpenConnections + Cardinality({StreamId(p)})
        BY <3>2, <3>3, <3>4, <3>5, StatsNumbers, SMTT(30)
      <3>7. KnownListeners(p) \in Seq(Listener)
        BY <3>1, SubjectOK
      <3>8. QED
        BY <3>1, <3>2, <3>3, <3>5, <3>6, <3>7, CloseAccounts
    <2>4. CASE NoPayload(p) \/ Deliver(p) \/ SkipRetransmit(p) \/ Hold(p)
      <3>1. PICK s, ls, objs, st : Proceeds(p, s, ls, objs, st)
        BY <2>4, QuietProceeds, DeliverProceeds, HoldProceeds
      <3>2. QED
        BY <3>1, FinishAccounts
    <2>5. QED
      BY <1>2, <2>1, <2>2, <2>3, <2>4 DEF OnIPv4Packet
  <1>3. CASE Tick
    BY <1>3 DEF Tick, OpenAccounting
  <1>4. CASE Destroy
    BY <1>4 DEF Destroy, OpenAccounting
  <1>5. QED
    BY <1>1, <1>2, <1>3, <1>4 DEF Next

\* While the reassembler lives, numOpenConnections is the number of streams
\* in the map, and every purge, collision and overflow counted has closed a
\* connection of its own.
THEOREM Accounts == Spec => []OpenAccounting
  <1>1. Init => OpenAccounting
    <2>1. ASSUME Init PROVE OpenAccounting
      <3>1. DOMAIN streams = {} /\ Len(listeners) = 0 /\ Cardinality(DOMAIN streams) = 0
        BY <2>1, FS_EmptySet DEF Init
      <3>2. QED
        BY <2>1, <3>1 DEF Init, OpenAccounting, NoStats
    <2>2. QED
      BY <2>1
  <1>2. TypeOK /\ ListenerLifecycle /\ OpenAccounting /\ [Next]_vars => OpenAccounting'
    BY AccountsStep
  <1>3. QED
    BY <1>1, <1>2, Invariant, PTL DEF Spec


-----------------------------------------------------------------------------
(* One packet, one connection *)

\* Releasing streams touches no other stream of the table.
LEMMA ReleaseTouches ==
    ASSUME NEW table, NEW ids, NEW ls, NEW objs, Release(table, ids, ls, objs),
           NEW id, id \in DOMAIN table => id \notin ids
    PROVE  /\ id \in DOMAIN streams' <=> id \in DOMAIN table
           /\ id \in DOMAIN table => streams'[id] = table[id]
  BY DEF Release, Without

\* The handler, at its end, touches the stream of the packet and those that
\* are too old, and no other.
LEMMA FinishTouches ==
    ASSUME NEW p, NEW s, NEW ls, NEW objs, NEW st, Finish(p, s, ls, objs, st),
           NEW id \in (DOMAIN streams \cup DOMAIN streams') \ Overdue, id # StreamId(p)
    PROVE  ~Touched(id)
  <1> DEFINE a == After(p, s)
             table == Store(p, a)
             done == IF IsOver(p, a) THEN {StreamId(p)} ELSE {}
             old == IF purgeCnt + 1 >= PurgeEvery THEN Idle(table) \ done ELSE {}
  <1>1. Release(table, done \cup old, ls, objs)
    BY DEF Finish, CloseStreams
  <1>2. /\ id \in DOMAIN table <=> id \in DOMAIN streams
        /\ id \in DOMAIN streams => table[id] = streams[id]
    <2> HIDE DEF a
    <2> QED BY DEF Store
  <1>3. id \in DOMAIN table => id \notin done \cup old
    <2>1. id \in DOMAIN streams => now - streams[id].lastActivityTs \in 0 .. Timeout
      BY DEF Overdue
    <2>2. id \in DOMAIN table => now - table[id].lastActivityTs \in 0 .. Timeout
      BY <1>2, <2>1
    <2> HIDE DEF table
    <2>3. QED
      BY <2>2 DEF Idle
  <1> HIDE DEF table, done, old
  <1>4. /\ id \in DOMAIN streams' <=> id \in DOMAIN table
        /\ id \in DOMAIN table => streams'[id] = table[id]
    BY <1>1, <1>3, ReleaseTouches
  <1>5. QED
    BY <1>2, <1>4 DEF Touched

\* No step but the destructor touches two streams that are not too old.
LEMMA TouchStep ==
    ASSUME [Next]_vars, alive'
    PROVE  \A id1, id2 \in (DOMAIN streams \cup DOMAIN streams') \ Overdue :
              Touched(id1) /\ Touched(id2) => id1 = id2
  <1>1. ASSUME UNCHANGED streams
        PROVE  \A id \in DOMAIN streams \cup DOMAIN streams' : ~Touched(id)
    BY <1>1 DEF Touched
  <1>2. ASSUME NEW p \in Packet, OnIPv4Packet(p),
               NEW id \in (DOMAIN streams \cup DOMAIN streams') \ Overdue, id # StreamId(p)
        PROVE  ~Touched(id)
    <2>1. CASE Collide(p)
      <3>1. Release(streams, {StreamId(p)}, listeners, heap)
        BY <2>1 DEF Collide, CloseStreams
      <3>2. QED
        BY <1>2, <3>1, ReleaseTouches DEF Touched
    <2>2. CASE Ignore(p)
      BY <1>1, <2>2 DEF Ignore
    <2>3. CASE Overflow(p)
      <3>1. Release(Store(p, Subject(p)), {StreamId(p)}, KnownListeners(p), heap)
        BY <2>3 DEF Overflow, CloseStreams
      <3>2. /\ id \in DOMAIN Store(p, Subject(p)) <=> id \in DOMAIN streams
            /\ id \in DOMAIN streams => Store(p, Subject(p))[id] = streams[id]
        BY <1>2 DEF Store
      <3>3. /\ id \in DOMAIN streams' <=> id \in DOMAIN Store(p, Subject(p))
            /\ id \in DOMAIN Store(p, Subject(p)) => streams'[id] = Store(p, Subject(p))[id]
        BY <1>2, <3>1, ReleaseTouches
      <3>4. QED
        BY <1>2, <3>2, <3>3 DEF Touched
    <2>4. CASE NoPayload(p) \/ Deliver(p) \/ SkipRetransmit(p) \/ Hold(p)
      <3>1. \E s, ls, objs, st : Finish(p, s, ls, objs, st)
        BY <2>4, Zenon DEF NoPayload, Deliver, SkipRetransmit, Hold
      <3>2. QED
        BY <1>2, <3>1, FinishTouches
    <2>5. QED
      BY <1>2, <2>1, <2>2, <2>3, <2>4 DEF OnIPv4Packet
  <1>3. CASE UNCHANGED vars \/ Tick
    BY <1>1, <1>3 DEF vars, Tick
  <1>4. CASE \E p \in Packet : OnIPv4Packet(p)
    BY <1>2, <1>4
  <1>5. QED
    BY <1>3, <1>4 DEF Next, Destroy

\* In every behaviour, whatever the connections, one packet opens, changes or
\* closes the stream of one connection; of the others only the overdue go.
THEOREM OneAtATime == Spec => OneStreamPerPacket
  <1>1. [Next]_vars =>
          [alive' => \A id1, id2 \in (DOMAIN streams \cup DOMAIN streams') \ Overdue :
                        Touched(id1) /\ Touched(id2) => id1 = id2]_vars
    BY TouchStep
  <1>2. QED
    BY <1>1, PTL DEF Spec, OneStreamPerPacket


-----------------------------------------------------------------------------
(* The buffered segments *)

\* The buffers of a table of streams hold the segments objs, each once.
Holds(table, objs) ==
    /\ \A at \in objs : \E id \in DOMAIN table : \E d \in Dirs :
          \E g \in table[id].buffer[d] : g.at = at
    /\ \A id \in DOMAIN table : \A d \in Dirs :
          \A g \in table[id].buffer[d] : g.at \in objs
    /\ \A id1, id2 \in DOMAIN table : \A d1, d2 \in Dirs :
          \A g \in table[id1].buffer[d1], h \in table[id2].buffer[d2] :
             g.at = h.at => id1 = id2 /\ d1 = d2 /\ g = h

\* A segment allocated now has another number than all that exist.
SegmentsOK ==
    /\ Holds(streams, heap)
    /\ \A at \in heap : at < stats.numSeqNumberMismatch

\* Only the buffers matter.
LEMMA HoldsSame ==
    ASSUME NEW t1, NEW t2, NEW objs, Holds(t1, objs), DOMAIN t1 = DOMAIN t2,
           \A id \in DOMAIN t1 : t2[id].buffer = t1[id].buffer
    PROVE  Holds(t2, objs)
  BY DEF Holds

\* Releasing streams deletes what they hold and nothing else.
LEMMA ReleaseHolds ==
    ASSUME NEW table, NEW ids \in SUBSET DOMAIN table, NEW ls, NEW objs,
           Holds(table, objs), Release(table, ids, ls, objs)
    PROVE  Holds(streams', heap') /\ heap' \subseteq objs
  <1> DEFINE gone == UNION {ObjectsOf(table[id]) : id \in ids}
  <1>1. /\ DOMAIN streams' = DOMAIN table \ ids
        /\ \A id \in DOMAIN streams' : streams'[id] = table[id]
        /\ heap' = objs \ gone
    BY DEF Release, Without
  <1>2. \A at : at \in gone <=> \E id \in ids : \E d \in Dirs : \E g \in table[id].buffer[d] : g.at = at
    BY DEF ObjectsOf, Dirs
  <1> HIDE DEF gone
  <1>3. \A at \in heap' : \E id \in DOMAIN streams' : \E d \in Dirs :
           \E g \in streams'[id].buffer[d] : g.at = at
    <2> TAKE at \in heap'
    <2>1. PICK id \in DOMAIN table, d \in Dirs : \E g \in table[id].buffer[d] : g.at = at
      BY <1>1 DEF Holds
    <2>2. id \notin ids
      BY <1>1, <1>2, <2>1
    <2>3. QED
      BY <1>1, <2>1, <2>2
  <1>4. ASSUME NEW id \in DOMAIN streams', NEW d \in Dirs, NEW g \in streams'[id].buffer[d]
        PROVE  g.at \in heap'
    <2>1. id \in DOMAIN table \ ids /\ g \in table[id].buffer[d]
      BY <1>1
    <2>2. g.at \in objs
      BY <2>1 DEF Holds
    <2>3. g.at \notin gone
      BY <1>2, <2>1 DEF Holds
    <2>4. QED
      BY <1>1, <2>2, <2>3
  <1>5. ASSUME NEW id1 \in DOMAIN streams', NEW id2 \in DOMAIN streams',
               NEW d1 \in Dirs, NEW d2 \in Dirs,
               NEW g \in streams'[id1].buffer[d1], NEW h \in streams'[id2].buffer[d2],
               g.at = h.at
        PROVE  id1 = id2 /\ d1 = d2 /\ g = h
    BY <1>1, <1>5 DEF Holds
  <1>6. QED
    BY <1>1, <1>3, <1>4, <1>5 DEF Holds

\* A new stream holds nothing, and the stream of a packet what it held.
LEMMA StoreHolds ==
    ASSUME TypeOK, SegmentsOK, NEW p \in Packet, IsFor(p)
    PROVE  Holds(Store(p, Subject(p)), heap)
  <1> DEFINE id0 == StreamId(p)
             t == Store(p, Subject(p))
  <1>1. CASE IsOpening(p)
    <2>1. id0 \notin DOMAIN streams
      BY <1>1 DEF IsFor, IsTracked
    <2>2. /\ DOMAIN t = DOMAIN streams \cup {id0}
          /\ \A id \in DOMAIN streams : t[id] = streams[id]
          /\ \A d \in Dirs : t[id0].buffer[d] = {}
      BY <1>1, <2>1 DEF Store, Subject, NewStream
    <2> HIDE DEF id0, t
    <2>3. \A at \in heap : \E id \in DOMAIN t : \E d \in Dirs : \E g \in t[id].buffer[d] : g.at = at
      <3> TAKE at \in heap
      <3>1. PICK id \in DOMAIN streams, d \in Dirs : \E g \in streams[id].buffer[d] : g.at = at
        BY DEF SegmentsOK, Holds
      <3>2. QED
        BY <2>2, <3>1
    <2>4. \A id \in DOMAIN t, d \in Dirs : \A g \in t[id].buffer[d] :
             id \in DOMAIN streams /\ g \in streams[id].buffer[d]
      BY <2>2
    <2>5. QED
      BY <2>3, <2>4 DEF Holds, SegmentsOK, t
  <1>2. CASE ~IsOpening(p)
    <2>1. id0 \in DOMAIN streams
      BY <1>2 DEF IsFor, IsTracked
    <2>2. streams[id0] \in Stream
      BY <2>1 DEF TypeOK, StreamOK
    <2>3. Subject(p).buffer = streams[id0].buffer
      BY <1>2, <2>2 DEF Subject, Stream
    <2>4. DOMAIN t = DOMAIN streams /\ \A id \in DOMAIN streams : t[id].buffer = streams[id].buffer
      BY <2>1, <2>3 DEF Store
    <2> HIDE DEF id0, t
    <2>5. QED
      BY <2>4, HoldsSame DEF SegmentsOK, t
  <1>3. QED
    BY <1>1, <1>2

\* Of two tables that agree otherwise, one has the buffer b in a place.
Changed(t1, t2, i, d, b) ==
    /\ DOMAIN t2 = DOMAIN t1
    /\ \A id \in DOMAIN t1, e \in Dirs :
          t2[id].buffer[e] = IF id = i /\ e = d THEN b ELSE t1[id].buffer[e]

\* The segments found in the buffer leave it and are deleted.
LEMMA RemoveHolds ==
    ASSUME NEW t1, NEW t2, NEW objs, Holds(t1, objs), NEW i \in DOMAIN t1, NEW d \in Dirs,
           NEW hits \in SUBSET t1[i].buffer[d], Changed(t1, t2, i, d, t1[i].buffer[d] \ hits)
    PROVE  Holds(t2, objs \ {g.at : g \in hits})
  <1> USE DEF Changed
  <1> DEFINE gone == {g.at : g \in hits}
  <1>1. \A id \in DOMAIN t2, e \in Dirs : \A g \in t2[id].buffer[e] :
           g \in t1[id].buffer[e] /\ (id = i /\ e = d => g \notin hits)
    OBVIOUS
  <1>2. \A at \in objs \ gone : \E id \in DOMAIN t2 : \E e \in Dirs : \E g \in t2[id].buffer[e] : g.at = at
    <2> TAKE at \in objs \ gone
    <2>1. PICK id \in DOMAIN t1, e \in Dirs : \E g \in t1[id].buffer[e] : g.at = at
      BY DEF Holds
    <2>2. PICK g \in t1[id].buffer[e] : g.at = at
      BY <2>1
    <2>3. g \notin hits
      BY <2>2
    <2>4. g \in t2[id].buffer[e]
      BY <2>2, <2>3
    <2>5. QED
      BY <2>2, <2>4
  <1>3. ASSUME NEW id \in DOMAIN t2, NEW e \in Dirs, NEW g \in t2[id].buffer[e]
        PROVE  g.at \in objs \ gone
    <2>1. g \in t1[id].buffer[e] /\ (id = i /\ e = d => g \notin hits)
      BY <1>1
    <2>2. ASSUME NEW h \in hits, h.at = g.at PROVE FALSE
      BY <2>1, <2>2 DEF Holds
    <2>3. QED
      BY <2>1, <2>2 DEF Holds
  <1>4. \A id1, id2 \in DOMAIN t2 : \A d1, d2 \in Dirs :
          \A g \in t2[id1].buffer[d1], h \in t2[id2].buffer[d2] :
             g.at = h.at => id1 = id2 /\ d1 = d2 /\ g = h
    <2> SUFFICES ASSUME NEW id1 \in DOMAIN t2, NEW id2 \in DOMAIN t2,
                        NEW d1 \in Dirs, NEW d2 \in Dirs,
                        NEW g \in t2[id1].buffer[d1], NEW h \in t2[id2].buffer[d2],
                        g.at = h.at
                 PROVE  id1 = id2 /\ d1 = d2 /\ g = h
      OBVIOUS
    <2>1. g \in t1[id1].buffer[d1] /\ h \in t1[id2].buffer[d2]
      BY <1>1
    <2>2. QED
      BY <2>1 DEF Holds
  <1>5. QED
    BY <1>2, <1>3, <1>4 DEF Holds

\* A segment with a number of its own enters a buffer.
LEMMA AddHolds ==
    ASSUME NEW t1, NEW t2, NEW objs, Holds(t1, objs), NEW i \in DOMAIN t1, NEW d \in Dirs,
           NEW g0, g0.at \notin objs, Changed(t1, t2, i, d, t1[i].buffer[d] \cup {g0})
    PROVE  Holds(t2, objs \cup {g0.at})
  <1> USE DEF Changed
  <1>1. \A id \in DOMAIN t2, e \in Dirs : \A g \in t2[id].buffer[e] :
           \/ g \in t1[id].buffer[e] /\ g.at \in objs
           \/ g = g0 /\ id = i /\ e = d
    <2> TAKE id \in DOMAIN t2, e \in Dirs
    <2>1. \A g \in t1[id].buffer[e] : g.at \in objs
      BY DEF Holds
    <2>2. CASE id = i /\ e = d
      <3>1. t2[id].buffer[e] = t1[id].buffer[e] \cup {g0}
        BY <2>2
      <3>2. QED
        BY <2>1, <2>2, <3>1
    <2>3. CASE ~(id = i /\ e = d)
      <3>1. t2[id].buffer[e] = t1[id].buffer[e]
        BY <2>3
      <3>2. QED
        BY <2>1, <3>1
    <2>4. QED
      BY <2>2, <2>3
  <1>2. \A at \in objs \cup {g0.at} :
           \E id \in DOMAIN t2 : \E e \in Dirs : \E g \in t2[id].buffer[e] : g.at = at
    <2> TAKE at \in objs \cup {g0.at}
    <2>1. CASE at \in objs
      <3>1. PICK id \in DOMAIN t1, e \in Dirs : \E g \in t1[id].buffer[e] : g.at = at
        BY <2>1 DEF Holds
      <3>2. QED
        BY <3>1
    <2>2. CASE at = g0.at
      <3>1. g0 \in t2[i].buffer[d]
        OBVIOUS
      <3>2. QED
        BY <2>2, <3>1
    <2>3. QED
      BY <2>1, <2>2
  <1>3. \A id \in DOMAIN t2, e \in Dirs : \A g \in t2[id].buffer[e] : g.at \in objs \cup {g0.at}
    BY <1>1
  <1>4. \A id1, id2 \in DOMAIN t2 : \A d1, d2 \in Dirs :
          \A g \in t2[id1].buffer[d1], h \in t2[id2].buffer[d2] :
             g.at = h.at => id1 = id2 /\ d1 = d2 /\ g = h
    <2> SUFFICES ASSUME NEW id1 \in DOMAIN t2, NEW id2 \in DOMAIN t2,
                        NEW d1 \in Dirs, NEW d2 \in Dirs,
                        NEW g \in t2[id1].buffer[d1], NEW h \in t2[id2].buffer[d2],
                        g.at = h.at
                 PROVE  id1 = id2 /\ d1 = d2 /\ g = h
      OBVIOUS
    <2>1. CASE g = g0 \/ h = g0
      BY <1>1, <2>1
    <2>2. CASE g # g0 /\ h # g0
      BY <1>1, <2>2 DEF Holds
    <2>3. QED
      BY <2>1, <2>2
  <1>5. QED
    BY <1>2, <1>3, <1>4 DEF Holds


\* What the handler did with the payload keeps the segments, too.
LEMMA ProceedsHolds ==
    ASSUME TypeOK, SegmentsOK, NEW p \in Packet,
           NEW s, NEW ls, NEW objs, NEW st, Proceeds(p, s, ls, objs, st)
    PROVE  /\ Holds(Store(p, s), objs)
           /\ \A at \in objs : at < st.numSeqNumberMismatch
  <1> DEFINE b == Subject(p).buffer
             d == DirOf(p, Subject(p))
             i == StreamId(p)
             t1 == Store(p, Subject(p))
             t2 == Store(p, s)
             n == stats.numSeqNumberMismatch
  <1>1. IsFor(p)
    BY DEF Proceeds
  <1>2. Holds(t1, heap) /\ \A at \in heap : at < n
    BY <1>1, StoreHolds DEF SegmentsOK
  <1>3. n \in Nat /\ heap \subseteq Nat
    BY DEF TypeOK, Stats
  <1>4. d \in Dirs /\ b \in [Dirs -> SUBSET Segment]
    BY <1>1, SubjectOK, PacketTypes DEF StreamOK, Stream
  <1>5. /\ DOMAIN t2 = DOMAIN t1 /\ i \in DOMAIN t1
        /\ t1[i].buffer = b /\ t2[i].buffer = s.buffer
        /\ \A id \in DOMAIN t1 \ {i} : t2[id].buffer = t1[id].buffer
    BY DEF Store
  <1>6. CASE Keeps(p, s, ls, objs, st)
    <2>1. s.buffer = b /\ objs = heap /\ st.numSeqNumberMismatch = n
      BY <1>6 DEF Keeps
    <2> HIDE DEF t1, t2, i, b, n
    <2>2. \A id \in DOMAIN t1 : t2[id].buffer = t1[id].buffer
      BY <1>5, <2>1
    <2>3. Holds(t2, heap)
      BY <1>2, <1>5, <2>2, HoldsSame
    <2>4. QED
      BY <1>2, <2>1, <2>3 DEF t2
  <1>7. CASE Passes(p, s, ls, objs, st)
    <2>1. PICK hits \in SUBSET b[d] :
             /\ s.buffer = [b EXCEPT ![d] = @ \ hits]
             /\ objs = heap \ {g.at : g \in hits}
             /\ st.numSeqNumberMismatch = n
      BY <1>7 DEF Passes
    <2> HIDE DEF t1, t2, i, b, d, n
    <2>2. \A e \in Dirs : s.buffer[e] = IF e = d THEN b[e] \ hits ELSE b[e]
      BY <1>4, <2>1
    <2>3. Changed(t1, t2, i, d, t1[i].buffer[d] \ hits) /\ hits \in SUBSET t1[i].buffer[d]
      BY <1>5, <2>2 DEF Changed
    <2>4. Holds(t2, heap \ {g.at : g \in hits})
      BY <1>2, <1>4, <1>5, <2>3, RemoveHolds
    <2>5. QED
      BY <1>2, <2>1, <2>4 DEF t2
  <1>8. CASE Waits(p, s, ls, objs, st)
    <2> DEFINE g == [at |-> n, data |-> PayloadOf(p)]
    <2>1. /\ s.buffer = [b EXCEPT ![d] = @ \cup {g}]
          /\ objs = heap \cup {g.at} /\ g.at = n
          /\ st.numSeqNumberMismatch = n + 1
      BY <1>8 DEF Waits
    <2> HIDE DEF t1, t2, i, b, d, n, g
    <2>2. \A e \in Dirs : s.buffer[e] = IF e = d THEN b[e] \cup {g} ELSE b[e]
      BY <1>4, <2>1
    <2>3. Changed(t1, t2, i, d, t1[i].buffer[d] \cup {g})
      BY <1>5, <2>2 DEF Changed
    <2>4. g.at \notin heap
      BY <1>2, <1>3, <2>1
    <2>5. Holds(t2, heap \cup {g.at})
      BY <1>2, <1>4, <1>5, <2>3, <2>4, AddHolds
    <2>6. \A at \in objs : at < n + 1
      BY <1>2, <1>3, <2>1
    <2>7. QED
      BY <2>1, <2>5, <2>6 DEF t2
  <1>9. QED
    BY <1>6, <1>7, <1>8 DEF Proceeds

\* The handler, at its end, keeps the segments of the streams it keeps.
LEMMA FinishSegments ==
    ASSUME TypeOK, SegmentsOK, NEW p \in Packet,
           NEW s, NEW ls, NEW objs, NEW st, Proceeds(p, s, ls, objs, st)
    PROVE  SegmentsOK'
  <1> DEFINE a == After(p, s)
             table == Store(p, a)
             done == IF IsOver(p, a) THEN {StreamId(p)} ELSE {}
             old == IF purgeCnt + 1 >= PurgeEvery THEN Idle(table) \ done ELSE {}
             counted == [st EXCEPT !.numPurgedConnections = @ + Cardinality(old)]
             ids == done \cup old
  <1>1. /\ Release(table, ids, ls, objs)
        /\ stats' = [counted EXCEPT !.numOpenConnections = @ - Cardinality(ids)]
    BY DEF Proceeds, Finish, CloseStreams
  <1>2. stats'.numSeqNumberMismatch = st.numSeqNumberMismatch
    BY <1>1 DEF Proceeds, SameAccounts, Stats
  <1>3. a.buffer = s.buffer
    BY AfterOK DEF Proceeds
  <1>4. Holds(Store(p, s), objs) /\ \A at \in objs : at < st.numSeqNumberMismatch
    BY ProceedsHolds
  <1>5. Holds(table, objs)
    <2>1. /\ DOMAIN table = DOMAIN Store(p, s)
          /\ \A id \in DOMAIN Store(p, s) : table[id].buffer = Store(p, s)[id].buffer
      <3> HIDE DEF a
      <3> QED BY <1>3 DEF Store
    <2> HIDE DEF table
    <2>2. QED
      BY <1>4, <2>1, HoldsSame
  <1>6. ids \in SUBSET DOMAIN table
    BY DEF Idle, Store
  <1> HIDE DEF table, ids
  <1>7. Holds(streams', heap') /\ heap' \subseteq objs
    BY <1>1, <1>5, <1>6, ReleaseHolds
  <1>8. QED
    BY <1>2, <1>4, <1>7 DEF SegmentsOK

\* Every step keeps the segments.
LEMMA SegmentsStep ==
    ASSUME TypeOK, ListenerLifecycle, SegmentsOK, [Next]_vars
    PROVE  SegmentsOK'
  <1>1. ASSUME UNCHANGED <<streams, heap>>, stats'.numSeqNumberMismatch = stats.numSeqNumberMismatch
        PROVE  SegmentsOK'
    BY <1>1 DEF SegmentsOK, Holds
  <1>2. ASSUME NEW p \in Packet, OnIPv4Packet(p)
        PROVE  SegmentsOK'
    <2>1. Counted(p) \in Stats /\ Counted(p).numSeqNumberMismatch = stats.numSeqNumberMismatch
      BY CountedOK
    <2>2. CASE Collide(p)
      <3> DEFINE st == [stats EXCEPT !.numPackets = stats.numPackets + 1,
                                     !.numIDCollision = stats.numIDCollision + 1]
      <3>1. /\ Release(streams, {StreamId(p)}, listeners, heap)
            /\ {StreamId(p)} \in SUBSET DOMAIN streams
            /\ stats' = [st EXCEPT !.numOpenConnections = @ - Cardinality({StreamId(p)})]
        BY <2>2 DEF Collide, CloseStreams, IsTracked
      <3>2. Holds(streams', heap') /\ heap' \subseteq heap
        BY <3>1, ReleaseHolds DEF SegmentsOK
      <3>3. st.numSeqNumberMismatch = stats.numSeqNumberMismatch /\ st.numOpenConnections \in Int
        BY DEF TypeOK, Stats
      <3>4. stats'.numSeqNumberMismatch = stats.numSeqNumberMismatch
        BY <3>1 DEF TypeOK, Stats
      <3>5. QED
        BY <3>2, <3>4 DEF SegmentsOK
    <2>3. CASE Ignore(p)
      <3>1. stats' = [Counted(p) EXCEPT !.numPacketsIgnored = @ + 1] /\ UNCHANGED <<streams, heap>>
        BY <2>3 DEF Ignore
      <3>2. stats'.numSeqNumberMismatch = stats.numSeqNumberMismatch
        BY <2>1, <3>1 DEF Stats
      <3>3. QED
        BY <1>1, <3>1, <3>2
    <2>4. CASE Overflow(p)
      <3> DEFINE st == [Counted(p) EXCEPT !.numErrors = @ + 1]
      <3>1. /\ IsFor(p)
            /\ Release(Store(p, Subject(p)), {StreamId(p)}, KnownListeners(p), heap)
            /\ stats' = [st EXCEPT !.numOpenConnections = @ - Cardinality({StreamId(p)})]
            /\ {StreamId(p)} \in SUBSET DOMAIN Store(p, Subject(p))
        BY <2>4 DEF Overflow, CloseStreams, Store
      <3>2. Holds(streams', heap') /\ heap' \subseteq heap
        BY <3>1, StoreHolds, ReleaseHolds
      <3>3. stats'.numSeqNumberMismatch = stats.numSeqNumberMismatch
        BY <2>1, <3>1 DEF Stats
      <3>4. QED
        BY <3>2, <3>3 DEF SegmentsOK
    <2>5. CASE NoPayload(p) \/ Deliver(p) \/ SkipRetransmit(p) \/ Hold(p)
      <3>1. PICK s, ls, objs, st : Proceeds(p, s, ls, objs, st)
        BY <2>5, QuietProceeds, DeliverProceeds, HoldProceeds
      <3>2. QED
        BY <3>1, FinishSegments
    <2>6. QED
      BY <1>2, <2>2, <2>3, <2>4, <2>5 DEF OnIPv4Packet
  <1>3. CASE UNCHANGED vars \/ Tick
    BY <1>1, <1>3 DEF vars, Tick
  <1>4. CASE Destroy
    <2>1. Release(streams, DOMAIN streams, listeners, heap) /\ stats' = stats
      BY <1>4 DEF Destroy
    <2>2. Holds(streams', heap') /\ heap' \subseteq heap
      BY <2>1, ReleaseHolds DEF SegmentsOK
    <2>3. QED
      BY <2>1, <2>2 DEF SegmentsOK
  <1>5. QED
    BY <1>2, <1>3, <1>4 DEF Next

\* However connections end, every TCPBufferedSegment that exists is in one
\* place of one buffer: none leaks and none is deleted twice.
THEOREM NoLeak == Spec => []NoSegmentLeak
  <1>1. Init => SegmentsOK
    <2> SUFFICES ASSUME Init PROVE SegmentsOK
      OBVIOUS
    <2>1. DOMAIN streams = {} /\ heap = {}
      BY DEF Init
    <2>2. QED
      BY <2>1 DEF SegmentsOK, Holds
  <1>2. TypeOK /\ ListenerLifecycle /\ SegmentsOK /\ [Next]_vars => SegmentsOK'
    BY SegmentsStep
  <1>3. SegmentsOK => NoSegmentLeak
    BY DEF SegmentsOK, Holds, NoSegmentLeak
  <1>4. QED
    BY <1>1, <1>2, <1>3, Invariant, PTL DEF Spec


-----------------------------------------------------------------------------
(* What a listener is told as one direction *)

\* A payload x is of the stream id and goes the way d, seen from the port of
\* the stream.
Goes(x, id, port, d) ==
    /\ StreamId(x) = id
    /\ d = DirOf(x, [localPort |-> port])

\* A listener that was told only of such payloads
Tells(l, id, port) ==
    \A d \in Dirs : \A i \in DOMAIN l.data[d] : Goes(l.data[d][i], id, port, d)

\* A stream has the port that a packet with its id was sent to.
IsPort(id, port) == \E q \in Packet : StreamId(q) = id /\ DstPort(q) = port

\* Listeners and buffers hold payload of their own stream, by direction, and
\* those of streams that are gone did.
Directions(table, ls) ==
    /\ \A id \in DOMAIN table :
          /\ IsPort(id, table[id].localPort)
          /\ Tells(ls[table[id].listener], id, table[id].localPort)
          /\ \A d \in Dirs : \A g \in table[id].buffer[d] :
                Goes(g.data, id, table[id].localPort, d)
    /\ \A l \in DOMAIN ls : \E id, port : IsPort(id, port) /\ Tells(ls[l], id, port)

\* Closing a listener leaves what it was told.
LEMMA ReleaseDirections ==
    ASSUME NEW table, NEW ids, NEW ls \in Seq(Listener), NEW objs,
           \A id \in DOMAIN table : table[id].listener \in DOMAIN ls,
           Directions(table, ls), Release(table, ids, ls, objs)
    PROVE  Directions(streams', listeners')
  <1> DEFINE L == {table[id].listener : id \in ids}
  <1>1. /\ \A id \in DOMAIN streams' : id \in DOMAIN table /\ streams'[id] = table[id]
        /\ DOMAIN listeners' = DOMAIN ls
        /\ \A l \in DOMAIN ls :
              listeners'[l] = IF l \in L THEN [ls[l] EXCEPT !.closes = @ + 1] ELSE ls[l]
    BY DEF Release, Without, CloseListeners
  <1> HIDE DEF L
  <1>2. \A l \in DOMAIN ls : listeners'[l].data = ls[l].data
    <2> TAKE l \in DOMAIN ls
    <2>1. ls[l] \in Listener
      OBVIOUS
    <2>2. [ls[l] EXCEPT !.closes = ls[l].closes + 1].data = ls[l].data
      BY <2>1 DEF Listener
    <2>3. QED
      BY <1>1, <2>2
  <1>3. \A l \in DOMAIN ls : \A id, port : Tells(listeners'[l], id, port) <=> Tells(ls[l], id, port)
    BY <1>2 DEF Tells
  <1>4. QED
    BY <1>1, <1>3 DEF Directions

\* A new listener was told of nothing, and a SYN comes to the port it opens.
LEMMA StoreDirections ==
    ASSUME TypeOK, ListenerLifecycle, Directions(streams, listeners),
           NEW p \in Packet, IsFor(p)
    PROVE  Directions(Store(p, Subject(p)), KnownListeners(p))
  <1> DEFINE i == StreamId(p)
             n == Len(listeners) + 1
             t == Store(p, Subject(p))
             known == KnownListeners(p)
  <1>1. CASE IsOpening(p)
    <2>1. i \notin DOMAIN streams
      BY <1>1 DEF IsFor, IsTracked
    <2>2. Len(listeners) \in Nat /\ DOMAIN listeners = 1 .. Len(listeners)
      BY DEF TypeOK
    <2>3. /\ DOMAIN known = DOMAIN listeners \cup {n}
          /\ \A l \in DOMAIN listeners : known[l] = listeners[l]
          /\ known[n] = NewListener
      BY <1>1, <2>2 DEF KnownListeners, TypeOK
    <2>4. /\ DOMAIN t = DOMAIN streams \cup {i}
          /\ \A id \in DOMAIN streams : t[id] = streams[id]
          /\ t[i].listener = n /\ t[i].localPort = DstPort(p)
          /\ \A d \in Dirs : t[i].buffer[d] = {}
      BY <1>1, <2>1 DEF Store, Subject, NewStream
    <2>5. \A id, port : Tells(NewListener, id, port)
      BY DEF Tells, NewListener
    <2>6. IsPort(i, DstPort(p))
      BY DEF IsPort
    <2>7. \A id \in DOMAIN streams : streams[id].listener \in DOMAIN listeners
      BY DEF ListenerLifecycle, Owns
    <2> HIDE DEF i, n, t, known
    <2>8. \A id \in DOMAIN t :
            /\ IsPort(id, t[id].localPort)
            /\ Tells(known[t[id].listener], id, t[id].localPort)
            /\ \A d \in Dirs : \A g \in t[id].buffer[d] : Goes(g.data, id, t[id].localPort, d)
      <3> TAKE id \in DOMAIN t
      <3>1. CASE id = i
        BY <2>3, <2>4, <2>5, <2>6, <3>1
      <3>2. CASE id \in DOMAIN streams
        BY <2>3, <2>4, <2>7, <3>2 DEF Directions
      <3>3. QED
        BY <2>4, <3>1, <3>2
    <2>9. \A l \in DOMAIN known : \E id, port : IsPort(id, port) /\ Tells(known[l], id, port)
      BY <2>3, <2>5, <2>6 DEF Directions
    <2>10. QED
      BY <2>8, <2>9 DEF Directions, t, known
  <1>2. CASE ~IsOpening(p)
    <2>1. i \in DOMAIN streams /\ known = listeners
      BY <1>2 DEF IsFor, IsTracked, KnownListeners
    <2>2. streams[i] \in Stream
      BY <2>1 DEF TypeOK, StreamOK
    <2>3. /\ Subject(p).listener = streams[i].listener /\ Subject(p).buffer = streams[i].buffer
          /\ Subject(p).localPort = streams[i].localPort
      BY <1>2, <2>2 DEF Subject, Stream
    <2>4. DOMAIN t = DOMAIN streams /\ \A id \in DOMAIN streams :
             /\ t[id].listener = streams[id].listener /\ t[id].buffer = streams[id].buffer
             /\ t[id].localPort = streams[id].localPort
      BY <2>1, <2>3 DEF Store
    <2> HIDE DEF i, t, known
    <2>5. QED
      BY <2>1, <2>4 DEF Directions, t, known
  <1>3. QED
    BY <1>1, <1>2

\* What a listener is told more of goes the same way.
LEMMA InformTells ==
    ASSUME NEW ls \in Seq(Listener), NEW l \in DOMAIN ls, NEW d \in Dirs, NEW out \in Seq(Payload),
           NEW id, NEW port, Tells(ls[l], id, port),
           \A i \in DOMAIN out : Goes(out[i], id, port, d)
    PROVE  Tells(Inform(ls, l, d, out)[l], id, port)
  <1> DEFINE data == ls[l].data
             more == data[d] \o out
             new == Inform(ls, l, d, out)[l]
  <1>1. ls[l] \in Listener
    BY ElementOfSeq, LenProperties
  <1>2. data \in [Dirs -> Seq(Payload)]
    BY <1>1 DEF Listener
  <1>3. new.data = [data EXCEPT ![d] = more]
    BY <1>1 DEF Inform, Listener
  <1> HIDE DEF new
  <1>4. \A i \in DOMAIN more : Goes(more[i], id, port, d)
    <2>1. data[d] \in Seq(Payload)
      BY <1>2
    <2>2. \A i \in DOMAIN data[d] : Goes(data[d][i], id, port, d)
      BY DEF Tells
    <2> DEFINE old == data[d]
    <2> HIDE DEF data, old
    <2>3. old \in Seq(Payload) /\ more = old \o out /\ \A i \in DOMAIN old : Goes(old[i], id, port, d)
      BY <2>1, <2>2 DEF old
    <2> HIDE DEF more
    <2>4. \A i \in DOMAIN (old \o out) :
             \/ i \in DOMAIN old /\ (old \o out)[i] = old[i]
             \/ i - Len(old) \in DOMAIN out /\ (old \o out)[i] = out[i - Len(old)]
      BY <2>3
    <2>5. QED
      BY <2>3, <2>4
  <1>5. \A e \in Dirs \ {d} : new.data[e] = data[e]
    BY <1>2, <1>3
  <1>6. new.data[d] = more
    BY <1>2, <1>3
  <1> HIDE DEF data, more
  <1>7. ASSUME NEW e \in Dirs, NEW i \in DOMAIN new.data[e]
        PROVE  Goes(new.data[e][i], id, port, e)
    <2>1. CASE e = d
      BY <1>4, <1>6, <1>7, <2>1
    <2>2. CASE e # d
      BY <1>5, <1>7, <2>2 DEF Tells, data
    <2>3. QED
      BY <2>1, <2>2
  <1>8. QED
    BY <1>7 DEF Tells, new

\* A packet and its payload go the way the packet's stream finds.
LEMMA PayloadGoes ==
    ASSUME NEW p \in Packet, NEW s
    PROVE  Goes(PayloadOf(p), StreamId(p), s.localPort, DirOf(p, s))
  <1>1. PayloadOf(p).conn = p.conn /\ PayloadOf(p).end = p.end
    BY DEF PayloadOf
  <1>2. StreamId(PayloadOf(p)) = StreamId(p) /\ DstPort(PayloadOf(p)) = DstPort(p)
    BY <1>1 DEF StreamId, DstPort
  <1>3. QED
    BY <1>2 DEF Goes, DirOf

\* What the handler does with the payload keeps the directions.
LEMMA ProceedsDirections ==
    ASSUME TypeOK, ListenerLifecycle, Directions(streams, listeners), NEW p \in Packet,
           NEW s, NEW ls, NEW objs, NEW st, Proceeds(p, s, ls, objs, st)
    PROVE  Directions(Store(p, s), ls)
  <1> DEFINE b == Subject(p).buffer
             d == DirOf(p, Subject(p))
             i == StreamId(p)
             port == Subject(p).localPort
             l == Subject(p).listener
             known == KnownListeners(p)
             t1 == Store(p, Subject(p))
             t2 == Store(p, s)
  <1>1. IsFor(p)
    BY DEF Proceeds
  <1>2. Directions(t1, known) /\ Owns(t1, known)
    BY <1>1, StoreDirections, StoreOwns
  <1>3. /\ StreamOK(Subject(p)) /\ d \in Dirs /\ b \in [Dirs -> SUBSET Segment]
        /\ known \in Seq(Listener) /\ l \in DOMAIN known
    BY <1>1, SubjectOK, SubjectListener, PacketTypes DEF StreamOK, Stream
  <1>4. /\ DOMAIN t2 = DOMAIN t1 /\ i \in DOMAIN t1
        /\ t1[i] = Subject(p) /\ t2[i] = s
        /\ \A id \in DOMAIN t1 \ {i} : t2[id] = t1[id]
    BY DEF Store
  <1>5. s.listener = l /\ s.localPort = port
    BY DEF Proceeds
  <1>6. Goes(PayloadOf(p), i, port, d)
    BY PayloadGoes
  <1>7. /\ IsPort(i, port) /\ Tells(known[l], i, port)
        /\ \A e \in Dirs : \A g \in b[e] : Goes(g.data, i, port, e)
    <2> HIDE DEF t1, i, known
    <2> QED BY <1>2, <1>4 DEF Directions
  <1>8. \A id \in DOMAIN t1 \ {i} : t1[id].listener # l
    <2> HIDE DEF t1, i, known
    <2> QED BY <1>2, <1>4 DEF Owns
  <1>9. ASSUME DOMAIN ls = DOMAIN known,
               \A k \in DOMAIN known \ {l} : ls[k] = known[k],
               Tells(ls[l], i, port),
               \A e \in Dirs : \A g \in s.buffer[e] : Goes(g.data, i, port, e)
        PROVE  Directions(t2, ls)
    <2> HIDE DEF t1, t2, i, known, l, port
    <2>1. \A id \in DOMAIN t2 :
            /\ IsPort(id, t2[id].localPort)
            /\ Tells(ls[t2[id].listener], id, t2[id].localPort)
            /\ \A e \in Dirs : \A g \in t2[id].buffer[e] : Goes(g.data, id, t2[id].localPort, e)
      <3> TAKE id \in DOMAIN t2
      <3>1. CASE id = i
        BY <1>4, <1>5, <1>7, <1>9, <3>1
      <3>2. CASE id # i
        <4>1. t2[id] = t1[id] /\ t1[id].listener \in DOMAIN known \ {l}
          BY <1>2, <1>4, <1>8, <3>2 DEF Owns
        <4>2. QED
          BY <1>2, <1>4, <1>9, <4>1 DEF Directions
      <3>3. QED
        BY <3>1, <3>2
    <2>2. \A k \in DOMAIN ls : \E id, q : IsPort(id, q) /\ Tells(ls[k], id, q)
      <3> TAKE k \in DOMAIN ls
      <3>1. CASE k = l
        BY <1>7, <1>9, <3>1
      <3>2. CASE k # l
        BY <1>2, <1>9, <3>2 DEF Directions
      <3>3. QED
        BY <3>1, <3>2
    <2>3. QED
      BY <2>1, <2>2 DEF Directions
  <1>10. CASE Keeps(p, s, ls, objs, st)
    <2>1. s.buffer = b /\ ls = known
      BY <1>10 DEF Keeps
    <2> HIDE DEF t1, t2, i, known, l, port, b
    <2>2. QED
      BY <1>7, <1>9, <2>1 DEF t2
  <1>11. CASE Waits(p, s, ls, objs, st)
    <2> DEFINE g0 == [at |-> stats.numSeqNumberMismatch, data |-> PayloadOf(p)]
    <2>1. s.buffer = [b EXCEPT ![d] = @ \cup {g0}] /\ ls = known
      BY <1>11 DEF Waits
    <2>2. g0.data = PayloadOf(p)
      OBVIOUS
    <2> HIDE DEF t1, t2, i, known, l, port, b, d, g0
    <2>3. \A e \in Dirs : \A g \in s.buffer[e] : g \in b[e] \/ (g = g0 /\ e = d)
      BY <1>3, <2>1
    <2>4. \A e \in Dirs : \A g \in s.buffer[e] : Goes(g.data, i, port, e)
      BY <1>6, <1>7, <2>2, <2>3
    <2>5. QED
      BY <1>7, <1>9, <2>1, <2>4 DEF t2
  <1>12. CASE Passes(p, s, ls, objs, st)
    <2>1. PICK hits \in SUBSET b[d], out \in Seq(Payload) :
             /\ s.buffer = [b EXCEPT ![d] = @ \ hits]
             /\ ls = Inform(known, s.listener, d, out)
             /\ \A k \in DOMAIN out : out[k] = PayloadOf(p) \/ \E g \in hits : out[k] = g.data
      BY <1>12 DEF Passes
    <2> HIDE DEF t1, t2, i, known, l, port, b, d
    <2>2. \A k \in DOMAIN out : Goes(out[k], i, port, d)
      BY <1>3, <1>6, <1>7, <2>1
    <2>3. ls = Inform(known, l, d, out)
      BY <1>5, <2>1
    <2>4. Tells(ls[l], i, port)
      BY <1>3, <1>7, <2>2, <2>3, InformTells
    <2>5. DOMAIN ls = DOMAIN known /\ \A k \in DOMAIN known \ {l} : ls[k] = known[k]
      BY <1>3, <2>3, InformOK
    <2>6. \A e \in Dirs : \A g \in s.buffer[e] : g \in b[e]
      BY <1>3, <2>1
    <2>7. QED
      BY <1>7, <1>9, <2>4, <2>5, <2>6 DEF t2
  <1>13. QED
    BY <1>10, <1>11, <1>12 DEF Proceeds

\* So does the end of the handler.
LEMMA FinishDirections ==
    ASSUME TypeOK, ListenerLifecycle, Directions(streams, listeners), NEW p \in Packet,
           NEW s, NEW ls, NEW objs, NEW st, Proceeds(p, s, ls, objs, st)
    PROVE  Directions(streams', listeners')
  <1> DEFINE a == After(p, s)
             table == Store(p, a)
             done == IF IsOver(p, a) THEN {StreamId(p)} ELSE {}
             old == IF purgeCnt + 1 >= PurgeEvery THEN Idle(table) \ done ELSE {}
             ids == done \cup old
             t == Store(p, s)
  <1>1. Release(table, ids, ls, objs) /\ ls \in Seq(Listener)
    BY DEF Proceeds, Finish, CloseStreams
  <1>2. a.buffer = s.buffer /\ a.listener = s.listener /\ a.localPort = s.localPort
    <2>1. s \in Stream
      BY DEF Proceeds, StreamOK
    <2>2. a.localPort = s.localPort
      BY <2>1 DEF After, Stream
    <2>3. QED
      BY <2>2, AfterOK DEF Proceeds
  <1>3. Directions(t, ls)
    BY ProceedsDirections
  <1>4. \A id \in DOMAIN t : t[id].listener \in DOMAIN ls
    <2>1. Owns(t, ls)
      BY StoreChangedOwns DEF Proceeds
    <2>2. QED
      BY <2>1 DEF Owns
  <1>5. /\ DOMAIN table = DOMAIN t
        /\ \A id \in DOMAIN t : /\ table[id].buffer = t[id].buffer
                                /\ table[id].listener = t[id].listener
                                /\ table[id].localPort = t[id].localPort
    <2> HIDE DEF a
    <2> QED BY <1>2 DEF Store
  <1> HIDE DEF table, ids, t
  <1>6. Directions(table, ls) /\ \A id \in DOMAIN table : table[id].listener \in DOMAIN ls
    BY <1>3, <1>4, <1>5 DEF Directions
  <1>7. QED
    BY <1>1, <1>6, ReleaseDirections

\* Every step keeps the directions.
LEMMA DirectionsStep ==
    ASSUME TypeOK, ListenerLifecycle, Directions(streams, listeners), [Next]_vars
    PROVE  Directions(streams', listeners')
  <1>1. ASSUME UNCHANGED <<streams, listeners>>
        PROVE  Directions(streams', listeners')
    BY <1>1
  <1>2. /\ listeners \in Seq(Listener)
        /\ \A id \in DOMAIN streams : streams[id].listener \in DOMAIN listeners
    BY DEF TypeOK, ListenerLifecycle, Owns
  <1>3. ASSUME NEW p \in Packet, OnIPv4Packet(p)
        PROVE  Directions(streams', listeners')
    <2>1. CASE Collide(p)
      <3>1. Release(streams, {StreamId(p)}, listeners, heap)
        BY <2>1 DEF Collide, CloseStreams
      <3>2. QED
        BY <1>2, <3>1, ReleaseDirections
    <2>2. CASE Ignore(p)
      BY <1>1, <2>2 DEF Ignore
    <2>3. CASE Overflow(p)
      <3>1. IsFor(p) /\ Release(Store(p, Subject(p)), {StreamId(p)}, KnownListeners(p), heap)
        BY <2>3 DEF Overflow, CloseStreams
      <3>2. /\ KnownListeners(p) \in Seq(Listener)
            /\ Directions(Store(p, Subject(p)), KnownListeners(p))
            /\ Owns(Store(p, Subject(p)), KnownListeners(p))
        BY <3>1, SubjectOK, StoreDirections, StoreOwns
      <3>3. \A id \in DOMAIN Store(p, Subject(p)) :
               Store(p, Subject(p))[id].listener \in DOMAIN KnownListeners(p)
        BY <3>2 DEF Owns
      <3>4. QED
        BY <3>1, <3>2, <3>3, ReleaseDirections
    <2>4. CASE NoPayload(p) \/ Deliver(p) \/ SkipRetransmit(p) \/ Hold(p)
      <3>1. PICK s, ls, objs, st : Proceeds(p, s, ls, objs, st)
        BY <2>4, QuietProceeds, DeliverProceeds, HoldProceeds
      <3>2. QED
        BY <3>1, FinishDirections
    <2>5. QED
      BY <1>3, <2>1, <2>2, <2>3, <2>4 DEF OnIPv4Packet
  <1>4. CASE UNCHANGED vars \/ Tick
    BY <1>1, <1>4 DEF vars, Tick
  <1>5. CASE Destroy
    <2>1. Release(streams, DOMAIN streams, listeners, heap)
      BY <1>5 DEF Destroy
    <2>2. QED
      BY <1>2, <2>1, ReleaseDirections
  <1>6. QED
    BY <1>3, <1>4, <1>5 DEF Next

\* A listener that is told what one end of a connection sent is told nothing else
\* as that direction, if the connection has an id of its own and two ports,
\* whatever ids other connections share.
THEOREM FaithfulDirections ==
    Spec => []DirectionFaithful
  <1> DEFINE Inv == Directions(streams, listeners)
  <1>1. Init => Inv
    <2> SUFFICES ASSUME Init PROVE Inv
      OBVIOUS
    <2>1. DOMAIN streams = {} /\ DOMAIN listeners = {}
      BY DEF Init
    <2>2. QED
      BY <2>1 DEF Directions
  <1>2. TypeOK /\ ListenerLifecycle /\ Inv /\ [Next]_vars => Inv'
    BY DirectionsStep
  <1>3. TypeOK /\ Inv => DirectionFaithful
    <2> SUFFICES ASSUME TypeOK, Inv, NEW l \in DOMAIN listeners, NEW d \in Dirs,
                        NEW i \in DOMAIN listeners[l].data[d], NEW j \in DOMAIN listeners[l].data[d]
                 PROVE  LET a == listeners[l].data[d][i]
                            b == listeners[l].data[d][j]
                        IN  HasOwnId(a.conn) /\ a.conn.initPort # a.conn.respPort
                               => a.conn = b.conn /\ a.end = b.end
      BY DEF DirectionFaithful
    <2> DEFINE a == listeners[l].data[d][i]
               b == listeners[l].data[d][j]
    <2>1. PICK id, port : IsPort(id, port) /\ Tells(listeners[l], id, port)
      BY DEF Directions
    <2>2. Goes(a, id, port, d) /\ Goes(b, id, port, d)
      BY <2>1 DEF Tells
    <2>3. PICK q \in Packet : StreamId(q) = id /\ DstPort(q) = port
      BY <2>1 DEF IsPort
    <2>4. a \in Payload /\ b \in Payload
      <3>1. listeners[l] \in Listener
        BY DEF TypeOK
      <3>2. listeners[l].data[d] \in Seq(Payload)
        BY <3>1 DEF Listener
      <3>3. QED
        BY <3>2
    <2> HIDE DEF a, b
    <2>5. a.conn \in Conns /\ b.conn \in Conns /\ q.conn \in Conns
      BY <2>4 DEF Payload, Packet
    <2>6. StreamId(a) = StreamId(q) /\ StreamId(b) = StreamId(q)
      BY <2>2, <2>3 DEF Goes
    <2>7. HasOwnId(a.conn) => a.conn = q.conn /\ b.conn = q.conn
      BY <2>5, <2>6 DEF StreamId, HasOwnId
    <2>8. a.end \in Ends /\ b.end \in Ends /\ q.end \in Ends
      BY <2>4 DEF Payload, Packet
    <2>9. (DstPort(a) = DstPort(q)) <=> (DstPort(b) = DstPort(q))
      BY <2>2, <2>3 DEF Goes, DirOf
    <2>10. HasOwnId(a.conn) /\ a.conn.initPort # a.conn.respPort => a.end = b.end
      BY <2>7, <2>8, <2>9 DEF DstPort, Ends
    <2>11. QED
      BY <2>7, <2>10 DEF a, b
  <1> HIDE DEF Inv
  <1>4. QED
    BY <1>1, <1>2, <1>3, Invariant, PTL DEF Spec

-----------------------------------------------------------------------------
(* The packets of connections *)

\* What the code relies on and never checks: an id belongs to one connection,
\* and a port to one end of it.
OwnIds == \A c \in Conns : HasOwnId(c)
OwnPorts == \A c \in Conns : c.initPort # c.respPort

\* No segment of a responder but its first has the sequence number 0, which is
\* taken for the expected one as long as no SYN-ACK was captured.
NeverZero ==
    \A c \in Conns : \A r \in Cuts[c]["resp"] : SeqAt(c, "resp", r.from) = 0 => r.from = 0

\* The id of the stream of a connection
Id(c) == StreamId([conn |-> c])

\* The payload that an end of a connection sends
Sent(c, e) == {PayloadOf(Data(c, e, r)) : r \in Cuts[c][e]}

\* The bytes of a payload, and of the first i of some
BytesOf(x) == Offset(x) .. Offset(x) + x.len - 1
Bytes(data, i) == UNION {BytesOf(data[k]) : k \in 1 .. i}

-----------------------------------------------------------------------------
(* The inductive invariants *)

\* The stream of a connection: it tells the ends apart by the right port, and
\* buffers what they sent.
Buffers(table) ==
    \A c \in Conns : Id(c) \in DOMAIN table =>
        /\ table[Id(c)].localPort = c.respPort
        /\ \A e \in Ends : \A g \in table[Id(c)].buffer[DirFrom(e)] : g.data \in Sent(c, e)

\* Every payload has all bytes in front of it among the payloads before it.
NoGap(data) == \A i \in DOMAIN data : 0 .. Offset(data[i]) - 1 \subseteq Bytes(data, i - 1)

\* An end is expected to go on with a byte that all bytes in front of were passed
\* on of; or with the number 0, as nothing is known of it.
Expects(c, e, next, data) ==
    \/ \E n \in SeqNumbers : next = SeqAt(c, e, n) /\ 0 .. n - 1 \subseteq Bytes(data, Len(data))
    \/ e = "resp" /\ next = 0

\* No listener was given a gap, and no end is expected to leave one.
Gapless(table, ls) ==
    /\ \A l \in DOMAIN ls, d \in Dirs : NoGap(ls[l].data[d])
    /\ \A c \in Conns : Id(c) \in DOMAIN table => \A e \in Ends :
          Expects(c, e, table[Id(c)].next[DirFrom(e)],
                  ls[table[Id(c)].listener].data[DirFrom(e)])

\* What was captured in order of an end is what was passed on: the first n bytes,
\* each once, and the next one is expected once the end has opened. What waits in
\* the buffer are old bytes, captured again after the numbers came round.
UpTo(c, e, n, opened, captured, s, data) ==
    /\ captured = 0 .. n - 1
    /\ Bytes(data, Len(data)) = 0 .. n - 1
    /\ \A i \in DOMAIN data : Offset(data[i]) + data[i].len <= n
    /\ \A i, j \in DOMAIN data : i < j => Offset(data[i]) + data[i].len <= Offset(data[j])
    /\ \A g \in s.buffer[DirFrom(e)] : Offset(g.data) + g.data.len <= n
    /\ \/ opened = 0 /\ n = 0 /\ data = <<>>
       \/ opened = 1 /\ s.next[DirFrom(e)] = SeqAt(c, e, n)

\* This is so of every end captured in order, while its stream is there.
Complete ==
    \A c \in Conns, e \in Ends : WellOpened(c) /\ orderly[c][e] /\ Id(c) \in DOMAIN streams =>
        \E n \in SeqNumbers :
            UpTo(c, e, n, copies[Opening(c, e)], CapturedBytes(c, e), streams[Id(c)],
                 listeners[streams[Id(c)].listener].data[DirFrom(e)])

\* What is kept of the packets captured; of a connection of which nothing was
\* captured there is no stream.
Seen ==
    /\ copies \in [Wire -> Nat]
    /\ first \in [Conns -> SUBSET Wire]
    /\ orderly \in [Conns -> [Ends -> BOOLEAN]]
    /\ \A c \in Conns : \A q \in first[c] : copies[q] > 0
    /\ \A c \in Conns : first[c] = {} =>
          Id(c) \notin DOMAIN streams /\ \A p \in Wire : p.conn = c => copies[p] = 0

\* The stream has counted the FINs captured.
FinsCounted ==
    \A c \in Conns : WellOpened(c) /\ Id(c) \in DOMAIN streams =>
        streams[Id(c)].numFIN = copies[Closing(c, "init")] + copies[Closing(c, "resp")]

-----------------------------------------------------------------------------
(* Sequence numbers *)

\* What is in range, or comes round once, modulo SeqSpace
LEMMA ModuloIs ==
    ASSUME NEW k \in Int, NEW m \in SeqNumbers,
           k = m \/ k = m + SeqSpace \/ k = m - SeqSpace
    PROVE  k % SeqSpace = m
  <1>1. SeqSpace \in Nat /\ SeqSpace > 0 /\ m \in Nat /\ m < SeqSpace
    BY SizesAssumption DEF SeqNumbers
  <1>2. CASE k = m
    BY <1>1, <1>2
  <1>3. CASE k = m + SeqSpace
    BY <1>1, <1>3
  <1>4. CASE k = m - SeqSpace
    BY <1>1, <1>4
  <1>5. QED
    BY <1>2, <1>3, <1>4

\* The same number once round is the same modulo SeqSpace.
LEMMA ModuloAdds ==
    ASSUME NEW a \in Nat, NEW n \in Nat
    PROVE  ((a % SeqSpace) + n) % SeqSpace = (a + n) % SeqSpace
  <1> DEFINE q == a \div SeqSpace
             p == (a + n) \div SeqSpace
             s == a % SeqSpace
             t == (a + n) % SeqSpace
             u == (s + n) \div SeqSpace
             v == (s + n) % SeqSpace
  <1>1. SeqSpace \in Nat /\ SeqSpace > 0
    BY SizesAssumption
  <1>2. /\ q \in Int /\ p \in Int /\ s \in Nat /\ t \in Nat /\ s < SeqSpace /\ t < SeqSpace
        /\ a = SeqSpace * q + s /\ a + n = SeqSpace * p + t
    BY <1>1
  <1>3. u \in Int /\ v \in Nat /\ v < SeqSpace /\ s + n = SeqSpace * u + v
    <2> HIDE DEF s
    <2> QED BY <1>1, <1>2
  <1> HIDE DEF q, p, s, t, u, v
  <1>4. SeqSpace * (p - (q + u)) = v - t
    BY <1>1, <1>2, <1>3
  <1>5. p - (q + u) = 0
    <2> DEFINE w == p - (q + u)
    <2>1. w \in Int /\ SeqSpace * w < SeqSpace /\ SeqSpace * w > -SeqSpace
      BY <1>1, <1>2, <1>3, <1>4
    <2> HIDE DEF w
    <2>2. CASE w >= 1
      <3>1. SeqSpace * w >= SeqSpace
        BY <1>1, <2>1, <2>2
      <3>2. QED
        BY <1>1, <2>1, <3>1
    <2>3. CASE w <= -1
      <3>1. SeqSpace * w <= -SeqSpace
        BY <1>1, <2>1, <2>3
      <3>2. QED
        BY <1>1, <2>1, <3>1
    <2>4. QED
      BY <2>1, <2>2, <2>3 DEF w
  <1>6. v = t
    BY <1>1, <1>2, <1>3, <1>4, <1>5
  <1>7. QED
    BY <1>6 DEF v, t, s

\* An end starts with some sequence number.
LEMMA ISNIs ==
    ASSUME NEW c \in Conns, NEW e \in Ends
    PROVE  ISN[c][e] \in Nat /\ ISN[c][e] < SeqSpace
  BY CaptureAssumption, SizesAssumption DEF SeqNumbers

\* A byte has a sequence number, and is found from it.
LEMMA SeqOfIs ==
    ASSUME NEW c \in Conns, NEW e \in Ends, NEW n \in SeqNumbers
    PROVE  /\ SeqAt(c, e, n) \in SeqNumbers
           /\ (SeqAt(c, e, n) - ISN[c][e] - 1) % SeqSpace = n
  <1>1. SeqSpace \in Nat /\ SeqSpace > 0 /\ n \in Nat /\ n < SeqSpace
    BY SizesAssumption DEF SeqNumbers
  <1>2. PICK i : i = ISN[c][e]
    OBVIOUS
  <1>3. i \in Nat /\ i < SeqSpace
    BY <1>2, ISNIs
  <1>4. PICK s : s = (i + 1 + n) % SeqSpace
    OBVIOUS
  <1>5. s \in SeqNumbers
    BY <1>1, <1>3, <1>4, SeqModulo
  <1>6. s = i + 1 + n \/ s = i + 1 + n - SeqSpace
    <2>1. CASE i + 1 + n < SeqSpace
      <3>1. i + 1 + n \in SeqNumbers
        BY <1>1, <1>3, <2>1 DEF SeqNumbers
      <3>2. QED
        BY <1>4, <3>1, ModuloIs DEF SeqNumbers
    <2>2. CASE i + 1 + n >= SeqSpace
      <3>1. i + 1 + n - SeqSpace \in SeqNumbers
        BY <1>1, <1>3, <2>2 DEF SeqNumbers
      <3>2. i + 1 + n \in Int /\ i + 1 + n = (i + 1 + n - SeqSpace) + SeqSpace
        BY <1>1, <1>3
      <3>3. QED
        BY <1>4, <3>1, <3>2, ModuloIs
    <2>3. QED
      BY <1>1, <1>3, <2>1, <2>2
  <1>7. s - i - 1 = n \/ s - i - 1 = n - SeqSpace
    BY <1>1, <1>3, <1>6
  <1>8. s - i - 1 \in Int
    BY <1>3, <1>5 DEF SeqNumbers
  <1>9. (s - i - 1) % SeqSpace = n
    BY <1>7, <1>8, ModuloIs
  <1>10. SeqAt(c, e, n) = s
    BY <1>2, <1>4 DEF SeqAt
  <1>11. QED
    BY <1>2, <1>5, <1>9, <1>10

\* No two bytes of an end have the same sequence number.
LEMMA SeqAtOnce ==
    ASSUME NEW c \in Conns, NEW e \in Ends, NEW n \in SeqNumbers, NEW m \in SeqNumbers,
           SeqAt(c, e, n) = SeqAt(c, e, m)
    PROVE  n = m
  BY SeqOfIs

\* A segment is a number of bytes within the sequence space.
LEMMA SegmentIs ==
    ASSUME NEW c \in Conns, NEW e \in Ends, NEW r \in Cuts[c][e]
    PROVE  /\ r.from \in Nat /\ r.len \in Nat \ {0} /\ r.len \in 0 .. MaxLen
           /\ EndOf(r) = r.from + r.len
           /\ r.from \in SeqNumbers /\ EndOf(r) \in SeqNumbers
  <1>1. r \in [from : Nat, len : 1 .. MaxLen] /\ EndOf(r) < SeqSpace
    BY CaptureAssumption
  <1>2. QED
    BY <1>1, SizesAssumption DEF EndOf, SeqNumbers

\* What an end sends starts at a byte, and goes on where it ends.
LEMMA PayloadIs ==
    ASSUME NEW c \in Conns, NEW e \in Ends, NEW r \in Cuts[c][e], NEW x, x = PayloadOf(Data(c, e, r))
    PROVE  /\ x.conn = c /\ x.end = e /\ x.seq = SeqAt(c, e, r.from) /\ x.len = r.len
           /\ Offset(x) = r.from
           /\ (x.seq + x.len) % SeqSpace = SeqAt(c, e, EndOf(r))
  <1>1. x.conn = c /\ x.end = e /\ x.seq = SeqAt(c, e, r.from) /\ x.len = r.len
    BY DEF PayloadOf, Data, Send
  <1>2. Offset(x) = r.from
    <2>1. (SeqAt(c, e, r.from) - ISN[c][e] - 1) % SeqSpace = r.from
      BY SegmentIs, SeqOfIs
    <2>2. QED
      BY <1>1, <2>1 DEF Offset
  <1>3. (x.seq + x.len) % SeqSpace = SeqAt(c, e, EndOf(r))
    <2>1. PICK i, f, n : i = ISN[c][e] /\ f = r.from /\ n = r.len
      OBVIOUS
    <2>2. i \in Nat /\ f \in Nat /\ n \in Nat /\ SeqSpace \in Nat \ {0}
      BY <2>1, SegmentIs, ISNIs, SizesAssumption
    <2>3. PICK a : a = i + 1 + f
      OBVIOUS
    <2>4. a \in Nat
      BY <2>2, <2>3
    <2>5. ((a % SeqSpace) + n) % SeqSpace = (a + n) % SeqSpace
      BY <2>2, <2>4, ModuloAdds
    <2>6. a + n = i + 1 + (f + n)
      BY <2>2, <2>3
    <2>7. SeqAt(c, e, r.from) = a % SeqSpace
      BY <2>1, <2>3 DEF SeqAt
    <2>8. SeqAt(c, e, EndOf(r)) = (i + 1 + (f + n)) % SeqSpace
      BY <2>1 DEF SeqAt, EndOf
    <2>9. QED
      BY <1>1, <2>1, <2>5, <2>6, <2>7, <2>8
  <1>4. QED
    BY <1>1, <1>2, <1>3

-----------------------------------------------------------------------------
(* What is on the wire *)

\* An end sends a number of bytes that is within the sequence space.
LEMMA SizeIs ==
    ASSUME NEW c \in Conns, NEW e \in Ends
    PROVE  /\ Size(c, e) \in SeqNumbers
           /\ \A r \in Cuts[c][e] : EndOf(r) <= Size(c, e)
  <1>1. CASE Cuts[c][e] = {}
    BY <1>1, SizesAssumption DEF Size, SeqNumbers
  <1>2. CASE Cuts[c][e] # {}
    <2> DEFINE S == {EndOf(r) : r \in Cuts[c][e]}
    <2>1. \A r \in Cuts[c][e] : EndOf(r) \in Nat /\ EndOf(r) <= SeqSpace
      BY SegmentIs, SizesAssumption DEF SeqNumbers
    <2>2. S \subseteq Nat /\ S # {} /\ SeqSpace \in Nat /\ \A n \in S : n <= SeqSpace
      BY <1>2, <2>1, SizesAssumption
    <2> HIDE DEF S
    <2>3. PICK m \in S : \A n \in S : n <= m
      BY <2>2, GreatestExists
    <2>4. \E r \in Cuts[c][e] : \A q \in Cuts[c][e] : EndOf(q) <= EndOf(r)
      BY <2>3 DEF S
    <2>5. PICK r : r = CHOOSE t \in Cuts[c][e] : \A q \in Cuts[c][e] : EndOf(q) <= EndOf(t)
      OBVIOUS
    <2>6. r \in Cuts[c][e] /\ \A q \in Cuts[c][e] : EndOf(q) <= EndOf(r)
      BY <2>4, <2>5
    <2>7. Size(c, e) = EndOf(r)
      BY <1>2, <2>5, Zenon DEF Size
    <2>8. QED
      BY <2>6, <2>7, SegmentIs
  <1>3. QED
    BY <1>1, <1>2

\* What opens an end, ends it, and what is in between
LEMMA OpeningIs ==
    ASSUME NEW c \in Conns, NEW e \in Ends, NEW p, p = Opening(c, e)
    PROVE  /\ p.conn = c /\ p.end = e /\ p.seq = ISN[c][e] /\ p.len = 0
           /\ p.flags = IF e = "init" THEN {"SYN"} ELSE {"SYN", "ACK"}
           /\ p \in Packet
  <1>1. /\ p.conn = c /\ p.end = e /\ p.seq = ISN[c][e] /\ p.len = 0
        /\ p.flags = IF e = "init" THEN {"SYN"} ELSE {"SYN", "ACK"}
    BY DEF Opening, Send
  <1>2. p.seq \in SeqNumbers /\ p.len \in 0 .. MaxLen /\ p.flags \in SUBSET {"SYN", "ACK", "FIN", "RST"}
    BY <1>1, ISNIs, SizesAssumption DEF SeqNumbers
  <1>3. p = [conn |-> p.conn, end |-> p.end, flags |-> p.flags, seq |-> p.seq, len |-> p.len]
    BY DEF Opening, Send
  <1>4. QED
    BY <1>1, <1>2, <1>3 DEF Packet

\* An end is ended by a packet with a FIN, numbered after the last byte.
LEMMA ClosingIs ==
    ASSUME NEW c \in Conns, NEW e \in Ends, NEW p, p = Closing(c, e)
    PROVE  /\ p.conn = c /\ p.end = e /\ p.seq = SeqAt(c, e, Size(c, e)) /\ p.len = 0
           /\ p.flags = {"FIN", "ACK"}
           /\ p \in Packet
  <1>1. /\ p.conn = c /\ p.end = e /\ p.seq = SeqAt(c, e, Size(c, e)) /\ p.len = 0
        /\ p.flags = {"FIN", "ACK"}
    BY DEF Closing, Send
  <1>2. p.seq \in SeqNumbers /\ p.len \in 0 .. MaxLen /\ p.flags \in SUBSET {"SYN", "ACK", "FIN", "RST"}
    BY <1>1, SizeIs, SeqOfIs, SizesAssumption
  <1>3. p = [conn |-> p.conn, end |-> p.end, flags |-> p.flags, seq |-> p.seq, len |-> p.len]
    BY DEF Closing, Send
  <1>4. QED
    BY <1>1, <1>2, <1>3 DEF Packet

\* A segment is a packet with nothing but an ACK and its bytes.
LEMMA DataIs ==
    ASSUME NEW c \in Conns, NEW e \in Ends, NEW r \in Cuts[c][e], NEW p, p = Data(c, e, r)
    PROVE  /\ p.conn = c /\ p.end = e /\ p.seq = SeqAt(c, e, r.from) /\ p.len = r.len
           /\ p.flags = {"ACK"}
           /\ p \in Packet
  <1>1. /\ p.conn = c /\ p.end = e /\ p.seq = SeqAt(c, e, r.from) /\ p.len = r.len
        /\ p.flags = {"ACK"}
    BY DEF Data, Send
  <1>2. p.seq \in SeqNumbers /\ p.len \in 0 .. MaxLen /\ p.flags \in SUBSET {"SYN", "ACK", "FIN", "RST"}
    BY <1>1, SegmentIs, SeqOfIs
  <1>3. p = [conn |-> p.conn, end |-> p.end, flags |-> p.flags, seq |-> p.seq, len |-> p.len]
    BY DEF Data, Send
  <1>4. QED
    BY <1>1, <1>2, <1>3 DEF Packet

\* A packet on the wire is one of these.
LEMMA WireIs ==
    ASSUME NEW p \in Wire
    PROVE  /\ p \in Packet /\ p.conn \in Conns /\ p.end \in Ends
           /\ \/ p = Opening(p.conn, p.end)
              \/ p = Closing(p.conn, p.end)
              \/ \E r \in Cuts[p.conn][p.end] : p = Data(p.conn, p.end, r)
  <1>1. PICK c \in Conns, e \in Ends :
          p = Opening(c, e) \/ p = Closing(c, e) \/ \E r \in Cuts[c][e] : p = Data(c, e, r)
    BY DEF Wire, Packets
  <1>2. p.conn = c /\ p.end = e /\ p \in Packet
    BY <1>1, OpeningIs, ClosingIs, DataIs
  <1>3. QED
    BY <1>1, <1>2

\* What opens and ends an end and all of its segments are on the wire.
LEMMA OnWire ==
    ASSUME NEW c \in Conns, NEW e \in Ends
    PROVE  /\ Opening(c, e) \in Wire /\ Closing(c, e) \in Wire
           /\ \A r \in Cuts[c][e] : Data(c, e, r) \in Wire
  <1>1. Packets(c, e) \subseteq Wire
    BY DEF Wire
  <1>2. QED
    BY <1>1 DEF Packets

\* Every capture is a packet the reassembler gets: what is proved of it holds.
LEMMA CaptureImplements == CaptureSpec => Spec
  <1>1. CaptureInit => Init
    BY DEF CaptureInit
  <1>2. [CaptureNext]_<<vars, wireVars>> => [Next]_vars
    <2>1. ASSUME NEW p \in Wire, Capture(p)
          PROVE  Next
      BY <2>1, WireIs DEF Capture, Next
    <2>2. QED
      BY <2>1 DEF CaptureNext
  <1>3. QED
    BY <1>1, <1>2, PTL DEF CaptureSpec, Spec

\* The types are right, and one stream owns each open listener.
LEMMA Lives == CaptureSpec => [](TypeOK /\ ListenerLifecycle)
  BY CaptureImplements, Invariant, PTL

-----------------------------------------------------------------------------
(* What a captured packet does to the stream it is for *)

\* What is left when streams of a table were closed: the others, and what the
\* listeners were told
Leaves(table, ls) ==
    /\ \A id \in DOMAIN streams' : id \in DOMAIN table /\ streams'[id] = table[id]
    /\ DOMAIN listeners' = DOMAIN ls
    /\ \A l \in DOMAIN ls : listeners'[l].data = ls[l].data

\* It begins, ...
Opens(p, s, ls) ==
    /\ p = Opening(p.conn, "init") /\ Id(p.conn) \notin DOMAIN streams
    /\ ls = Append(listeners, NewListener) /\ s.listener = Len(listeners) + 1
    /\ s.localPort = p.conn.respPort /\ s.numFIN = 0
    /\ \A d \in Dirs : s.buffer[d] = {}
    /\ s.next["fromInitiator"] = SeqAt(p.conn, "init", 0) /\ s.next["toInitiator"] = 0

\* ... the other end is known from now on, ...
Answers(p, old, s) ==
    /\ p = Opening(p.conn, "resp")
    /\ s.buffer = old.buffer /\ s.numFIN = old.numFIN
    /\ s.next = [old.next EXCEPT !["toInitiator"] = SeqAt(p.conn, "resp", 0)]

\* ... the packet says nothing new, or too much, ...
Stays(p, old, s) ==
    /\ p = Closing(p.conn, p.end) \/ p.seq # old.next[DirFrom(p.end)]
    /\ "SYN" \notin p.flags
    /\ s.next = old.next
    /\ s.numFIN = IF p = Closing(p.conn, p.end) THEN old.numFIN + 1 ELSE old.numFIN
    /\ \A d \in Dirs : \A g \in s.buffer[d] :
          \/ g \in old.buffer[d]
          \/ d = DirFrom(p.end) /\ g.data = PayloadOf(p) /\ p # Closing(p.conn, p.end)

\* ... or its payload is passed on, with what waits for it.
Delivers(p, old, s, ls) ==
    LET d == DirFrom(p.end)
    IN  /\ "SYN" \notin p.flags /\ p # Closing(p.conn, p.end) /\ p.seq = old.next[d]
        /\ s.next = [old.next EXCEPT ![d] = (p.seq + p.len) % SeqSpace]
        /\ s.numFIN = old.numFIN
        /\ \A e \in Dirs : s.buffer[e] \subseteq old.buffer[e]
        /\ \E later \in Seq(Payload) :
              /\ ls = Inform(listeners, old.listener, d, <<PayloadOf(p)>> \o later)
              /\ \A i \in DOMAIN later : \E g \in old.buffer[d] :
                    later[i] = g.data /\ g.data.seq = (p.seq + p.len) % SeqSpace

\* An existing stream goes on in one of these ways.
GoesOn(p, old, s, ls) ==
    /\ s.listener = old.listener /\ s.localPort = old.localPort
    /\ \/ ls = listeners /\ (Answers(p, old, s) \/ Stays(p, old, s))
       \/ Delivers(p, old, s, ls)

\* A packet opens a stream or goes on with the one there is.
Changes(p, s, ls) ==
    /\ ls \in Seq(Listener)
    /\ \/ Opens(p, s, ls)
       \/ Id(p.conn) \in DOMAIN streams /\ GoesOn(p, streams[Id(p.conn)], s, ls)

\* The stream of a packet, if it has one, is closed, or it goes on.
Handled(p) ==
    \/ Id(p.conn) \notin DOMAIN streams' /\ Leaves(streams, listeners)
    \/ \E s, ls : Changes(p, s, ls) /\ Leaves(Store(p, s), ls)

\* The streams that are closed are gone, the others and what was told stay.
LEMMA ReleaseLeaves ==
    ASSUME NEW table, NEW ids, NEW ls \in Seq(Listener), NEW objs, Release(table, ids, ls, objs)
    PROVE  Leaves(table, ls) /\ \A id \in ids : id \notin DOMAIN streams'
  <1> DEFINE L == {table[id].listener : id \in ids}
  <1>1. /\ \A id \in DOMAIN streams' : id \in DOMAIN table \ ids /\ streams'[id] = table[id]
        /\ DOMAIN listeners' = DOMAIN ls
        /\ \A l \in DOMAIN ls :
              listeners'[l] = IF l \in L THEN [ls[l] EXCEPT !.closes = @ + 1] ELSE ls[l]
    BY DEF Release, Without, CloseListeners
  <1> HIDE DEF L
  <1>2. \A l \in DOMAIN ls : listeners'[l].data = ls[l].data
    <2> TAKE l \in DOMAIN ls
    <2>1. ls[l] \in Listener
      OBVIOUS
    <2>2. [ls[l] EXCEPT !.closes = ls[l].closes + 1].data = ls[l].data
      BY <2>1 DEF Listener
    <2>3. QED
      BY <1>1, <2>2
  <1>3. QED
    BY <1>1, <1>2 DEF Leaves

\* The end of the handler
LEMMA AfterIs ==
    ASSUME NEW p \in Packet, NEW s \in Stream
    PROVE  LET a == After(p, s)
               d == DirOf(p, s)
           IN  /\ a.listener = s.listener /\ a.localPort = s.localPort /\ a.buffer = s.buffer
               /\ a.next = IF "SYN" \in p.flags
                           THEN [s.next EXCEPT ![d] = (s.next[d] + 1) % SeqSpace] ELSE s.next
               /\ a.numFIN = IF "FIN" \in p.flags THEN s.numFIN + 1 ELSE s.numFIN
  <1> DEFINE d == DirOf(p, s)
             nx == IF "SYN" \in p.flags THEN (s.next[d] + 1) % SeqSpace ELSE s.next[d]
             fins == IF "FIN" \in p.flags THEN s.numFIN + 1 ELSE s.numFIN
             a == After(p, s)
  <1>1. d \in Dirs /\ s.next \in [Dirs -> SeqNumbers]
    BY PacketTypes DEF Stream
  <1>2. a = [s EXCEPT !.lastActivityTs = now, !.next = [s.next EXCEPT ![d] = nx],
                      !.numFIN = fins]
    BY <1>1 DEF After, Stream
  <1> HIDE DEF nx, a, d
  <1>3. /\ a.listener = s.listener /\ a.buffer = s.buffer /\ a.numFIN = fins
        /\ a.localPort = s.localPort /\ a.next = [s.next EXCEPT ![d] = nx]
    BY <1>2 DEF Stream
  <1>4. "SYN" \notin p.flags => [s.next EXCEPT ![d] = nx] = s.next
    BY <1>1 DEF nx
  <1>5. "SYN" \in p.flags => nx = (s.next[d] + 1) % SeqSpace
    BY DEF nx
  <1>6. QED
    BY <1>3, <1>4, <1>5 DEF a, d

\* What the end of the handler leaves
LEMMA FinishLeaves ==
    ASSUME NEW p, NEW s, NEW ls \in Seq(Listener), NEW objs, NEW st, Finish(p, s, ls, objs, st)
    PROVE  Leaves(Store(p, After(p, s)), ls)
  <1>1. \E ids : Release(Store(p, After(p, s)), ids, ls, objs)
    BY DEF Finish, CloseStreams
  <1>2. QED
    BY <1>1, ReleaseLeaves

\* A packet has the id of its connection and goes the way of its end.
LEMMA Directed ==
    ASSUME OwnPorts, NEW p \in Wire, NEW s, s.localPort = p.conn.respPort
    PROVE  StreamId(p) = Id(p.conn) /\ DirOf(p, s) = DirFrom(p.end)
  <1>1. p.conn \in Conns /\ p.end \in Ends
    BY WireIs
  <1>2. StreamId(p) = Id(p.conn)
    BY DEF StreamId, Id
  <1>3. DirOf(p, s) = DirFrom(p.end)
    BY <1>1 DEF DirOf, DstPort, DirFrom, OwnPorts, Ends
  <1>4. QED
    BY <1>2, <1>3

\* A SYN of the initiator opens a stream, or closes the one there is.
LEMMA OpeningHandled ==
    ASSUME OwnPorts, TypeOK, NEW c \in Conns, NEW p, p = Opening(c, "init"), OnIPv4Packet(p)
    PROVE  Handled(p)
  <1>1. p \in Wire /\ p \in Packet /\ p.conn = c /\ p.end = "init" /\ p.seq = ISN[c]["init"]
        /\ p.len = 0 /\ p.flags = {"SYN"}
    BY OnWire, OpeningIs DEF Ends
  <1>2. IsOpening(p) /\ StreamId(p) = Id(c) /\ "SYN" \in p.flags /\ "FIN" \notin p.flags
    BY <1>1 DEF IsOpening, StreamId, Id
  <1>3. CASE Collide(p)
    <2>1. Release(streams, {StreamId(p)}, listeners, heap) /\ listeners \in Seq(Listener)
      BY <1>3 DEF Collide, CloseStreams, TypeOK
    <2>2. QED
      BY <1>1, <1>2, <2>1, ReleaseLeaves DEF Handled
  <1>4. CASE NoPayload(p)
    <2> DEFINE s == NewStream(p)
               ls == KnownListeners(p)
               a == After(p, s)
    <2>1. /\ Finish(p, s, ls, heap, Counted(p)) /\ IsFor(p)
          /\ Id(c) \notin DOMAIN streams
      BY <1>2, <1>4 DEF NoPayload, Subject, IsFor, IsTracked
    <2>2. ls \in Seq(Listener) /\ StreamOK(Subject(p)) /\ Subject(p) = s
      BY <1>1, <1>2, <2>1, SubjectOK DEF Subject
    <2>3. s \in Stream
      BY <2>2 DEF StreamOK
    <2>4. /\ s.localPort = c.respPort /\ s.listener = Len(listeners) + 1 /\ s.numFIN = 0
          /\ \A d \in Dirs : s.buffer[d] = {}
          /\ s.next["fromInitiator"] = p.seq /\ s.next["toInitiator"] = 0
      BY <1>1 DEF NewStream, DstPort, Dirs
    <2>5. DirOf(p, s) = "fromInitiator"
      BY <1>1, <2>4, Directed DEF DirFrom
    <2> HIDE DEF s
    <2>6. /\ a.listener = s.listener /\ a.localPort = s.localPort /\ a.buffer = s.buffer
          /\ a.next = [s.next EXCEPT !["fromInitiator"] = (s.next["fromInitiator"] + 1) % SeqSpace]
          /\ a.numFIN = s.numFIN
      BY <1>1, <1>2, <2>3, <2>5, AfterIs
    <2>7. s.next \in [Dirs -> SeqNumbers]
      BY <2>3 DEF Stream
    <2> HIDE DEF a
    <2>8. /\ a.next["fromInitiator"] = (ISN[c]["init"] + 1) % SeqSpace
          /\ a.next["toInitiator"] = 0
      BY <1>1, <2>4, <2>6, <2>7 DEF Dirs
    <2>9. (ISN[c]["init"] + 1) % SeqSpace = SeqAt(c, "init", 0)
      BY ISNIs DEF SeqAt, Ends
    <2>10. ls = Append(listeners, NewListener)
      BY <1>2 DEF KnownListeners
    <2> HIDE DEF ls
    <2>11. Changes(p, a, ls)
      BY <1>1, <2>1, <2>2, <2>4, <2>6, <2>8, <2>9, <2>10 DEF Changes, Opens
    <2>12. Leaves(Store(p, a), ls)
      BY <2>1, <2>2, FinishLeaves DEF a
    <2>13. QED
      BY <2>11, <2>12 DEF Handled
  <1>5. ~Ignore(p) /\ ~Deliver(p) /\ ~SkipRetransmit(p) /\ ~Hold(p) /\ ~Overflow(p)
    BY <1>1, <1>2 DEF Ignore, Deliver, SkipRetransmit, Hold, Overflow
  <1>6. QED
    BY <1>3, <1>4, <1>5 DEF OnIPv4Packet

\* Without a stream nothing happens.
LEMMA IgnoredHandled ==
    ASSUME NEW p, StreamId(p) = Id(p.conn), Ignore(p)
    PROVE  Handled(p)
  BY DEF Ignore, IsTracked, Handled, Leaves

\* The subject of any other packet
LEMMA SubjectIs ==
    ASSUME OwnPorts, TypeOK, Buffers(streams), NEW p \in Wire, ~IsOpening(p), IsFor(p)
    PROVE  /\ StreamId(p) = Id(p.conn) /\ Id(p.conn) \in DOMAIN streams
           /\ streams[Id(p.conn)] \in Stream
           /\ DirOf(p, streams[Id(p.conn)]) = DirFrom(p.end)
           /\ DirFrom(p.end) \in Dirs
           /\ KnownListeners(p) = listeners /\ listeners \in Seq(Listener)
           /\ ~IsSynAck(p) => Subject(p) = streams[Id(p.conn)]
           /\ IsSynAck(p) => Subject(p) = [streams[Id(p.conn)] EXCEPT !.next["toInitiator"] = p.seq]
  <1>1. p \in Packet /\ p.conn \in Conns /\ p.end \in Ends
    BY WireIs
  <1>2. StreamId(p) = Id(p.conn)
    BY DEF StreamId, Id
  <1>3. Id(p.conn) \in DOMAIN streams
    BY <1>2 DEF IsFor, IsTracked
  <1>4. streams[Id(p.conn)] \in Stream /\ streams[Id(p.conn)].localPort = p.conn.respPort
    BY <1>1, <1>3 DEF TypeOK, StreamOK, Buffers
  <1>5. QED
    BY <1>1, <1>2, <1>3, <1>4, Directed DEF KnownListeners, Subject, TypeOK, DirFrom, Dirs

\* A SYN-ACK sets the number that is expected of the other end.
LEMMA AnswerHandled ==
    ASSUME OwnPorts, TypeOK, Buffers(streams), NEW c \in Conns,
           NEW p, p = Opening(c, "resp"), OnIPv4Packet(p)
    PROVE  Handled(p)
  <1>1. p \in Wire /\ p \in Packet /\ p.conn = c /\ p.end = "resp" /\ p.seq = ISN[c]["resp"]
        /\ p.len = 0 /\ p.flags = {"SYN", "ACK"}
    BY OnWire, OpeningIs DEF Ends
  <1>2. ~IsOpening(p) /\ IsSynAck(p) /\ StreamId(p) = Id(c) /\ "SYN" \in p.flags /\ "FIN" \notin p.flags
    BY <1>1 DEF IsOpening, IsSynAck, StreamId, Id
  <1>3. CASE NoPayload(p)
    <2> DEFINE old == streams[Id(c)]
               s == Subject(p)
               a == After(p, s)
    <2>1. Finish(p, s, listeners, heap, Counted(p)) /\ IsFor(p)
      BY <1>1, <1>2, <1>3, SubjectIs DEF NoPayload
    <2>2. /\ Id(c) \in DOMAIN streams /\ old \in Stream /\ listeners \in Seq(Listener)
          /\ s = [old EXCEPT !.next["toInitiator"] = p.seq]
          /\ DirOf(p, old) = "toInitiator"
      BY <1>1, <1>2, <2>1, SubjectIs DEF DirFrom
    <2>3. s \in Stream
      BY <1>1, <2>1, SubjectOK DEF StreamOK
    <2> HIDE DEF old, s
    <2>4. /\ s.listener = old.listener /\ s.localPort = old.localPort /\ s.buffer = old.buffer
          /\ s.numFIN = old.numFIN /\ s.next = [old.next EXCEPT !["toInitiator"] = p.seq]
      BY <2>2 DEF Stream
    <2>5. DirOf(p, s) = "toInitiator"
      BY <2>2, <2>4 DEF DirOf
    <2>6. /\ a.listener = s.listener /\ a.localPort = s.localPort /\ a.buffer = s.buffer
          /\ a.next = [s.next EXCEPT !["toInitiator"] = (s.next["toInitiator"] + 1) % SeqSpace]
          /\ a.numFIN = s.numFIN
      BY <1>1, <1>2, <2>3, <2>5, AfterIs
    <2>7. old.next \in [Dirs -> SeqNumbers] /\ "toInitiator" \in Dirs
      BY <2>2 DEF Stream, Dirs
    <2> HIDE DEF a
    <2>8. a.next = [old.next EXCEPT !["toInitiator"] = (ISN[c]["resp"] + 1) % SeqSpace]
      BY <1>1, <2>4, <2>6, <2>7
    <2>9. (ISN[c]["resp"] + 1) % SeqSpace = SeqAt(c, "resp", 0)
      BY ISNIs DEF SeqAt, Ends
    <2>10. Changes(p, a, listeners)
      BY <1>1, <2>2, <2>4, <2>6, <2>8, <2>9 DEF Changes, GoesOn, Answers, old
    <2>11. Leaves(Store(p, a), listeners)
      BY <2>1, <2>2, FinishLeaves DEF a
    <2>12. QED
      BY <2>10, <2>11 DEF Handled
  <1>4. ~Collide(p) /\ ~Deliver(p) /\ ~SkipRetransmit(p) /\ ~Hold(p) /\ ~Overflow(p)
    BY <1>1, <1>2 DEF Collide, Deliver, SkipRetransmit, Hold, Overflow
  <1>5. QED
    BY <1>1, <1>2, <1>3, <1>4, IgnoredHandled DEF OnIPv4Packet

\* A FIN is counted.
LEMMA ClosingHandled ==
    ASSUME OwnPorts, TypeOK, Buffers(streams), NEW c \in Conns, NEW e \in Ends,
           NEW p, p = Closing(c, e), OnIPv4Packet(p)
    PROVE  Handled(p)
  <1>1. p \in Wire /\ p \in Packet /\ p.conn = c /\ p.end = e
        /\ p.len = 0 /\ p.flags = {"FIN", "ACK"}
    BY OnWire, ClosingIs
  <1>2. /\ ~IsOpening(p) /\ ~IsSynAck(p) /\ StreamId(p) = Id(c)
        /\ "SYN" \notin p.flags /\ "FIN" \in p.flags
    BY <1>1 DEF IsOpening, IsSynAck, StreamId, Id
  <1>3. CASE NoPayload(p)
    <2> DEFINE s == streams[Id(c)]
               a == After(p, s)
    <2>1. IsFor(p)
      BY <1>3 DEF NoPayload
    <2>2. /\ Id(c) \in DOMAIN streams /\ s \in Stream /\ listeners \in Seq(Listener)
          /\ Subject(p) = s /\ KnownListeners(p) = listeners
      BY <1>1, <1>2, <2>1, SubjectIs
    <2>3. Finish(p, s, listeners, heap, Counted(p))
      BY <1>3, <2>2 DEF NoPayload
    <2> HIDE DEF s
    <2>4. /\ a.listener = s.listener /\ a.localPort = s.localPort /\ a.buffer = s.buffer
          /\ a.next = s.next /\ a.numFIN = s.numFIN + 1
      BY <1>1, <1>2, <2>2, AfterIs, ZenonT(60)
    <2>5. Leaves(Store(p, a), listeners)
      BY <2>2, <2>3, FinishLeaves
    <2> HIDE DEF a
    <2>6. Stays(p, s, a)
      BY <1>1, <1>2, <2>4 DEF Stays
    <2>7. Changes(p, a, listeners)
      BY <1>1, <2>2, <2>4, <2>6 DEF Changes, GoesOn, s
    <2>8. QED
      BY <2>5, <2>7 DEF Handled
  <1>4. ~Collide(p) /\ ~Deliver(p) /\ ~SkipRetransmit(p) /\ ~Hold(p) /\ ~Overflow(p)
    BY <1>1, <1>2 DEF Collide, Deliver, SkipRetransmit, Hold, Overflow
  <1>5. QED
    BY <1>1, <1>2, <1>3, <1>4, IgnoredHandled DEF OnIPv4Packet

\* Data that is not expected is skipped, kept or too much.
LEMMA UnexpectedHandled ==
    ASSUME OwnPorts, TypeOK, Buffers(streams), NEW c \in Conns, NEW e \in Ends,
           NEW r \in Cuts[c][e], NEW p, p = Data(c, e, r),
           SkipRetransmit(p) \/ Hold(p) \/ Overflow(p)
    PROVE  Handled(p)
  <1> DEFINE old == streams[Id(c)]
             d == DirFrom(e)
  <1>1. p \in Wire /\ p \in Packet /\ p.conn = c /\ p.end = e /\ p.flags = {"ACK"}
    BY OnWire, DataIs
  <1>2. /\ ~IsOpening(p) /\ ~IsSynAck(p) /\ StreamId(p) = Id(c)
        /\ "SYN" \notin p.flags /\ "FIN" \notin p.flags
    BY <1>1 DEF IsOpening, IsSynAck, StreamId, Id
  <1>3. p # Closing(c, e)
    <2>1. Closing(c, e).flags = {"FIN", "ACK"}
      BY ClosingIs
    <2>2. QED
      BY <1>2, <2>1
  <1>4. IsFor(p) /\ ~IsNext(p, Subject(p))
    BY DEF SkipRetransmit, Hold, Overflow
  <1>5. /\ Id(c) \in DOMAIN streams /\ old \in Stream /\ listeners \in Seq(Listener)
        /\ Subject(p) = old /\ KnownListeners(p) = listeners
        /\ DirOf(p, old) = d /\ d \in Dirs
    BY <1>1, <1>2, <1>4, SubjectIs
  <1>6. p.seq # old.next[d]
    BY <1>4, <1>5 DEF IsNext
  <1>7. ASSUME NEW s \in Stream, s.listener = old.listener, s.localPort = old.localPort,
               s.next = old.next, s.numFIN = old.numFIN,
               \A b \in Dirs : \A g \in s.buffer[b] :
                 g \in old.buffer[b] \/ (b = d /\ g.data = PayloadOf(p)),
               NEW objs, NEW st, Finish(p, s, listeners, objs, st)
        PROVE  Handled(p)
    <2> DEFINE a == After(p, s)
    <2>1. /\ a.listener = s.listener /\ a.localPort = s.localPort /\ a.buffer = s.buffer
          /\ a.next = s.next /\ a.numFIN = s.numFIN
      BY <1>1, <1>2, AfterIs
    <2>2. Leaves(Store(p, a), listeners)
      BY <1>5, <1>7, FinishLeaves
    <2> HIDE DEF a, old, d
    <2>3. Stays(p, old, a)
      BY <1>1, <1>2, <1>3, <1>6, <1>7, <2>1 DEF Stays, d
    <2>4. Changes(p, a, listeners)
      BY <1>1, <1>5, <1>7, <2>1, <2>3 DEF Changes, GoesOn, old
    <2>5. QED
      BY <2>2, <2>4 DEF Handled
  <1>8. CASE SkipRetransmit(p)
    <2>1. PICK st : Finish(p, old, listeners, heap, st)
      BY <1>5, <1>8 DEF SkipRetransmit
    <2> HIDE DEF old, d
    <2>2. QED
      BY <1>5, <1>7, <2>1
  <1>9. CASE Hold(p)
    <2> DEFINE g0 == [at |-> stats.numSeqNumberMismatch, data |-> PayloadOf(p)]
               s == [old EXCEPT !.buffer[d] = @ \cup {g0}]
               b == [old.buffer EXCEPT ![d] = @ \cup {g0}]
    <2>1. PICK objs, st : Finish(p, s, listeners, objs, st)
      BY <1>5, <1>9 DEF Hold
    <2>2. g0 \in Segment /\ g0.data = PayloadOf(p)
      BY <1>1, PacketTypes DEF Segment, TypeOK, Stats
    <2> HIDE DEF old, d, g0
    <2>3. b \in [Dirs -> SUBSET Segment]
      BY <1>5, <2>2 DEF Stream
    <2>4. s = [old EXCEPT !.buffer = b]
      BY <1>5 DEF Stream
    <2>5. \A x \in Dirs : \A g \in b[x] : g \in old.buffer[x] \/ (x = d /\ g = g0)
      BY <1>5 DEF Stream
    <2> HIDE DEF b, s
    <2>6. /\ s \in Stream /\ s.listener = old.listener /\ s.localPort = old.localPort
          /\ s.next = old.next /\ s.numFIN = old.numFIN /\ s.buffer = b
      BY <1>5, <2>3, <2>4 DEF Stream
    <2>7. \A x \in Dirs : \A g \in s.buffer[x] :
             g \in old.buffer[x] \/ (x = d /\ g.data = PayloadOf(p))
      BY <2>2, <2>5, <2>6
    <2>8. QED
      BY <1>7, <2>1, <2>6, <2>7
  <1>10. CASE Overflow(p)
    <2>1. Release(Store(p, old), {StreamId(p)}, listeners, heap)
      BY <1>5, <1>10 DEF Overflow, CloseStreams
    <2>2. \A id \in DOMAIN Store(p, old) : id \in DOMAIN streams /\ Store(p, old)[id] = streams[id]
      BY <1>2, <1>5 DEF Store
    <2>3. Leaves(Store(p, old), listeners) /\ Id(c) \notin DOMAIN streams'
      BY <1>2, <1>5, <2>1, ReleaseLeaves
    <2>4. QED
      BY <1>1, <2>2, <2>3 DEF Handled, Leaves
  <1>11. QED
    BY <1>8, <1>9, <1>10

\* Data that is expected is passed on.
LEMMA ExpectedHandled ==
    ASSUME OwnPorts, TypeOK, ListenerLifecycle, Buffers(streams), NEW c \in Conns, NEW e \in Ends,
           NEW r \in Cuts[c][e], NEW p, p = Data(c, e, r), Deliver(p)
    PROVE  Handled(p)
  <1> DEFINE old == streams[Id(c)]
             d == DirFrom(e)
             next == (p.seq + p.len) % SeqSpace
             hits == {g \in old.buffer[d] : g.data.seq = next}
             left == [old EXCEPT !.next[d] = next, !.buffer[d] = @ \ hits]
  <1>1. p \in Wire /\ p \in Packet /\ p.conn = c /\ p.end = e /\ p.flags = {"ACK"}
    BY OnWire, DataIs
  <1>2. /\ ~IsOpening(p) /\ ~IsSynAck(p) /\ StreamId(p) = Id(c)
        /\ "SYN" \notin p.flags /\ "FIN" \notin p.flags
    BY <1>1 DEF IsOpening, IsSynAck, StreamId, Id
  <1>3. p # Closing(c, e)
    <2>1. Closing(c, e).flags = {"FIN", "ACK"}
      BY ClosingIs
    <2>2. QED
      BY <1>2, <2>1
  <1>4. IsFor(p) /\ IsNext(p, Subject(p))
    BY DEF Deliver
  <1>5. /\ Id(c) \in DOMAIN streams /\ old \in Stream /\ listeners \in Seq(Listener)
        /\ Subject(p) = old /\ KnownListeners(p) = listeners
        /\ DirOf(p, old) = d /\ d \in Dirs
    BY <1>1, <1>2, <1>4, SubjectIs
  <1>6. p.seq = old.next[d]
    BY <1>4, <1>5 DEF IsNext
  <1>7. hits \in SUBSET Segment /\ IsFiniteSet(hits)
    <2>1. StreamOK(old)
      BY <1>5 DEF TypeOK
    <2>2. old.buffer[d] \in SUBSET Segment /\ IsFiniteSet(old.buffer[d])
      BY <1>5, <2>1 DEF StreamOK, Stream
    <2>3. QED
      BY <2>2, FS_Subset
  <1>8. PICK o \in Ordered(hits) : \E objs, st :
          Finish(p, left, Inform(listeners, old.listener, d,
                                 <<PayloadOf(p)>> \o [i \in DOMAIN o |-> o[i].data]), objs, st)
    BY <1>5 DEF Deliver
  <1>9. PICK objs, st :
          Finish(p, left, Inform(listeners, old.listener, d,
                                 <<PayloadOf(p)>> \o [i \in DOMAIN o |-> o[i].data]), objs, st)
    BY <1>8
  <1>10. next \in SeqNumbers
    <2>1. p.seq + p.len \in Nat
      BY <1>1 DEF Packet, SeqNumbers
    <2>2. QED
      BY <2>1, SeqModulo
  <1>11. old.listener \in DOMAIN listeners
    BY <1>5 DEF ListenerLifecycle, Owns
  <1> DEFINE later == [i \in DOMAIN o |-> o[i].data]
             out == <<PayloadOf(p)>> \o later
             ls == Inform(listeners, old.listener, d, out)
             a == After(p, left)
  <1> HIDE DEF old, d, next, hits
  <1>12. later \in Seq(Payload)
    BY <1>7, OrderedOK
  <1>13. \A i \in DOMAIN later : \E g \in hits : later[i] = g.data
    BY <1>7, FS_CardinalityType DEF Ordered
  <1> HIDE DEF later
  <1>14. out \in Seq(Payload)
    BY <1>1, <1>12, PacketTypes, ConcatProperties
  <1> HIDE DEF out
  <1>15. ls \in Seq(Listener)
    BY <1>5, <1>11, <1>14, InformOK
  <1>16. /\ left \in Stream /\ left.listener = old.listener /\ left.localPort = old.localPort
         /\ left.numFIN = old.numFIN
         /\ left.next = [old.next EXCEPT ![d] = next]
         /\ left.buffer = [old.buffer EXCEPT ![d] = @ \ hits]
    <2> DEFINE nx == [old.next EXCEPT ![d] = next]
               b == [old.buffer EXCEPT ![d] = @ \ hits]
    <2>1. nx \in [Dirs -> SeqNumbers] /\ b \in [Dirs -> SUBSET Segment]
      BY <1>5, <1>10 DEF Stream
    <2>2. left = [old EXCEPT !.next = nx, !.buffer = b]
      BY <1>5 DEF Stream
    <2> HIDE DEF nx, b, left
    <2>3. /\ left \in Stream /\ left.listener = old.listener /\ left.localPort = old.localPort
          /\ left.numFIN = old.numFIN /\ left.next = nx /\ left.buffer = b
      BY <1>5, <2>1, <2>2 DEF Stream
    <2>4. QED
      BY <2>3 DEF nx, b
  <1>17. \A x \in Dirs : left.buffer[x] \subseteq old.buffer[x]
    BY <1>5, <1>16 DEF Stream
  <1>18. Finish(p, left, ls, objs, st)
    BY <1>9 DEF ls, out, later
  <1> HIDE DEF left, ls
  <1>19. /\ a.listener = left.listener /\ a.localPort = left.localPort /\ a.buffer = left.buffer
         /\ a.next = left.next /\ a.numFIN = left.numFIN
    BY <1>1, <1>2, <1>16, AfterIs
  <1>20. Leaves(Store(p, a), ls)
    BY <1>15, <1>18, FinishLeaves
  <1> HIDE DEF a
  <1>21. \A i \in DOMAIN later : \E g \in old.buffer[d] : later[i] = g.data /\ g.data.seq = next
    BY <1>13 DEF hits
  <1>22. ls = Inform(listeners, old.listener, d, <<PayloadOf(p)>> \o later)
    BY DEF ls, out
  <1>23. Delivers(p, old, a, ls)
    BY <1>1, <1>2, <1>3, <1>6, <1>12, <1>16, <1>17, <1>19, <1>21, <1>22 DEF Delivers, d, next
  <1>24. Changes(p, a, ls)
    BY <1>1, <1>5, <1>15, <1>16, <1>19, <1>23 DEF Changes, GoesOn, old
  <1>25. QED
    BY <1>20, <1>24 DEF Handled

\* Whatever is captured, the stream it is for is closed or goes on.
LEMMA PacketHandled ==
    ASSUME OwnPorts, TypeOK, ListenerLifecycle, Buffers(streams), NEW p \in Wire, OnIPv4Packet(p)
    PROVE  Handled(p)
  <1>1. p.conn \in Conns /\ p.end \in Ends
    BY WireIs
  <1>2. CASE p = Opening(p.conn, p.end)
    BY <1>1, <1>2, OpeningHandled, AnswerHandled DEF Ends
  <1>3. CASE p = Closing(p.conn, p.end)
    BY <1>1, <1>3, ClosingHandled
  <1>4. ASSUME NEW r \in Cuts[p.conn][p.end], p = Data(p.conn, p.end, r)
        PROVE  Handled(p)
    <2>1. p.len # 0 /\ p.flags = {"ACK"}
      BY <1>1, <1>4, DataIs, SegmentIs
    <2>2. ~Collide(p) /\ ~NoPayload(p)
      BY <2>1 DEF Collide, NoPayload, IsOpening
    <2>3. StreamId(p) = Id(p.conn)
      BY DEF StreamId, Id
    <2>4. QED
      BY <1>1, <1>4, <2>2, <2>3, IgnoredHandled, UnexpectedHandled, ExpectedHandled
      DEF OnIPv4Packet
  <1>5. QED
    BY <1>2, <1>3, <1>4, WireIs

-----------------------------------------------------------------------------
(* Which streams and listeners a captured packet leaves alone *)

\* An id belongs to one connection.
LEMMA IdOnce ==
    ASSUME OwnIds, NEW c1 \in Conns, NEW c2 \in Conns, Id(c1) = Id(c2)
    PROVE  c1 = c2
  BY DEF OwnIds, HasOwnId, Id, StreamId

\* The table once the stream of a packet is in it
LEMMA StoreIs ==
    ASSUME OwnIds, NEW p \in Wire, NEW s
    PROVE  /\ Id(p.conn) \in DOMAIN Store(p, s) /\ Store(p, s)[Id(p.conn)] = s
           /\ \A c \in Conns : Id(c) \in DOMAIN Store(p, s) /\ c # p.conn =>
                 Id(c) \in DOMAIN streams /\ Store(p, s)[Id(c)] = streams[Id(c)]
  <1>1. StreamId(p) = Id(p.conn) /\ p.conn \in Conns
    BY WireIs DEF StreamId, Id
  <1>2. \A c \in Conns : c # p.conn => Id(c) # Id(p.conn)
    BY <1>1, IdOnce
  <1>3. QED
    BY <1>1, <1>2 DEF Store

\* The listener of the stream is the only one that is told something.
LEMMA Told ==
    ASSUME TypeOK, ListenerLifecycle, NEW p \in Wire, NEW s, NEW ls, Changes(p, s, ls)
    PROVE  /\ s.listener \in DOMAIN ls
           /\ \A l \in DOMAIN ls \ {s.listener} :
                 l \in DOMAIN listeners /\ ls[l].data = listeners[l].data
           /\ Opens(p, s, ls) =>
                 s.listener \notin DOMAIN listeners /\ \A b \in Dirs : ls[s.listener].data[b] = <<>>
           /\ Id(p.conn) \in DOMAIN streams =>
                 s.listener = streams[Id(p.conn)].listener /\ s.listener \in DOMAIN listeners
  <1>1. listeners \in Seq(Listener) /\ DOMAIN listeners = 1 .. Len(listeners) /\ Len(listeners) \in Nat
    BY DEF TypeOK
  <1>2. CASE Opens(p, s, ls)
    <2>1. s.listener = Len(listeners) + 1 /\ ls = Append(listeners, NewListener)
          /\ Id(p.conn) \notin DOMAIN streams
      BY <1>2 DEF Opens
    <2>2. /\ DOMAIN ls = 1 .. Len(listeners) + 1
          /\ \A l \in 1 .. Len(listeners) : ls[l] = listeners[l]
          /\ ls[Len(listeners) + 1] = NewListener
      BY <1>1, <2>1
    <2>3. \A b \in Dirs : NewListener.data[b] = <<>>
      BY DEF NewListener
    <2>4. QED
      BY <1>1, <2>1, <2>2, <2>3
  <1>3. ASSUME Id(p.conn) \in DOMAIN streams, GoesOn(p, streams[Id(p.conn)], s, ls)
        PROVE  /\ s.listener \in DOMAIN ls
               /\ \A l \in DOMAIN ls \ {s.listener} :
                     l \in DOMAIN listeners /\ ls[l].data = listeners[l].data
               /\ s.listener = streams[Id(p.conn)].listener /\ s.listener \in DOMAIN listeners
    <2>1. s.listener = streams[Id(p.conn)].listener /\ s.listener \in DOMAIN listeners
      BY <1>3 DEF GoesOn, ListenerLifecycle, Owns
    <2>2. CASE ls = listeners
      BY <2>1, <2>2
    <2>3. CASE Delivers(p, streams[Id(p.conn)], s, ls)
      <3>1. PICK later \in Seq(Payload) :
              ls = Inform(listeners, s.listener, DirFrom(p.end), <<PayloadOf(p)>> \o later)
        BY <2>1, <2>3 DEF Delivers
      <3>2. <<PayloadOf(p)>> \o later \in Seq(Payload) /\ DirFrom(p.end) \in Dirs
        BY WireIs, PacketTypes, ConcatProperties DEF DirFrom, Dirs
      <3> DEFINE out == <<PayloadOf(p)>> \o later
      <3> HIDE DEF out
      <3>3. ls = Inform(listeners, s.listener, DirFrom(p.end), out) /\ out \in Seq(Payload)
        BY <3>1, <3>2 DEF out
      <3>4. /\ DOMAIN ls = DOMAIN listeners
            /\ \A k \in DOMAIN listeners : k # s.listener => ls[k] = listeners[k]
        BY <2>1, <3>3 DEF Inform
      <3>5. QED
        BY <2>1, <3>4
    <2>4. QED
      BY <1>3, <2>2, <2>3 DEF GoesOn
  <1>4. QED
    BY <1>2, <1>3 DEF Changes, Opens

\* What is passed on comes after what was.
LEMMA Delivered ==
    ASSUME TypeOK, NEW l \in DOMAIN listeners, NEW d \in Dirs, NEW out
    PROVE  /\ \A b \in Dirs : listeners[l].data[b] \in Seq(Payload)
           /\ \A b \in Dirs \ {d} : Inform(listeners, l, d, out)[l].data[b] = listeners[l].data[b]
           /\ Inform(listeners, l, d, out)[l].data[d] = listeners[l].data[d] \o out
  <1>1. listeners \in Seq(Listener) /\ listeners[l] \in Listener
    BY DEF TypeOK
  <1>2. listeners[l].data \in [Dirs -> Seq(Payload)]
    BY <1>1 DEF Listener
  <1>3. Inform(listeners, l, d, out)[l].data = [listeners[l].data EXCEPT ![d] = @ \o out]
    BY <1>1 DEF Inform, Listener
  <1>4. QED
    BY <1>2, <1>3

\* A packet does not touch what another connection is, and was told.
LEMMA OthersStay ==
    ASSUME OwnIds, TypeOK, ListenerLifecycle, NEW p \in Wire, NEW s, NEW ls, Changes(p, s, ls),
           NEW c \in Conns, c # p.conn, Id(c) \in DOMAIN Store(p, s)
    PROVE  /\ Id(c) \in DOMAIN streams /\ Store(p, s)[Id(c)] = streams[Id(c)]
           /\ streams[Id(c)].listener \in DOMAIN ls
           /\ ls[streams[Id(c)].listener].data = listeners[streams[Id(c)].listener].data
  <1>1. Id(c) \in DOMAIN streams /\ Store(p, s)[Id(c)] = streams[Id(c)]
    BY StoreIs
  <1>2. streams[Id(c)].listener \in DOMAIN listeners
    BY <1>1 DEF ListenerLifecycle, Owns
  <1>3. p.conn \in Conns /\ Id(c) # Id(p.conn)
    BY WireIs, IdOnce
  <1>4. streams[Id(c)].listener # s.listener
    <2>1. CASE Id(p.conn) \in DOMAIN streams
      <3>1. s.listener = streams[Id(p.conn)].listener
        BY <2>1, Told
      <3>2. QED
        BY <1>1, <1>3, <2>1, <3>1 DEF ListenerLifecycle, Owns
    <2>2. CASE Id(p.conn) \notin DOMAIN streams
      BY <1>2, <2>2, Told DEF Changes
    <2>3. QED
      BY <2>1, <2>2
  <1>5. DOMAIN listeners \subseteq DOMAIN ls
    <2>1. listeners \in Seq(Listener) /\ ls \in Seq(Listener)
      BY DEF TypeOK, Changes
    <2>2. CASE Opens(p, s, ls)
      BY <2>1, <2>2 DEF Opens
    <2>3. ASSUME NEW old, GoesOn(p, old, s, ls), old.listener \in DOMAIN listeners
          PROVE  DOMAIN listeners \subseteq DOMAIN ls
      <3>1. CASE ls = listeners
        BY <3>1
      <3>2. CASE Delivers(p, old, s, ls)
        BY <3>2 DEF Delivers, Inform
      <3>3. QED
        BY <2>3, <3>1, <3>2 DEF GoesOn
    <2>4. QED
      BY <2>2, <2>3 DEF Changes, ListenerLifecycle, Owns
  <1>6. QED
    BY <1>1, <1>2, <1>4, <1>5, Told

\* A payload that an end sends goes on being one.
LEMMA BuffersStep ==
    ASSUME OwnIds, TypeOK, ListenerLifecycle, Buffers(streams), NEW p \in Wire, Handled(p)
    PROVE  Buffers(streams')
  <1> SUFFICES ASSUME NEW c \in Conns, Id(c) \in DOMAIN streams'
               PROVE  /\ streams'[Id(c)].localPort = c.respPort
                      /\ \A e \in Ends : \A g \in streams'[Id(c)].buffer[DirFrom(e)] :
                            g.data \in Sent(c, e)
    BY DEF Buffers
  <1>1. CASE Leaves(streams, listeners)
    BY <1>1 DEF Leaves, Buffers
  <1>2. ASSUME NEW s, NEW ls, Changes(p, s, ls), Leaves(Store(p, s), ls)
        PROVE  /\ streams'[Id(c)].localPort = c.respPort
               /\ \A e \in Ends : \A g \in streams'[Id(c)].buffer[DirFrom(e)] :
                     g.data \in Sent(c, e)
    <2>1. Id(c) \in DOMAIN Store(p, s) /\ streams'[Id(c)] = Store(p, s)[Id(c)]
      BY <1>2 DEF Leaves
    <2>2. CASE c # p.conn
      BY <1>2, <2>1, <2>2, StoreIs DEF Buffers
    <2>3. CASE c = p.conn
      <3>1. streams'[Id(c)] = s
        BY <2>1, <2>3, StoreIs
      <3>2. \A e \in Ends : DirFrom(e) \in Dirs
        BY DEF DirFrom, Dirs
      <3>3. CASE Opens(p, s, ls)
        BY <2>3, <3>1, <3>2, <3>3 DEF Opens
      <3>4. ASSUME NEW old, old = streams[Id(c)], Id(c) \in DOMAIN streams, GoesOn(p, old, s, ls),
                   NEW e \in Ends, NEW g \in s.buffer[DirFrom(e)]
            PROVE  s.localPort = c.respPort /\ g.data \in Sent(c, e)
        <4>1. s.localPort = c.respPort
          BY <3>4 DEF GoesOn, Buffers
        <4>2. CASE g \in old.buffer[DirFrom(e)]
          BY <3>4, <4>1, <4>2 DEF Buffers
        <4>3. CASE g \notin old.buffer[DirFrom(e)]
          <5>1. /\ DirFrom(e) = DirFrom(p.end) /\ g.data = PayloadOf(p) /\ p # Closing(p.conn, p.end)
                /\ "SYN" \notin p.flags
            BY <3>2, <3>4, <4>3 DEF GoesOn, Answers, Stays, Delivers
          <5>2. e = p.end
            BY <5>1, WireIs DEF DirFrom, Ends
          <5>3. p # Opening(p.conn, p.end)
            BY <5>1, WireIs, OpeningIs
          <5>4. \E r \in Cuts[p.conn][p.end] : p = Data(p.conn, p.end, r)
            BY <5>1, <5>3, WireIs
          <5>5. QED
            BY <2>3, <4>1, <5>1, <5>2, <5>4 DEF Sent
        <4>4. QED
          BY <4>2, <4>3
      <3>5. ASSUME NEW old, old = streams[Id(c)], Id(c) \in DOMAIN streams, GoesOn(p, old, s, ls)
            PROVE  s.localPort = c.respPort
        BY <3>5 DEF GoesOn, Buffers
      <3>6. QED
        BY <1>2, <2>3, <3>1, <3>3, <3>4, <3>5 DEF Changes
    <2>4. QED
      BY <2>2, <2>3
  <1>3. QED
    BY <1>1, <1>2 DEF Handled

-----------------------------------------------------------------------------
(* No gaps *)

\* Bytes of payloads that are put after others
LEMMA BytesJoin ==
    ASSUME NEW data \in Seq(Payload), NEW out \in Seq(Payload)
    PROVE  /\ \A i \in 0 .. Len(data) : Bytes(data \o out, i) = Bytes(data, i)
           /\ \A j \in 0 .. Len(out) :
                 Bytes(data \o out, Len(data) + j) = Bytes(data, Len(data)) \cup Bytes(out, j)
  <1> DEFINE all == data \o out
  <1>1. /\ Len(data) \in Nat /\ Len(out) \in Nat
        /\ \A k \in 1 .. Len(data) : all[k] = data[k]
        /\ \A k \in 1 .. Len(out) : all[Len(data) + k] = out[k]
    OBVIOUS
  <1> HIDE DEF all
  <1>2. \A i \in 0 .. Len(data) : Bytes(all, i) = Bytes(data, i)
    <2> TAKE i \in 0 .. Len(data)
    <2>1. \A k \in 1 .. i : all[k] = data[k]
      BY <1>1
    <2>2. QED
      BY <2>1 DEF Bytes
  <1>3. ASSUME NEW j \in 0 .. Len(out), NEW b
        PROVE  b \in Bytes(all, Len(data) + j) <=> b \in Bytes(data, Len(data)) \cup Bytes(out, j)
    <2>1. \A k \in 1 .. Len(data) + j :
             \/ k \in 1 .. Len(data)
             \/ k - Len(data) \in 1 .. j /\ k = Len(data) + (k - Len(data))
      BY <1>1
    <2>2. ASSUME NEW k \in 1 .. Len(data) + j, b \in BytesOf(all[k])
          PROVE  b \in Bytes(data, Len(data)) \cup Bytes(out, j)
      <3>1. CASE k \in 1 .. Len(data)
        BY <1>1, <2>2, <3>1 DEF Bytes
      <3>2. CASE k - Len(data) \in 1 .. j
        <4>1. all[k] = out[k - Len(data)]
          BY <1>1, <2>1, <3>2
        <4>2. QED
          BY <2>2, <3>2, <4>1 DEF Bytes
      <3>3. QED
        BY <2>1, <3>1, <3>2
    <2>3. ASSUME NEW k \in 1 .. Len(data), b \in BytesOf(data[k])
          PROVE  b \in Bytes(all, Len(data) + j)
      <3>1. k \in 1 .. Len(data) + j /\ all[k] = data[k]
        BY <1>1
      <3>2. QED
        BY <2>3, <3>1 DEF Bytes
    <2>4. ASSUME NEW k \in 1 .. j, b \in BytesOf(out[k])
          PROVE  b \in Bytes(all, Len(data) + j)
      <3>1. Len(data) + k \in 1 .. Len(data) + j /\ all[Len(data) + k] = out[k]
        BY <1>1
      <3>2. QED
        BY <2>4, <3>1 DEF Bytes
    <2>5. QED
      BY <2>2, <2>3, <2>4 DEF Bytes
  <1>4. QED
    BY <1>2, <1>3 DEF all

\* Payloads that begin where the ones before them end leave no gap.
LEMMA Appended ==
    ASSUME NEW data \in Seq(Payload), NEW x \in Payload, NEW later \in Seq(Payload),
           NEW n \in Nat, NEW m \in Nat, Offset(x) = n, n + x.len = m,
           NoGap(data), 0 .. n - 1 \subseteq Bytes(data, Len(data)),
           \A i \in DOMAIN later : Offset(later[i]) = m
    PROVE  LET all == data \o (<<x>> \o later)
           IN  NoGap(all) /\ 0 .. m - 1 \subseteq Bytes(all, Len(all))
  <1> DEFINE out == <<x>> \o later
             all == data \o out
  <1>1. /\ out \in Seq(Payload) /\ Len(out) = Len(later) + 1 /\ Len(later) \in Nat
        /\ out[1] = x /\ \A j \in 2 .. Len(out) : j - 1 \in DOMAIN later /\ out[j] = later[j - 1]
    OBVIOUS
  <1>2. BytesOf(x) = n .. m - 1
    <2>1. x.len \in Nat /\ n + x.len - 1 = m - 1
      BY SizesAssumption DEF Payload
    <2>2. QED
      BY <2>1 DEF BytesOf
  <1> HIDE DEF out
  <1>3. /\ Len(all) = Len(data) + Len(out) /\ DOMAIN all = 1 .. Len(all) /\ Len(data) \in Nat
        /\ \A k \in 1 .. Len(data) : all[k] = data[k]
        /\ \A k \in 1 .. Len(out) : all[Len(data) + k] = out[k]
    BY <1>1
  <1>4. ASSUME NEW j \in 1 .. Len(out)
        PROVE  0 .. m - 1 \subseteq Bytes(all, Len(data) + j)
    <2>1. BytesOf(x) \subseteq Bytes(out, j)
      <3>1. 1 \in 1 .. j /\ out[1] = x
        BY <1>1
      <3>2. QED
        BY <3>1 DEF Bytes
    <2>2. Bytes(all, Len(data) + j) = Bytes(data, Len(data)) \cup Bytes(out, j)
      BY <1>1, BytesJoin
    <2>3. \A b \in 0 .. m - 1 : b \in 0 .. n - 1 \/ b \in n .. m - 1
      OBVIOUS
    <2>4. QED
      BY <1>2, <2>1, <2>2, <2>3
  <1>5. ASSUME NEW i \in DOMAIN all
        PROVE  0 .. Offset(all[i]) - 1 \subseteq Bytes(all, i - 1)
    <2> DEFINE k == i - Len(data)
    <2>0. i \in Nat /\ i >= 1 /\ i <= Len(data) + Len(out) /\ k \in Int /\ i = Len(data) + k
          /\ Len(out) \in Nat
      BY <1>1, <1>3
    <2>1. CASE i \in 1 .. Len(data)
      <3>1. i - 1 \in 0 .. Len(data) /\ all[i] = data[i] /\ i \in DOMAIN data
        BY <1>3, <2>1
      <3>2. Bytes(all, i - 1) = Bytes(data, i - 1)
        BY <1>1, <3>1, BytesJoin
      <3>3. QED
        BY <3>1, <3>2 DEF NoGap
    <2>2. CASE i = Len(data) + 1
      <3>1. all[i] = x /\ i - 1 = Len(data) /\ Len(data) \in 0 .. Len(data)
        BY <1>1, <1>3, <2>2
      <3>2. Bytes(all, i - 1) = Bytes(data, Len(data))
        BY <1>1, <3>1, BytesJoin
      <3>3. QED
        BY <3>1, <3>2
    <2>3. CASE i > Len(data) + 1
      <3>1. PICK j \in 2 .. Len(out) : i = Len(data) + j
        <4>1. k \in 2 .. Len(out)
          BY <1>3, <2>0, <2>3
        <4>2. QED
          BY <2>0, <4>1
      <3>2. Offset(all[i]) = m
        BY <1>1, <1>3, <3>1
      <3>3. j - 1 \in 1 .. Len(out) /\ i - 1 = Len(data) + (j - 1)
        BY <1>1, <1>3, <3>1
      <3> HIDE DEF all
      <3>4. QED
        BY <1>4, <3>2, <3>3
    <2>4. QED
      BY <1>3, <2>0, <2>1, <2>2, <2>3
  <1>6. Len(out) \in 1 .. Len(out)
    BY <1>1
  <1>7. 0 .. m - 1 \subseteq Bytes(all, Len(all))
    BY <1>3, <1>4, <1>6
  <1>8. QED
    BY <1>5, <1>7 DEF NoGap, out

\* A payload that was expected stands for the byte that was expected.
LEMMA ExpectedFrom ==
    ASSUME NeverZero, NEW c \in Conns, NEW e \in Ends, NEW r \in Cuts[c][e], NEW data,
           Expects(c, e, SeqAt(c, e, r.from), data)
    PROVE  0 .. r.from - 1 \subseteq Bytes(data, Len(data))
  <1>1. CASE \E n \in SeqNumbers :
               SeqAt(c, e, r.from) = SeqAt(c, e, n) /\ 0 .. n - 1 \subseteq Bytes(data, Len(data))
    BY <1>1, SegmentIs, SeqAtOnce
  <1>2. CASE e = "resp" /\ SeqAt(c, e, r.from) = 0
    <2>1. r.from = 0
      BY <1>2 DEF NeverZero
    <2>2. QED
      BY <2>1
  <1>3. QED
    BY <1>1, <1>2 DEF Expects

\* What is passed on with a captured segment leaves no gap.
LEMMA DeliversGapless ==
    ASSUME OwnPorts, NeverZero, TypeOK, ListenerLifecycle, Buffers(streams),
           Gapless(streams, listeners), NEW p \in Wire,
           Id(p.conn) \in DOMAIN streams, NEW old, old = streams[Id(p.conn)],
           NEW s, NEW ls, GoesOn(p, old, s, ls), Delivers(p, old, s, ls)
    PROVE  LET d == DirFrom(p.end)
               told == ls[old.listener].data[d]
           IN  NoGap(told) /\ Expects(p.conn, p.end, s.next[d], told)
  <1> DEFINE d == DirFrom(p.end)
             data == listeners[old.listener].data[d]
             told == ls[old.listener].data[d]
             x == PayloadOf(p)
  <1>1. /\ p.conn \in Conns /\ p.end \in Ends /\ p \in Packet /\ d \in Dirs
        /\ old.listener \in DOMAIN listeners /\ old \in Stream
    BY WireIs DEF DirFrom, Dirs, ListenerLifecycle, Owns, TypeOK, StreamOK
  <1>2. PICK r \in Cuts[p.conn][p.end] : p = Data(p.conn, p.end, r)
    <2>1. p # Opening(p.conn, p.end)
      BY <1>1, OpeningIs DEF Delivers
    <2>2. QED
      BY <2>1, WireIs DEF Delivers
  <1>3. /\ x.conn = p.conn /\ x.end = p.end /\ p.seq = SeqAt(p.conn, p.end, r.from) /\ x.len = r.len
        /\ p.len = r.len
        /\ Offset(x) = r.from /\ (p.seq + p.len) % SeqSpace = SeqAt(p.conn, p.end, EndOf(r))
    <2>1. p.seq = SeqAt(p.conn, p.end, r.from) /\ p.len = r.len
      BY <1>1, <1>2, DataIs
    <2>2. x = PayloadOf(Data(p.conn, p.end, r))
      BY <1>2
    <2> HIDE DEF x
    <2>3. QED
      BY <1>1, <2>1, <2>2, PayloadIs
  <1>4. PICK later \in Seq(Payload) :
          /\ ls = Inform(listeners, old.listener, d, <<x>> \o later)
          /\ \A i \in DOMAIN later : \E g \in old.buffer[d] :
                later[i] = g.data /\ g.data.seq = (p.seq + p.len) % SeqSpace
    BY DEF Delivers
  <1>5. data \in Seq(Payload) /\ told = data \o (<<x>> \o later)
    <2>1. PICK out : out = <<x>> \o later
      OBVIOUS
    <2>2. ls = Inform(listeners, old.listener, d, out)
      BY <1>4, <2>1
    <2> HIDE DEF d, x
    <2>3. /\ listeners[old.listener].data[d] \in Seq(Payload)
          /\ ls[old.listener].data[d] = listeners[old.listener].data[d] \o out
      BY <1>1, <2>2, Delivered, ZenonT(60)
    <2>4. QED
      BY <2>1, <2>3
  <1>6. x \in Payload /\ r.from \in Nat /\ EndOf(r) \in Nat /\ EndOf(r) = r.from + r.len
        /\ EndOf(r) \in SeqNumbers
    BY <1>1, SegmentIs, PacketTypes
  <1>7. ASSUME NEW i \in DOMAIN later
        PROVE  Offset(later[i]) = EndOf(r)
    <2>1. PICK g \in old.buffer[d] :
            later[i] = g.data /\ g.data.seq = SeqAt(p.conn, p.end, EndOf(r))
      BY <1>3, <1>4
    <2>2. PICK q \in Cuts[p.conn][p.end] : g.data = PayloadOf(Data(p.conn, p.end, q))
      BY <1>1 DEF Buffers, Sent
    <2>3. Offset(g.data) = q.from /\ g.data.seq = SeqAt(p.conn, p.end, q.from)
      BY <1>1, <2>2, PayloadIs
    <2>4. q.from = EndOf(r)
      BY <1>1, <1>6, <2>1, <2>3, SegmentIs, SeqAtOnce
    <2>5. QED
      BY <2>1, <2>3, <2>4
  <1>8. NoGap(data)
    BY <1>1 DEF Gapless
  <1>9. 0 .. r.from - 1 \subseteq Bytes(data, Len(data))
    <2>1. Expects(p.conn, p.end, old.next[d], data)
      BY <1>1 DEF Gapless
    <2>2. old.next[d] = SeqAt(p.conn, p.end, r.from)
      BY <1>3 DEF Delivers
    <2> HIDE DEF data
    <2>3. QED
      BY <1>1, <2>1, <2>2, ExpectedFrom
  <1> HIDE DEF x, data
  <1>10. NoGap(told) /\ 0 .. EndOf(r) - 1 \subseteq Bytes(told, Len(told))
    <2>1. r.from + x.len = EndOf(r)
      BY <1>3, <1>6
    <2>2. QED
      BY <1>3, <1>5, <1>6, <1>7, <1>8, <1>9, <2>1, Appended
  <1>11. s.next[d] = SeqAt(p.conn, p.end, EndOf(r))
    BY <1>1, <1>3 DEF Delivers, Stream
  <1> HIDE DEF told, d
  <1>12. Expects(p.conn, p.end, s.next[d], told)
    BY <1>6, <1>10, <1>11 DEF Expects
  <1>13. QED
    BY <1>10, <1>12 DEF told, d

\* What the listener of the stream was told of an end has no gap, and the end is
\* expected to go on after it.
LEMMA EndGapless ==
    ASSUME OwnPorts, NeverZero, TypeOK, ListenerLifecycle, Buffers(streams),
           Gapless(streams, listeners), NEW p \in Wire, NEW s, NEW ls, Changes(p, s, ls),
           NEW e \in Ends
    PROVE  LET told == ls[s.listener].data[DirFrom(e)]
           IN  NoGap(told) /\ Expects(p.conn, e, s.next[DirFrom(e)], told)
  <1> DEFINE d == DirFrom(e)
             told == ls[s.listener].data[d]
  <1>1. p.conn \in Conns /\ p.end \in Ends /\ d \in Dirs /\ (e # p.end => d # DirFrom(p.end))
    BY WireIs DEF DirFrom, Dirs, Ends
  <1>2. 0 \in SeqNumbers /\ \A data : 0 .. 0 - 1 \subseteq Bytes(data, Len(data))
    BY SizesAssumption DEF SeqNumbers
  <1>3. CASE Opens(p, s, ls)
    <2>1. told = <<>>
      BY <1>1, <1>3, Told
    <2>2. NoGap(told)
      BY <2>1 DEF NoGap
    <2>3. e = "init" => s.next[d] = SeqAt(p.conn, e, 0)
      BY <1>3 DEF Opens, DirFrom
    <2>4. e = "resp" => s.next[d] = 0
      BY <1>3 DEF Opens, DirFrom
    <2> HIDE DEF told, d
    <2>5. Expects(p.conn, e, s.next[d], told)
      BY <1>2, <2>3, <2>4 DEF Expects, Ends
    <2>6. QED
      BY <2>2, <2>5 DEF told, d
  <1>4. ASSUME NEW old, old = streams[Id(p.conn)], Id(p.conn) \in DOMAIN streams,
               GoesOn(p, old, s, ls)
        PROVE  NoGap(told) /\ Expects(p.conn, e, s.next[d], told)
    <2> DEFINE data == listeners[old.listener].data[d]
    <2>1. s.listener = old.listener /\ old.listener \in DOMAIN listeners
          /\ old.next \in [Dirs -> SeqNumbers]
      BY <1>4 DEF GoesOn, ListenerLifecycle, Owns, TypeOK, StreamOK, Stream
    <2>2. NoGap(data) /\ Expects(p.conn, e, old.next[d], data)
      BY <1>1, <1>4, <2>1 DEF Gapless
    <2>3. CASE ls = listeners /\ Stays(p, old, s)
      BY <2>1, <2>2, <2>3 DEF Stays
    <2>4. CASE ls = listeners /\ Answers(p, old, s)
      <3>1. told = data
        BY <2>1, <2>4
      <3>2. CASE e = "init"
        <4>1. d # "toInitiator"
          BY <3>2 DEF DirFrom
        <4>2. s.next[d] = old.next[d]
          BY <1>1, <2>1, <2>4, <4>1 DEF Answers
        <4>3. QED
          BY <2>2, <3>1, <4>2
      <3>3. CASE e = "resp"
        <4>1. d = "toInitiator"
          BY <3>3 DEF DirFrom
        <4>2. s.next[d] = SeqAt(p.conn, e, 0)
          BY <1>1, <2>1, <2>4, <3>3, <4>1 DEF Answers
        <4> HIDE DEF data, told, d
        <4>3. QED
          BY <1>2, <2>2, <3>1, <4>2 DEF Expects
      <3>4. QED
        BY <3>2, <3>3 DEF Ends
    <2>5. CASE Delivers(p, old, s, ls)
      <3>1. CASE e = p.end
        BY <1>4, <2>1, <2>5, <3>1, DeliversGapless
      <3>2. CASE e # p.end
        <4>1. PICK out : ls = Inform(listeners, old.listener, DirFrom(p.end), out)
          BY <2>5 DEF Delivers
        <4>2. DirFrom(p.end) \in Dirs /\ d \in Dirs \ {DirFrom(p.end)}
          BY <1>1, <3>2 DEF DirFrom, Dirs
        <4> HIDE DEF d
        <4>3. told = data
          <5>1. PICK l \in DOMAIN listeners, y \in Dirs, b \in Dirs :
                  l = old.listener /\ y = DirFrom(p.end) /\ b = d /\ b # y
            BY <2>1, <4>2
          <5>2. b \in Dirs \ {y}
            BY <5>1
          <5>3. Inform(listeners, l, y, out)[l].data[b] = listeners[l].data[b]
            BY <5>2, Delivered
          <5>4. QED
            BY <2>1, <4>1, <5>1, <5>3
        <4>4. s.next[d] = old.next[d]
          BY <2>1, <2>5, <4>2 DEF Delivers
        <4>5. QED
          BY <2>2, <4>3, <4>4
      <3>3. QED
        BY <3>1, <3>2
    <2>6. QED
      BY <1>4, <2>3, <2>4, <2>5 DEF GoesOn
  <1>5. QED
    BY <1>3, <1>4 DEF Changes

\* A captured packet leaves no gap.
LEMMA GaplessStep ==
    ASSUME OwnIds, OwnPorts, NeverZero, TypeOK, ListenerLifecycle, ListenerLifecycle',
           Buffers(streams), Gapless(streams, listeners), NEW p \in Wire, Handled(p)
    PROVE  Gapless(streams', listeners')
  <1>1. ASSUME NEW table, NEW ls, Gapless(table, ls), Leaves(table, ls)
        PROVE  Gapless(streams', listeners')
    <2>1. ASSUME NEW l \in DOMAIN listeners', NEW d \in Dirs
          PROVE  NoGap(listeners'[l].data[d])
      BY <1>1 DEF Leaves, Gapless
    <2>2. ASSUME NEW c \in Conns, Id(c) \in DOMAIN streams', NEW e \in Ends
          PROVE  Expects(c, e, streams'[Id(c)].next[DirFrom(e)],
                         listeners'[streams'[Id(c)].listener].data[DirFrom(e)])
      <3>1. Id(c) \in DOMAIN table /\ streams'[Id(c)] = table[Id(c)]
        BY <1>1, <2>2 DEF Leaves
      <3>2. streams'[Id(c)].listener \in DOMAIN listeners'
        BY <2>2 DEF ListenerLifecycle, Owns
      <3>3. listeners'[streams'[Id(c)].listener].data = ls[table[Id(c)].listener].data
        BY <1>1, <3>1, <3>2 DEF Leaves
      <3>4. QED
        BY <1>1, <3>1, <3>3 DEF Gapless
    <2>3. QED
      BY <2>1, <2>2 DEF Gapless
  <1>2. ASSUME NEW s, NEW ls, Changes(p, s, ls)
        PROVE  Gapless(Store(p, s), ls)
    <2>1. ASSUME NEW l \in DOMAIN ls, NEW d \in Dirs
          PROVE  NoGap(ls[l].data[d])
      <3>1. CASE l = s.listener
        <4>1. PICK e \in Ends : d = DirFrom(e)
          BY DEF Dirs, Ends, DirFrom
        <4>2. QED
          BY <1>2, <3>1, <4>1, EndGapless
      <3>2. CASE l # s.listener
        <4>1. l \in DOMAIN listeners /\ ls[l].data = listeners[l].data
          BY <1>2, <3>2, Told
        <4>2. QED
          BY <4>1 DEF Gapless
      <3>3. QED
        BY <3>1, <3>2
    <2>2. ASSUME NEW c \in Conns, Id(c) \in DOMAIN Store(p, s), NEW e \in Ends
          PROVE  Expects(c, e, Store(p, s)[Id(c)].next[DirFrom(e)],
                         ls[Store(p, s)[Id(c)].listener].data[DirFrom(e)])
      <3>1. CASE c = p.conn
        <4>1. Store(p, s)[Id(c)] = s
          BY <3>1, StoreIs
        <4>2. QED
          BY <1>2, <3>1, <4>1, EndGapless
      <3>2. CASE c # p.conn
        <4>1. /\ Id(c) \in DOMAIN streams /\ Store(p, s)[Id(c)] = streams[Id(c)]
              /\ ls[streams[Id(c)].listener].data = listeners[streams[Id(c)].listener].data
          BY <1>2, <2>2, <3>2, OthersStay
        <4>2. QED
          BY <4>1 DEF Gapless
      <3>3. QED
        BY <3>1, <3>2
    <2>3. QED
      BY <2>1, <2>2 DEF Gapless
  <1>3. QED
    BY <1>1, <1>2 DEF Handled

\* Nothing is there at first.
LEMMA Nothing ==
    ASSUME CaptureInit
    PROVE  /\ DOMAIN streams = {} /\ DOMAIN listeners = {}
           /\ Buffers(streams) /\ Gapless(streams, listeners)
  <1>1. DOMAIN streams = {} /\ DOMAIN listeners = {}
    BY DEF CaptureInit, Init
  <1>2. QED
    BY <1>1 DEF Buffers, Gapless

\* A step is a captured packet that is handled, or changes nothing.
LEMMA CaptureStep ==
    ASSUME OwnPorts, TypeOK, ListenerLifecycle, Buffers(streams),
           [CaptureNext]_<<vars, wireVars>>
    PROVE  \/ UNCHANGED <<vars, wireVars>>
           \/ \E p \in Wire : Handled(p) /\ Capture(p)
  BY PacketHandled DEF CaptureNext, Capture

\* No gaps: whatever is lost, repeated, cut anew or captured out of order, a
\* listener never gets a byte before it got all bytes in front of it. (The ends
\* can be told apart, and the responder never sends data with number 0.)
THEOREM NoGaps ==
    ASSUME OwnIds, OwnPorts, NeverZero
    PROVE  CaptureSpec => []GapFree
  <1> DEFINE Inv == Buffers(streams) /\ Gapless(streams, listeners)
             Base == TypeOK /\ ListenerLifecycle
  <1>1. CaptureInit => Inv
    BY Nothing
  <1>2. Base /\ Base' /\ Inv /\ [CaptureNext]_<<vars, wireVars>> => Inv'
    <2> SUFFICES ASSUME Base, Base', Inv, [CaptureNext]_<<vars, wireVars>>
                 PROVE  Inv'
      OBVIOUS
    <2>1. CASE UNCHANGED <<vars, wireVars>>
      <3>1. streams' = streams /\ listeners' = listeners
        BY <2>1 DEF vars
      <3>2. QED
        BY <3>1 DEF Buffers, Gapless
    <2>2. ASSUME NEW p \in Wire, Handled(p)
          PROVE  Inv'
      BY <2>2, BuffersStep, GaplessStep
    <2>3. QED
      BY <2>1, <2>2, CaptureStep
  <1>3. Inv => GapFree
    <2> SUFFICES ASSUME Inv, NEW l \in DOMAIN listeners, NEW d \in Dirs,
                        NEW i \in DOMAIN Given(l, d)
                 PROVE  0 .. Offset(Given(l, d)[i]) - 1 \subseteq Covered(l, d, i - 1)
      BY DEF GapFree
    <2>1. NoGap(listeners[l].data[d])
      BY DEF Gapless
    <2>2. QED
      BY <2>1 DEF NoGap, Bytes, BytesOf, Given, Covered
  <1> HIDE DEF Inv
  <1>4. CaptureSpec => []Inv
    <2>1. CaptureSpec => []Base
      BY Lives
    <2> HIDE DEF Base
    <2>2. QED
      BY <1>1, <1>2, <2>1, PTL DEF CaptureSpec
  <1>5. QED
    BY <1>3, <1>4, PTL

-----------------------------------------------------------------------------
(* A finished connection is closed *)

\* What is kept of a captured packet
LEMMA Counts ==
    ASSUME Seen, NEW p \in Wire, Capture(p)
    PROVE  /\ copies' \in [Wire -> Nat] /\ first' \in [Conns -> SUBSET Wire]
           /\ orderly' \in [Conns -> [Ends -> BOOLEAN]]
           /\ \A q \in Wire : copies[q] \in Nat /\ copies'[q] = IF q = p THEN copies[q] + 1 ELSE copies[q]
           /\ \A c \in Conns : /\ first[c] \subseteq Wire
                               /\ first'[c] = IF c = p.conn /\ first[c] = {} THEN {p} ELSE first[c]
           /\ orderly'[p.conn][p.end] = (orderly[p.conn][p.end] /\ InOrder(p))
           /\ \A c \in Conns, e \in Ends :
                 c # p.conn \/ e # p.end => orderly'[c][e] = orderly[c][e]
  <1>1. p.conn \in Conns /\ p.end \in Ends
    BY WireIs
  <1>2. /\ copies' = [copies EXCEPT ![p] = @ + 1]
        /\ first' = [first EXCEPT ![p.conn] = IF @ = {} THEN {p} ELSE @]
        /\ orderly' = [orderly EXCEPT ![p.conn][p.end] = @ /\ InOrder(p)]
    BY DEF Capture
  <1>3. /\ copies' \in [Wire -> Nat]
        /\ \A q \in Wire : copies[q] \in Nat /\ copies'[q] = IF q = p THEN copies[q] + 1 ELSE copies[q]
    BY <1>2 DEF Seen
  <1>4. /\ first' \in [Conns -> SUBSET Wire]
        /\ \A c \in Conns : /\ first[c] \subseteq Wire
                            /\ first'[c] = IF c = p.conn /\ first[c] = {} THEN {p} ELSE first[c]
    BY <1>1, <1>2 DEF Seen
  <1>5. PICK b \in BOOLEAN : b = (orderly[p.conn][p.end] /\ InOrder(p))
    OBVIOUS
  <1>6. orderly' = [orderly EXCEPT ![p.conn] = [orderly[p.conn] EXCEPT ![p.end] = b]]
    BY <1>2, <1>5
  <1>7. /\ orderly' \in [Conns -> [Ends -> BOOLEAN]] /\ orderly'[p.conn][p.end] = b
        /\ \A c \in Conns, e \in Ends : c # p.conn \/ e # p.end => orderly'[c][e] = orderly[c][e]
    BY <1>1, <1>6 DEF Seen
  <1>8. QED
    BY <1>3, <1>4, <1>5, <1>7

\* The stream of a connection after a packet: left alone, or what became of it
LEMMA StreamAfter ==
    ASSUME OwnIds, TypeOK, ListenerLifecycle, ListenerLifecycle', NEW p \in Wire, Handled(p),
           NEW c \in Conns, Id(c) \in DOMAIN streams'
    PROVE  LET s == streams'[Id(c)]
           IN  IF c # p.conn
               THEN /\ Id(c) \in DOMAIN streams /\ s = streams[Id(c)]
                    /\ listeners'[s.listener].data = listeners[s.listener].data
               ELSE \E ls : Changes(p, s, ls) /\ listeners'[s.listener].data = ls[s.listener].data
  <1> DEFINE s == streams'[Id(c)]
  <1>1. s.listener \in DOMAIN listeners'
    BY DEF ListenerLifecycle, Owns
  <1>2. CASE Id(p.conn) \notin DOMAIN streams' /\ Leaves(streams, listeners)
    BY <1>1, <1>2 DEF Leaves
  <1>3. ASSUME NEW t, NEW ls, Changes(p, t, ls), Leaves(Store(p, t), ls)
        PROVE  IF c # p.conn
               THEN /\ Id(c) \in DOMAIN streams /\ s = streams[Id(c)]
                    /\ listeners'[s.listener].data = listeners[s.listener].data
               ELSE Changes(p, s, ls) /\ listeners'[s.listener].data = ls[s.listener].data
    <2>1. Id(c) \in DOMAIN Store(p, t) /\ s = Store(p, t)[Id(c)]
          /\ listeners'[s.listener].data = ls[s.listener].data
      BY <1>1, <1>3 DEF Leaves
    <2>2. CASE c = p.conn
      BY <1>3, <2>1, <2>2, StoreIs
    <2>3. CASE c # p.conn
      BY <1>3, <2>1, <2>3, OthersStay
    <2>4. QED
      BY <2>2, <2>3
  <1>4. QED
    BY <1>2, <1>3 DEF Handled

\* What is kept of the packets captured stays right.
LEMMA SeenStep ==
    ASSUME OwnIds, TypeOK, ListenerLifecycle, ListenerLifecycle', Seen,
           NEW p \in Wire, Handled(p), Capture(p)
    PROVE  Seen'
  <1>1. p.conn \in Conns /\ p \in Wire
    BY WireIs
  <1>2. ASSUME NEW c \in Conns, NEW q \in first'[c]
        PROVE  copies'[q] > 0
    <2>1. /\ first[c] \subseteq Wire
          /\ first'[c] = IF c = p.conn /\ first[c] = {} THEN {p} ELSE first[c]
      BY Counts
    <2>2. q \in Wire /\ (q = p \/ q \in first[c])
      BY <1>2, <2>1
    <2>3. copies[q] \in Nat /\ copies'[q] = IF q = p THEN copies[q] + 1 ELSE copies[q]
      BY <2>2, Counts
    <2>4. q # p => copies[q] > 0
      BY <2>2 DEF Seen
    <2>5. QED
      BY <2>3, <2>4
  <1>3. ASSUME NEW c \in Conns, first'[c] = {}
        PROVE  Id(c) \notin DOMAIN streams' /\ \A q \in Wire : q.conn = c => copies'[q] = 0
    <2>1. c # p.conn /\ first[c] = {}
      BY <1>3, Counts, ZenonT(60)
    <2>2. Id(c) \notin DOMAIN streams'
      BY <2>1, StreamAfter DEF Seen
    <2>3. \A q \in Wire : q.conn = c => q # p /\ copies[q] = 0
      BY <2>1 DEF Seen
    <2>4. \A q \in Wire : q.conn = c => copies'[q] = 0
      BY <2>3, Counts
    <2>5. QED
      BY <2>2, <2>4
  <1>4. QED
    BY <1>2, <1>3, Counts DEF Seen

\* A connection that is open as it should be was so before, if the packet did
\* not open it.
LEMMA WasOpened ==
    ASSUME Seen, NEW p \in Wire, Capture(p), NEW c \in Conns, WellOpened(c)'
    PROVE  IF c = p.conn /\ p = Opening(c, "init")
           THEN first[c] = {}
           ELSE WellOpened(c) \/ first[c] = {}
  <1>1. first'[c] = {Opening(c, "init")} /\ copies'[Opening(c, "init")] = 1
    BY DEF WellOpened
  <1>2. Opening(c, "init") \in Wire
    BY OnWire DEF Ends
  <1>3. CASE c = p.conn /\ p = Opening(c, "init")
    <2>1. copies[p] = 0
      <3>1. copies'[p] = 1 /\ copies[p] \in Nat /\ copies'[p] = copies[p] + 1
        BY <1>1, <1>3, Counts
      <3>2. QED
        BY <3>1
    <2>2. first[c] # {} => first[c] = {p}
      BY <1>1, <1>3, Counts
    <2>3. QED
      BY <1>3, <2>1, <2>2 DEF Seen
  <1>4. CASE p # Opening(c, "init") \/ c # p.conn
    <2>1. p # Opening(c, "init")
      BY <1>4, OpeningIs DEF Ends
    <2>2. copies[Opening(c, "init")] = 1
      BY <1>1, <1>2, <2>1, Counts
    <2>3. first[c] # {} => first[c] = {Opening(c, "init")}
      BY <1>1, Counts
    <2>4. QED
      BY <2>1, <2>2, <2>3 DEF WellOpened
  <1>5. QED
    BY <1>3, <1>4

\* The stream goes on counting FINs.
LEMMA FinsStep ==
    ASSUME OwnIds, TypeOK, ListenerLifecycle, ListenerLifecycle', Seen, FinsCounted,
           NEW p \in Wire, Handled(p), Capture(p)
    PROVE  FinsCounted'
  <1> SUFFICES ASSUME NEW c \in Conns, WellOpened(c)', Id(c) \in DOMAIN streams'
               PROVE  streams'[Id(c)].numFIN
                        = copies'[Closing(c, "init")] + copies'[Closing(c, "resp")]
    BY DEF FinsCounted
  <1> DEFINE s == streams'[Id(c)]
             a == Closing(c, "init")
             b == Closing(c, "resp")
  <1>1. /\ a \in Wire /\ b \in Wire /\ a # b /\ a.conn = c /\ b.conn = c /\ a.end = "init"
        /\ b.end = "resp" /\ "SYN" \notin a.flags /\ "SYN" \notin b.flags
        /\ copies[a] \in Nat /\ copies[b] \in Nat
    BY OnWire, ClosingIs DEF Ends, Seen
  <1> HIDE DEF s, a, b
  <1>2. CASE c # p.conn
    <2>1. Id(c) \in DOMAIN streams /\ s = streams[Id(c)]
      BY <1>2, StreamAfter DEF s
    <2>2. WellOpened(c)
      BY <1>2, <2>1, WasOpened DEF Seen
    <2>3. copies'[a] = copies[a] /\ copies'[b] = copies[b]
      BY <1>1, <1>2, Counts, ZenonT(60)
    <2>4. QED
      BY <2>1, <2>2, <2>3 DEF FinsCounted, s, a, b
  <1>3. CASE c = p.conn
    <2>1. PICK ls : Changes(p, s, ls)
      BY <1>3, StreamAfter DEF s
    <2>2. CASE Opens(p, s, ls)
      <3>1. p = Opening(c, "init") /\ s.numFIN = 0
        BY <1>3, <2>2 DEF Opens
      <3>2. first[c] = {}
        BY <1>3, <3>1, WasOpened
      <3>3. copies[a] = 0 /\ copies[b] = 0
        BY <1>1, <3>2 DEF Seen
      <3>4. p # a /\ p # b
        BY <1>1, <3>1, OpeningIs DEF Ends
      <3>5. copies'[a] = 0 /\ copies'[b] = 0
        BY <1>1, <3>3, <3>4, Counts, ZenonT(60)
      <3>6. QED
        BY <3>1, <3>5 DEF s, a, b
    <2>3. ASSUME NEW old, old = streams[Id(c)], Id(c) \in DOMAIN streams, GoesOn(p, old, s, ls)
          PROVE  s.numFIN = copies'[a] + copies'[b]
      <3>1. p # Opening(c, "init") /\ (p = Opening(c, "resp") => p.conn = c /\ "SYN" \in p.flags)
        <4>1. /\ Opening(c, "init").flags = {"SYN"} /\ Opening(c, "resp").flags = {"SYN", "ACK"}
              /\ Opening(c, "init").end = "init" /\ Opening(c, "resp").end = "resp"
          BY OpeningIs DEF Ends
        <4>2. QED
          BY <1>3, <2>3, <4>1 DEF GoesOn, Answers, Stays, Delivers
      <3>2. WellOpened(c)
        BY <2>3, <3>1, WasOpened DEF Seen
      <3>3. old.numFIN = copies[a] + copies[b]
        BY <2>3, <3>2 DEF FinsCounted, a, b
      <3>4. p = Closing(p.conn, p.end) <=> p = a \/ p = b
        BY <1>1, <1>3, WireIs DEF a, b, Ends
      <3>5. CASE p = a \/ p = b
        <4>1. s.numFIN = old.numFIN + 1
          BY <1>1, <1>3, <2>3, <3>1, <3>4, <3>5 DEF GoesOn, Stays, Answers, Delivers
        <4>2. \/ copies'[a] = copies[a] + 1 /\ copies'[b] = copies[b]
              \/ copies'[a] = copies[a] /\ copies'[b] = copies[b] + 1
          BY <1>1, <3>5, Counts, ZenonT(60)
        <4>3. QED
          BY <1>1, <3>3, <4>1, <4>2
      <3>6. CASE p # a /\ p # b
        <4>1. s.numFIN = old.numFIN
          BY <2>3, <3>4, <3>6 DEF GoesOn, Stays, Answers, Delivers
        <4>2. copies'[a] = copies[a] /\ copies'[b] = copies[b]
          BY <1>1, <3>6, Counts
        <4>3. QED
          BY <3>3, <4>1, <4>2
      <3>7. QED
        BY <3>5, <3>6
    <2>4. QED
      BY <1>3, <2>1, <2>2, <2>3 DEF Changes, s, a, b
  <1>4. QED
    BY <1>2, <1>3

\* The invariant of everything about captured connections
CaptureInv == Buffers(streams) /\ Seen /\ FinsCounted

\* It holds whatever is captured.
LEMMA CaptureInvHolds ==
    ASSUME OwnIds, OwnPorts
    PROVE  CaptureSpec => []CaptureInv
  <1> DEFINE Base == TypeOK /\ ListenerLifecycle
  <1>1. CaptureInit => CaptureInv
    <2> SUFFICES ASSUME CaptureInit PROVE CaptureInv
      OBVIOUS
    <2>1. /\ copies = [p \in Wire |-> 0] /\ first = [c \in Conns |-> {}]
          /\ orderly = [c \in Conns |-> [e \in Ends |-> TRUE]]
      BY DEF CaptureInit
    <2>2. Seen
      BY <2>1, Nothing DEF Seen
    <2>3. QED
      BY <2>2, Nothing DEF CaptureInv, FinsCounted
  <1>2. Base /\ Base' /\ CaptureInv /\ [CaptureNext]_<<vars, wireVars>> => CaptureInv'
    <2> SUFFICES ASSUME Base, Base', CaptureInv, [CaptureNext]_<<vars, wireVars>>
                 PROVE  CaptureInv'
      OBVIOUS
    <2>1. CASE UNCHANGED <<vars, wireVars>>
      <3>1. /\ streams' = streams /\ copies' = copies /\ first' = first /\ orderly' = orderly
        BY <2>1 DEF vars, wireVars
      <3>2. QED
        BY <3>1 DEF CaptureInv, Buffers, Seen, FinsCounted, WellOpened
    <2>2. ASSUME NEW p \in Wire, Handled(p), Capture(p)
          PROVE  CaptureInv'
      BY <2>2, BuffersStep, SeenStep, FinsStep DEF CaptureInv
    <2>3. QED
      BY <2>1, <2>2, CaptureStep DEF CaptureInv
  <1>3. CaptureSpec => []Base
    BY Lives
  <1> HIDE DEF Base
  <1>4. QED
    BY <1>1, <1>2, <1>3, PTL DEF CaptureSpec

\* A connection whose SYN and both FINs were captured is not tracked any more,
\* whatever was captured in between: it does not wait for the purge.
THEOREM FinishedCloses ==
    ASSUME OwnIds, OwnPorts
    PROVE  CaptureSpec => []FinishedIsClosed
  <1>1. TypeOK /\ CaptureInv => FinishedIsClosed
    <2> SUFFICES ASSUME TypeOK, CaptureInv, NEW c \in Conns, WellOpened(c),
                        \A e \in Ends : copies[Closing(c, e)] > 0
                 PROVE  OpenListeners(c) = {}
      BY DEF FinishedIsClosed
    <2>1. /\ copies[Closing(c, "init")] \in Nat /\ copies[Closing(c, "init")] > 0
          /\ copies[Closing(c, "resp")] \in Nat /\ copies[Closing(c, "resp")] > 0
      BY OnWire DEF Ends, CaptureInv, Seen
    <2>2. Id(c) \notin DOMAIN streams
      <3>1. SUFFICES ASSUME Id(c) \in DOMAIN streams PROVE FALSE
        OBVIOUS
      <3>2. streams[Id(c)].numFIN \in {0, 1}
        BY <3>1 DEF TypeOK, StreamOK, Stream
      <3>3. QED
        BY <2>1, <3>1, <3>2 DEF CaptureInv, FinsCounted
    <2>3. QED
      BY <2>2 DEF OpenListeners, Id
  <1>2. QED
    BY <1>1, Lives, CaptureInvHolds, PTL

-----------------------------------------------------------------------------
(* What is captured in order is complete *)

\* What is captured without a hole goes up to a byte that was not.
LEMMA TopIs ==
    ASSUME NEW c \in Conns, NEW e \in Ends, NEW n \in SeqNumbers, CapturedBytes(c, e) = 0 .. n - 1
    PROVE  Top(c, e) = n
  <1>1. n \in Nat /\ Size(c, e) \in Nat
    BY SizeIs, SizesAssumption DEF SeqNumbers
  <1>2. n <= Size(c, e)
    <2>1. CASE n = 0
      BY <1>1, <2>1
    <2>2. CASE n > 0
      <3>1. n - 1 \in CapturedBytes(c, e)
        BY <1>1, <2>2
      <3>2. PICK r \in Cuts[c][e] : n - 1 \in r.from .. EndOf(r) - 1
        BY <3>1 DEF CapturedBytes, Captured
      <3>3. EndOf(r) \in Nat /\ EndOf(r) <= Size(c, e)
        BY SegmentIs, SizeIs
      <3>4. QED
        BY <1>1, <3>2, <3>3
    <2>3. QED
      BY <1>1, <2>1, <2>2
  <1> DEFINE P(m) == 0 .. m - 1 \subseteq CapturedBytes(c, e) /\ m \notin CapturedBytes(c, e)
  <1>3. n \in 0 .. Size(c, e) /\ P(n)
    BY <1>1, <1>2
  <1>4. ASSUME NEW m \in 0 .. Size(c, e), P(m)
        PROVE  m = n
    <2>1. ~(m < n)
      BY <1>1, <1>4
    <2>2. CASE m > n
      <3>1. n \in 0 .. m - 1
        BY <1>1, <2>2
      <3>2. n \in 0 .. n - 1
        BY <1>4, <3>1
      <3>3. QED
        BY <1>1, <3>2
    <2>3. QED
      BY <1>1, <2>1, <2>2
  <1>5. Top(c, e) = CHOOSE m \in 0 .. Size(c, e) : P(m)
    BY DEF Top
  <1> HIDE DEF P
  <1>6. QED
    BY <1>3, <1>4, <1>5

\* The bytes captured once a packet is
LEMMA BytesAfter ==
    ASSUME Seen, NEW p \in Wire, Capture(p), NEW c \in Conns, NEW e \in Ends
    PROVE  /\ (\A r \in Cuts[c][e] : p # Data(c, e, r)) => CapturedBytes(c, e)' = CapturedBytes(c, e)
           /\ \A r \in Cuts[c][e] : p = Data(c, e, r) =>
                 CapturedBytes(c, e)' = CapturedBytes(c, e) \cup r.from .. EndOf(r) - 1
  <1>1. \A r \in Cuts[c][e] : Data(c, e, r) \in Wire
    BY OnWire
  <1>2. \A q \in Wire : copies[q] \in Nat /\ copies'[q] = IF q = p THEN copies[q] + 1 ELSE copies[q]
    BY Counts
  <1>3. \A r \in Cuts[c][e] : r \in Captured(c, e)' <=> r \in Captured(c, e) \/ p = Data(c, e, r)
    <2> TAKE r \in Cuts[c][e]
    <2>1. PICK q \in Wire : q = Data(c, e, r)
      BY <1>1
    <2>2. /\ r \in Captured(c, e)' <=> copies'[q] > 0
          /\ r \in Captured(c, e) <=> copies[q] > 0
      BY <2>1 DEF Captured
    <2>3. copies'[q] > 0 <=> copies[q] > 0 \/ q = p
      BY <1>2
    <2>4. QED
      BY <2>1, <2>2, <2>3
  <1>4. Captured(c, e) \subseteq Cuts[c][e] /\ Captured(c, e)' \subseteq Cuts[c][e]
    BY DEF Captured
  <1>5. ASSUME \A r \in Cuts[c][e] : p # Data(c, e, r)
        PROVE  CapturedBytes(c, e)' = CapturedBytes(c, e)
    <2>1. Captured(c, e)' = Captured(c, e)
      BY <1>3, <1>4, <1>5
    <2>2. QED
      BY <2>1 DEF CapturedBytes
  <1>6. ASSUME NEW r \in Cuts[c][e], p = Data(c, e, r)
        PROVE  CapturedBytes(c, e)' = CapturedBytes(c, e) \cup r.from .. EndOf(r) - 1
    <2> DEFINE S(q) == q.from .. EndOf(q) - 1
    <2>1. \A q \in Cuts[c][e] : p = Data(c, e, q) => S(q) = S(r)
      <3> TAKE q \in Cuts[c][e]
      <3>1. HAVE p = Data(c, e, q)
      <3>2. p.seq = SeqAt(c, e, q.from) /\ p.len = q.len
        BY <3>1, DataIs
      <3>3. p.seq = SeqAt(c, e, r.from) /\ p.len = r.len
        BY <1>6, DataIs
      <3>4. q.from \in SeqNumbers /\ r.from \in SeqNumbers
        BY SegmentIs
      <3>5. q.from = r.from
        BY <3>2, <3>3, <3>4, SeqAtOnce
      <3>6. QED
        BY <3>2, <3>3, <3>5 DEF EndOf
    <2>2. /\ CapturedBytes(c, e) = UNION {S(q) : q \in Captured(c, e)}
          /\ CapturedBytes(c, e)' = UNION {S(q) : q \in Captured(c, e)'}
      BY DEF CapturedBytes
    <2> HIDE DEF S
    <2>3. \A b : b \in CapturedBytes(c, e)' <=> b \in CapturedBytes(c, e) \/ b \in S(r)
      BY <1>3, <1>4, <1>6, <2>1, <2>2
    <2>4. QED
      BY <2>3 DEF S
  <1>7. QED
    BY <1>5, <1>6

\* Data goes on where the data of its end ended, or repeats what was there.
LEMMA InOrderIs ==
    ASSUME NEW c \in Conns, NEW e \in Ends, NEW p, p.conn = c, p.end = e, InOrder(p),
           NEW n \in SeqNumbers, CapturedBytes(c, e) = 0 .. n - 1
    PROVE  /\ p = Opening(c, e) => copies[p] = 0 /\ n = 0
           /\ \A r \in Cuts[c][e] : p = Data(c, e, r) =>
                 /\ copies[Opening(c, e)] = 1
                 /\ r.from = n \/ EndOf(r) <= n
  <1>1. Top(c, e) = n
    BY TopIs
  <1>2. p = Opening(c, e) => "SYN" \in p.flags
    BY OpeningIs
  <1>3. \A r \in Cuts[c][e] : p = Data(c, e, r) =>
          "SYN" \notin p.flags /\ Offset(p) = r.from /\ p.len = r.len
    <2> SUFFICES ASSUME NEW r \in Cuts[c][e], p = Data(c, e, r)
                 PROVE  "SYN" \notin p.flags /\ Offset(p) = r.from /\ p.len = r.len
      OBVIOUS
    <2>1. p.flags = {"ACK"} /\ p.seq = SeqAt(c, e, r.from) /\ p.len = r.len
      BY DataIs
    <2>2. (SeqAt(c, e, r.from) - ISN[c][e] - 1) % SeqSpace = r.from
      BY SegmentIs, SeqOfIs
    <2>3. QED
      BY <2>1, <2>2 DEF Offset
  <1>4. QED
    BY <1>1, <1>2, <1>3 DEF InOrder, EndOf

\* The next bytes are put after the others.
LEMMA Completed ==
    ASSUME NEW data \in Seq(Payload), NEW x \in Payload, NEW n \in Nat, NEW m \in Nat,
           Offset(x) = n, n + x.len = m, Bytes(data, Len(data)) = 0 .. n - 1,
           \A i \in DOMAIN data : Offset(data[i]) + data[i].len <= n,
           \A i, j \in DOMAIN data : i < j => Offset(data[i]) + data[i].len <= Offset(data[j])
    PROVE  LET all == data \o <<x>>
           IN  /\ Bytes(all, Len(all)) = 0 .. m - 1
               /\ \A i \in DOMAIN all : Offset(all[i]) + all[i].len <= m
               /\ \A i, j \in DOMAIN all : i < j => Offset(all[i]) + all[i].len <= Offset(all[j])
  <1> DEFINE all == data \o <<x>>
  <1>1. /\ Len(data) \in Nat /\ Len(all) = Len(data) + 1 /\ DOMAIN all = 1 .. Len(data) + 1
        /\ DOMAIN data = 1 .. Len(data)
        /\ \A i \in 1 .. Len(data) : all[i] = data[i]
        /\ all[Len(data) + 1] = x
        /\ <<x>> \in Seq(Payload) /\ Len(<<x>>) = 1 /\ <<x>>[1] = x
    OBVIOUS
  <1>2. x.len \in Nat /\ n <= m
    BY SizesAssumption DEF Payload
  <1>3. Bytes(all, Len(all)) = 0 .. m - 1
    <2>1. Bytes(<<x>>, 1) = BytesOf(x)
      BY <1>1 DEF Bytes
    <2>2. BytesOf(x) = n .. m - 1
      <3>1. n + x.len - 1 = m - 1
        BY <1>2, SMTT(30)
      <3>2. QED
        BY <3>1 DEF BytesOf
    <2>3. PICK out : out = <<x>>
      OBVIOUS
    <2>4. Bytes(all, Len(data) + 1) = Bytes(data, Len(data)) \cup Bytes(<<x>>, 1)
      <3>1. out \in Seq(Payload) /\ 1 \in 0 .. Len(out)
        BY <1>1, <2>3
      <3>2. \A j \in 0 .. Len(out) :
               Bytes(data \o out, Len(data) + j) = Bytes(data, Len(data)) \cup Bytes(out, j)
        BY <3>1, BytesJoin
      <3>3. QED
        BY <2>3, <3>1, <3>2
    <2>5. 0 .. m - 1 = 0 .. n - 1 \cup n .. m - 1
      BY <1>2
    <2>6. QED
      BY <1>1, <2>1, <2>2, <2>4, <2>5
  <1> HIDE DEF all
  <1>4. \A i \in DOMAIN all : \/ i \in DOMAIN data /\ all[i] = data[i]
                              \/ i = Len(data) + 1 /\ all[i] = x
    BY <1>1
  <1>5. \A i \in DOMAIN data : Offset(data[i]) + data[i].len \in Int
    <2> TAKE i \in DOMAIN data
    <2>1. data[i] \in Payload
      OBVIOUS
    <2>2. /\ data[i].seq \in Nat /\ data[i].len \in Nat
          /\ data[i].conn \in Conns /\ data[i].end \in Ends
      BY <2>1, SizesAssumption DEF Payload, SeqNumbers
    <2>3. ISN[data[i].conn][data[i].end] \in Nat /\ SeqSpace \in Nat \ {0}
      BY <2>2, ISNIs, SizesAssumption
    <2>4. Offset(data[i]) \in Int
      BY <2>2, <2>3 DEF Offset
    <2>5. QED
      BY <2>2, <2>4
  <1>6. \A i \in DOMAIN all : Offset(all[i]) + all[i].len <= m
    BY <1>2, <1>4, <1>5
  <1>7. ASSUME NEW i \in DOMAIN all, NEW j \in DOMAIN all, i < j
        PROVE  Offset(all[i]) + all[i].len <= Offset(all[j])
    <2>1. i \in DOMAIN data /\ all[i] = data[i]
      BY <1>1, <1>4, <1>7
    <2>2. QED
      BY <1>4, <1>7, <2>1
  <1>8. QED
    BY <1>3, <1>6, <1>7 DEF all

\* A segment captured in order is passed on, or was before.
LEMMA DataComplete ==
    ASSUME OwnPorts, TypeOK, ListenerLifecycle, Buffers(streams), NEW p \in Wire,
           NEW c \in Conns, NEW e \in Ends, NEW r \in Cuts[c][e], p = Data(c, e, r),
           Id(c) \in DOMAIN streams, NEW old, old = streams[Id(c)],
           NEW s, NEW ls, GoesOn(p, old, s, ls), NEW n \in SeqNumbers, NEW captured,
           UpTo(c, e, n, 1, captured, old, listeners[old.listener].data[DirFrom(e)]),
           r.from = n \/ EndOf(r) <= n
    PROVE  \E m \in SeqNumbers :
              UpTo(c, e, m, 1, captured \cup r.from .. EndOf(r) - 1, s,
                   ls[s.listener].data[DirFrom(e)])
  <1> DEFINE d == DirFrom(e)
             data == listeners[old.listener].data[d]
             told == ls[s.listener].data[d]
             x == PayloadOf(p)
  <1>1. /\ p.conn = c /\ p.end = e /\ p \in Packet /\ p.flags = {"ACK"} /\ d \in Dirs
        /\ p.seq = SeqAt(c, e, r.from) /\ p.len = r.len
        /\ s.listener = old.listener /\ old.listener \in DOMAIN listeners
        /\ old.next \in [Dirs -> SeqNumbers]
    BY DataIs DEF DirFrom, Dirs, GoesOn, ListenerLifecycle, Owns, TypeOK, StreamOK, Stream
  <1>2. /\ Offset(x) = r.from /\ x.len = r.len /\ x \in Payload
        /\ (p.seq + p.len) % SeqSpace = SeqAt(c, e, EndOf(r))
    <2>1. x.seq = p.seq /\ x.len = p.len /\ x \in Payload /\ x = PayloadOf(Data(c, e, r))
      BY <1>1, PacketTypes DEF PayloadOf
    <2> HIDE DEF x
    <2>2. QED
      BY <2>1, PayloadIs
  <1>3. /\ r.from \in Nat /\ r.len \in Nat \ {0} /\ EndOf(r) = r.from + r.len
        /\ r.from \in SeqNumbers /\ EndOf(r) \in SeqNumbers /\ n \in Nat /\ EndOf(r) \in Nat
    BY SegmentIs, SizesAssumption DEF SeqNumbers
  <1> HIDE DEF x
  <1>4. old.next[d] = SeqAt(c, e, n)
    BY DEF UpTo
  <1>5. p # Closing(c, e) /\ "SYN" \notin p.flags
    BY <1>1, ClosingIs
  <1>6. ~Answers(p, old, s)
    BY <1>1, OpeningIs, SMTT(30) DEF Answers, Ends
  <1>7. /\ captured = 0 .. n - 1 /\ Bytes(data, Len(data)) = 0 .. n - 1
        /\ \A i \in DOMAIN data : Offset(data[i]) + data[i].len <= n
        /\ \A i, j \in DOMAIN data : i < j => Offset(data[i]) + data[i].len <= Offset(data[j])
        /\ \A g \in old.buffer[d] : Offset(g.data) + g.data.len <= n
    BY DEF UpTo
  <1>8. CASE r.from = n
    <2>1. Delivers(p, old, s, ls)
      BY <1>1, <1>4, <1>5, <1>6, <1>8 DEF GoesOn, Stays
    <2>2. PICK later \in Seq(Payload) :
            /\ ls = Inform(listeners, old.listener, d, <<x>> \o later)
            /\ \A i \in DOMAIN later : \E g \in old.buffer[d] :
                  later[i] = g.data /\ g.data.seq = (p.seq + p.len) % SeqSpace
      BY <1>1, <2>1 DEF Delivers, x
    <2>3. \A i \in DOMAIN later : FALSE
      <3> TAKE i \in DOMAIN later
      <3>1. PICK g \in old.buffer[d] : g.data.seq = SeqAt(c, e, EndOf(r))
        BY <1>2, <2>2
      <3>2. PICK q \in Cuts[c][e] : g.data = PayloadOf(Data(c, e, q))
        BY DEF Buffers, Sent
      <3>3. Offset(g.data) = q.from /\ g.data.seq = SeqAt(c, e, q.from) /\ g.data.len = q.len
        BY <3>2, PayloadIs
      <3>4. q.from = EndOf(r)
        BY <1>3, <3>1, <3>3, SegmentIs, SeqAtOnce
      <3>5. q.from \in Nat /\ q.len \in Nat
        BY SegmentIs
      <3>6. Offset(g.data) + g.data.len <= n
        BY <1>7
      <3>7. QED
        BY <1>3, <1>8, <3>3, <3>4, <3>5, <3>6
    <2>4. later = <<>>
      <3>1. Len(later) \in Nat /\ DOMAIN later = 1 .. Len(later)
        OBVIOUS
      <3>2. Len(later) = 0
        <4>1. ~(1 \in 1 .. Len(later))
          BY <2>3, <3>1
        <4>2. QED
          BY <3>1, <4>1
      <3>3. QED
        BY <3>2
    <2>5. <<x>> \o later = <<x>>
      BY <1>2, <2>4
    <2>6. data \in Seq(Payload) /\ told = data \o <<x>>
      <3>1. PICK out : out = <<x>> \o later
        OBVIOUS
      <3>2. ls = Inform(listeners, old.listener, d, out)
        BY <2>2, <3>1
      <3> HIDE DEF d
      <3>3. /\ listeners[old.listener].data[d] \in Seq(Payload)
            /\ ls[old.listener].data[d] = listeners[old.listener].data[d] \o out
        BY <1>1, <3>2, Delivered, ZenonT(60)
      <3>4. QED
        BY <1>1, <2>5, <3>1, <3>3
    <2> HIDE DEF data
    <2>7. /\ Bytes(told, Len(told)) = 0 .. EndOf(r) - 1
          /\ \A i \in DOMAIN told : Offset(told[i]) + told[i].len <= EndOf(r)
          /\ \A i, j \in DOMAIN told : i < j => Offset(told[i]) + told[i].len <= Offset(told[j])
      BY <1>2, <1>3, <1>7, <1>8, <2>6, Completed, ZenonT(60)
    <2>8. s.next[d] = SeqAt(c, e, EndOf(r))
      BY <1>1, <1>2, <2>1 DEF Delivers
    <2>9. \A g \in s.buffer[d] : Offset(g.data) + g.data.len <= EndOf(r)
      <3> TAKE g \in s.buffer[d]
      <3>1. g \in old.buffer[d]
        BY <1>1, <2>1 DEF Delivers
      <3>2. PICK q \in Cuts[c][e] : g.data = PayloadOf(Data(c, e, q))
        BY <3>1 DEF Buffers, Sent
      <3>3. Offset(g.data) = q.from /\ g.data.len = q.len /\ q.from \in Nat /\ q.len \in Nat
        BY <3>2, PayloadIs, SegmentIs
      <3>4. QED
        BY <1>3, <1>7, <1>8, <3>1, <3>3
    <2>10. captured \cup r.from .. EndOf(r) - 1 = 0 .. EndOf(r) - 1
      BY <1>3, <1>7, <1>8
    <2> HIDE DEF told
    <2>11. UpTo(c, e, EndOf(r), 1, captured \cup r.from .. EndOf(r) - 1, s, told)
      BY <2>7, <2>8, <2>9, <2>10 DEF UpTo
    <2>12. QED
      BY <1>3, <2>11 DEF told
  <1>9. CASE EndOf(r) <= n
    <2>1. r.from # n
      BY <1>3, <1>9
    <2>2. p.seq # old.next[d]
      BY <1>1, <1>3, <1>4, <2>1, SeqAtOnce
    <2>3. ls = listeners /\ Stays(p, old, s)
      BY <1>1, <1>6, <2>2 DEF GoesOn, Delivers
    <2>4. told = data /\ s.next = old.next
      BY <1>1, <2>3 DEF Stays
    <2>5. \A g \in s.buffer[d] : Offset(g.data) + g.data.len <= n
      <3> TAKE g \in s.buffer[d]
      <3>1. g \in old.buffer[d] \/ g.data = x
        BY <1>1, <2>3 DEF Stays, x
      <3>2. QED
        BY <1>2, <1>3, <1>7, <1>9, <3>1
    <2>6. captured \cup r.from .. EndOf(r) - 1 = 0 .. n - 1
      BY <1>3, <1>7, <1>9
    <2> HIDE DEF told, data
    <2>7. UpTo(c, e, n, 1, captured \cup r.from .. EndOf(r) - 1, s, told)
      BY <1>4, <1>7, <2>4, <2>5, <2>6 DEF UpTo
    <2>8. QED
      BY <2>7 DEF told
  <1>10. QED
    BY <1>8, <1>9

\* Nothing else adds to what is complete.
LEMMA EndComplete ==
    ASSUME OwnPorts, TypeOK, ListenerLifecycle, Buffers(streams), Seen,
           NEW p \in Wire, Capture(p), NEW c \in Conns, NEW e \in Ends, c = p.conn,
           Id(c) \in DOMAIN streams, NEW old, old = streams[Id(c)],
           NEW s, NEW ls, GoesOn(p, old, s, ls), NEW n \in SeqNumbers,
           UpTo(c, e, n, copies[Opening(c, e)], CapturedBytes(c, e), old,
                listeners[old.listener].data[DirFrom(e)]),
           e = p.end => InOrder(p)
    PROVE  \E m \in SeqNumbers :
              UpTo(c, e, m, copies'[Opening(c, e)], CapturedBytes(c, e)', s,
                   ls[s.listener].data[DirFrom(e)])
  <1> DEFINE d == DirFrom(e)
             o == Opening(c, e)
             data == listeners[old.listener].data[d]
             told == ls[s.listener].data[d]
  <1>1. /\ p.end \in Ends /\ d \in Dirs /\ DirFrom(p.end) \in Dirs /\ (e # p.end => d # DirFrom(p.end))
        /\ s.listener = old.listener /\ old.listener \in DOMAIN listeners
        /\ old.next \in [Dirs -> SeqNumbers] /\ old \in Stream
    BY WireIs DEF DirFrom, Dirs, Ends, GoesOn, ListenerLifecycle, Owns, TypeOK, StreamOK, Stream
  <1>2. o \in Wire /\ o.conn = c /\ o.end = e /\ "SYN" \in o.flags
        /\ o.flags = IF e = "init" THEN {"SYN"} ELSE {"SYN", "ACK"}
    BY OnWire, OpeningIs
  <1>3. copies[o] \in Nat /\ copies'[o] = IF o = p THEN copies[o] + 1 ELSE copies[o]
    BY <1>2, Counts
  <1>4. /\ CapturedBytes(c, e) = 0 .. n - 1
        /\ copies[o] \in {0, 1}
    BY DEF UpTo
  <1>5. ASSUME \A r \in Cuts[c][e] : p # Data(c, e, r), p # o,
               told = data, s.next[d] = old.next[d],
               \A g \in s.buffer[d] : g \in old.buffer[d]
        PROVE  UpTo(c, e, n, copies'[o], CapturedBytes(c, e)', s, told)
    <2>1. copies'[o] = copies[o] /\ CapturedBytes(c, e)' = CapturedBytes(c, e)
      BY <1>3, <1>5, BytesAfter
    <2>2. UpTo(c, e, n, copies[o], CapturedBytes(c, e), old, data)
      OBVIOUS
    <2> HIDE DEF told, data, o
    <2>3. QED
      BY <1>5, <2>1, <2>2 DEF UpTo, d
  <1>6. CASE e # p.end
    <2>1. (\A r \in Cuts[c][e] : p # Data(c, e, r)) /\ p # o
      BY <1>2, <1>6, DataIs
    <2>2. s.next[d] = old.next[d]
      <3>1. Answers(p, old, s) => d # "toInitiator"
        BY <1>1, <1>6, OpeningIs DEF Answers, DirFrom, Ends
      <3>2. QED
        BY <1>1, <1>6, <3>1 DEF GoesOn, Answers, Stays, Delivers
    <2>3. \A g \in s.buffer[d] : g \in old.buffer[d]
      BY <1>1, <1>6 DEF GoesOn, Answers, Stays, Delivers
    <2>4. told = data
      <3>1. CASE ls = listeners
        BY <1>1, <3>1
      <3>2. CASE Delivers(p, old, s, ls)
        <4>1. PICK out : ls = Inform(listeners, old.listener, DirFrom(p.end), out)
          BY <3>2 DEF Delivers
        <4>2. PICK l \in DOMAIN listeners, y \in Dirs, b \in Dirs :
                l = old.listener /\ y = DirFrom(p.end) /\ b = d /\ b # y
          BY <1>1, <1>6
        <4>3. b \in Dirs \ {y}
          BY <4>2
        <4>4. Inform(listeners, l, y, out)[l].data[b] = listeners[l].data[b]
          BY <4>3, Delivered
        <4>5. QED
          BY <1>1, <4>1, <4>2, <4>4
      <3>3. QED
        BY <3>1, <3>2 DEF GoesOn
    <2> HIDE DEF told, data, d, o
    <2>5. QED
      BY <1>5, <2>1, <2>2, <2>3, <2>4 DEF told, d, o
  <1>7. CASE e = p.end /\ p = o
    <2>1. copies[o] = 0 /\ n = 0
      BY <1>2, <1>4, <1>7, InOrderIs
    <2>2. Answers(p, old, s) /\ ls = listeners
      BY <1>2, <1>7 DEF GoesOn, Stays, Delivers
    <2>3. e = "resp" /\ d = "toInitiator"
      BY <1>7, <2>2, OpeningIs DEF Answers, Ends, DirFrom
    <2>4. s.next[d] = SeqAt(c, e, 0) /\ s.buffer = old.buffer
      BY <1>1, <2>2, <2>3 DEF Answers
    <2>5. \A r \in Cuts[c][e] : p # Data(c, e, r)
      BY <1>2, <1>7, DataIs, SMTT(30)
    <2>6. copies'[o] = 1 /\ CapturedBytes(c, e)' = CapturedBytes(c, e) /\ told = data
      <3>1. copies'[o] = 1
        BY <1>3, <1>7, <2>1
      <3>2. CapturedBytes(c, e)' = CapturedBytes(c, e)
        BY <2>5, BytesAfter
      <3>3. told = data
        BY <1>1, <2>2
      <3>4. QED
        BY <3>1, <3>2, <3>3
    <2>7. UpTo(c, e, n, copies[o], CapturedBytes(c, e), old, data)
      OBVIOUS
    <2> HIDE DEF told, data, o
    <2>8. UpTo(c, e, n, copies'[o], CapturedBytes(c, e)', s, told)
      BY <2>1, <2>4, <2>6, <2>7 DEF UpTo, d
    <2>9. QED
      BY <2>8 DEF told, d, o
  <1>8. ASSUME e = p.end, NEW r \in Cuts[c][e], p = Data(c, e, r)
        PROVE  \E m \in SeqNumbers : UpTo(c, e, m, copies'[o], CapturedBytes(c, e)', s, told)
    <2>1. copies[o] = 1 /\ (r.from = n \/ EndOf(r) <= n)
      BY <1>4, <1>8, InOrderIs
    <2>2. p # o
      BY <1>2, <1>8, DataIs, SMTT(30)
    <2>3. copies'[o] = 1 /\ CapturedBytes(c, e)' = CapturedBytes(c, e) \cup r.from .. EndOf(r) - 1
      <3>1. copies'[o] = 1
        BY <1>3, <2>1, <2>2
      <3>2. CapturedBytes(c, e)' = CapturedBytes(c, e) \cup r.from .. EndOf(r) - 1
        BY <1>8, BytesAfter
      <3>3. QED
        BY <3>1, <3>2
    <2>4. UpTo(c, e, n, 1, CapturedBytes(c, e), old, listeners[old.listener].data[DirFrom(e)])
      BY <2>1
    <2> HIDE DEF told, data, o
    <2>5. \E m \in SeqNumbers :
             UpTo(c, e, m, 1, CapturedBytes(c, e) \cup r.from .. EndOf(r) - 1, s,
                  ls[s.listener].data[DirFrom(e)])
      BY <1>8, <2>1, <2>4, DataComplete
    <2>6. QED
      BY <2>3, <2>5 DEF told, d
  <1>9. CASE e = p.end /\ p = Closing(c, e)
    <2>1. "SYN" \notin p.flags /\ p.flags = {"FIN", "ACK"}
      BY <1>9, ClosingIs
    <2>2. p # o /\ \A r \in Cuts[c][e] : p # Data(c, e, r)
      BY <1>2, <2>1, DataIs, SMTT(60)
    <2>3. ls = listeners /\ Stays(p, old, s)
      <3>1. ~Answers(p, old, s)
        BY <2>1, OpeningIs DEF Answers, Ends
      <3>2. QED
        BY <1>9, <3>1 DEF GoesOn, Delivers
    <2>4. told = data /\ s.next[d] = old.next[d] /\ \A g \in s.buffer[d] : g \in old.buffer[d]
      BY <1>1, <1>9, <2>3 DEF Stays
    <2> HIDE DEF told, data, d, o
    <2>5. QED
      BY <1>5, <2>2, <2>4 DEF told, d, o
  <1>10. QED
    BY <1>6, <1>7, <1>8, <1>9, WireIs

\* What is complete goes on being complete as long as it is captured in order.
LEMMA CompleteStep ==
    ASSUME OwnIds, OwnPorts, TypeOK, ListenerLifecycle, ListenerLifecycle', Buffers(streams),
           Seen, Complete, NEW p \in Wire, Handled(p), Capture(p)
    PROVE  Complete'
  <1> SUFFICES ASSUME NEW c \in Conns, NEW e \in Ends, WellOpened(c)', orderly'[c][e],
                      Id(c) \in DOMAIN streams'
               PROVE  \E n \in SeqNumbers :
                         UpTo(c, e, n, copies'[Opening(c, e)], CapturedBytes(c, e)',
                              streams'[Id(c)], listeners'[streams'[Id(c)].listener].data[DirFrom(e)])
    BY DEF Complete
  <1> DEFINE s == streams'[Id(c)]
             o == Opening(c, e)
             told == listeners'[s.listener].data[DirFrom(e)]
  <1>1. o \in Wire /\ o.conn = c /\ o.end = e
    BY OnWire, OpeningIs
  <1>2. orderly[c][e] /\ (c = p.conn /\ e = p.end => InOrder(p))
    <2>1. CASE c = p.conn /\ e = p.end
      <3>1. orderly'[p.conn][p.end] = (orderly[p.conn][p.end] /\ InOrder(p))
        BY Counts
      <3>2. QED
        BY <2>1, <3>1
    <2>2. CASE c # p.conn \/ e # p.end
      <3>1. \A x \in Conns, y \in Ends :
               x # p.conn \/ y # p.end => orderly'[x][y] = orderly[x][y]
        BY Counts
      <3>2. QED
        BY <2>2, <3>1
    <2>3. QED
      BY <2>1, <2>2
  <1>3. copies[o] \in Nat /\ copies'[o] = IF o = p THEN copies[o] + 1 ELSE copies[o]
    <2>1. \A q \in Wire : copies[q] \in Nat /\ copies'[q] = IF q = p THEN copies[q] + 1 ELSE copies[q]
      BY Counts
    <2>2. QED
      BY <1>1, <2>1
  <1> HIDE DEF s, o
  <1>4. CASE c # p.conn
    <2>1. /\ Id(c) \in DOMAIN streams /\ s = streams[Id(c)]
          /\ told = listeners[s.listener].data[DirFrom(e)]
      BY <1>4, StreamAfter DEF s
    <2>2. WellOpened(c)
      BY <1>4, <2>1, WasOpened DEF Seen
    <2>3. PICK n \in SeqNumbers : UpTo(c, e, n, copies[o], CapturedBytes(c, e), s, told)
      BY <1>2, <2>1, <2>2 DEF Complete, o
    <2>4. p # o /\ \A r \in Cuts[c][e] : p # Data(c, e, r)
      BY <1>1, <1>4, DataIs
    <2>5. copies'[o] = copies[o] /\ CapturedBytes(c, e)' = CapturedBytes(c, e)
      BY <1>3, <2>4, BytesAfter
    <2>6. QED
      BY <2>3, <2>5 DEF s, o
  <1>5. CASE c = p.conn
    <2>1. PICK ls : Changes(p, s, ls) /\ told = ls[s.listener].data[DirFrom(e)]
      BY <1>5, StreamAfter DEF s
    <2>2. CASE Opens(p, s, ls)
      <3>1. p = Opening(c, "init")
        BY <1>5, <2>2 DEF Opens
      <3>2. first[c] = {}
        BY <1>5, <3>1, WasOpened
      <3>3. \A q \in Wire : q.conn = c => copies[q] = 0
        BY <3>2 DEF Seen
      <3>4. CapturedBytes(c, e) = {}
        <4>1. Captured(c, e) = {}
          <5>1. \A r \in Cuts[c][e] : Data(c, e, r) \in Wire /\ Data(c, e, r).conn = c
            BY OnWire, DataIs
          <5>2. \A r \in Cuts[c][e] : ~(copies[Data(c, e, r)] > 0)
            BY <3>3, <5>1
          <5>3. QED
            BY <5>2 DEF Captured
        <4>2. QED
          BY <4>1 DEF CapturedBytes
      <3>5. \A r \in Cuts[c][e] : p # Data(c, e, r)
        <4>1. "SYN" \in p.flags
          BY <3>1, OpeningIs DEF Ends
        <4>2. QED
          BY <4>1, DataIs
      <3>6. CapturedBytes(c, e)' = {}
        BY <3>4, <3>5, BytesAfter
      <3>7. told = <<>>
        <4>1. DirFrom(e) \in Dirs
          BY DEF DirFrom, Dirs
        <4>2. QED
          BY <2>1, <2>2, <4>1, Told
      <3>8. copies'[o] = IF e = "init" THEN 1 ELSE 0
        <4>1. o = p <=> e = "init"
          BY <1>1, <3>1, OpeningIs DEF o, Ends
        <4>2. copies[o] = 0
          BY <1>1, <3>3
        <4>3. QED
          BY <1>3, <4>1, <4>2
      <3>9. e = "init" => s.next[DirFrom(e)] = SeqAt(c, e, 0)
        BY <1>5, <2>2 DEF Opens, DirFrom
      <3>10. s.buffer[DirFrom(e)] = {}
        BY <2>2 DEF Opens, DirFrom, Dirs
      <3>11. Bytes(told, Len(told)) = {} /\ DOMAIN told = {}
        <4>1. Bytes(<<>>, 0) = {}
          BY DEF Bytes
        <4>2. QED
          BY <3>7, <4>1
      <3>12. 0 \in SeqNumbers /\ 0 .. 0 - 1 = {}
        BY SizesAssumption DEF SeqNumbers
      <3> HIDE DEF told
      <3>13. UpTo(c, e, 0, copies'[o], CapturedBytes(c, e)', s, told)
        BY <3>6, <3>7, <3>8, <3>9, <3>10, <3>11, <3>12 DEF UpTo
      <3>14. QED
        BY <3>12, <3>13 DEF told, s, o
    <2>3. ASSUME NEW old, old = streams[Id(c)], Id(c) \in DOMAIN streams, GoesOn(p, old, s, ls)
          PROVE  \E n \in SeqNumbers :
                    UpTo(c, e, n, copies'[o], CapturedBytes(c, e)', s, ls[s.listener].data[DirFrom(e)])
      <3>1. p # Opening(c, "init")
        BY <2>3, OpeningIs DEF GoesOn, Answers, Stays, Delivers, Ends
      <3>2. WellOpened(c)
        BY <2>3, <3>1, WasOpened DEF Seen
      <3>3. PICK n \in SeqNumbers :
              UpTo(c, e, n, copies[Opening(c, e)], CapturedBytes(c, e), old,
                   listeners[old.listener].data[DirFrom(e)])
        BY <1>2, <2>3, <3>2 DEF Complete
      <3>4. QED
        BY <1>2, <1>5, <2>3, <3>3, EndComplete DEF o
    <2>4. QED
      BY <1>5, <2>1, <2>2, <2>3 DEF Changes, s, o
  <1>6. QED
    BY <1>4, <1>5

\* Captured in order, with any number of retransmissions, a direction reaches
\* the listener complete and each byte once, for as long as the stream is open.
THEOREM OrderlyCompletes ==
    ASSUME OwnIds, OwnPorts
    PROVE  CaptureSpec => []OrderlyIsComplete
  <1> DEFINE Base == TypeOK /\ ListenerLifecycle
  <1>1. CaptureInit => Complete
    BY Nothing DEF Complete
  <1>2. Base /\ Base' /\ CaptureInv /\ Complete /\ [CaptureNext]_<<vars, wireVars>> => Complete'
    <2> SUFFICES ASSUME Base, Base', CaptureInv, Complete, [CaptureNext]_<<vars, wireVars>>
                 PROVE  Complete'
      OBVIOUS
    <2>1. CASE UNCHANGED <<vars, wireVars>>
      <3>1. /\ streams' = streams /\ listeners' = listeners
            /\ copies' = copies /\ first' = first /\ orderly' = orderly
        BY <2>1 DEF vars, wireVars
      <3>2. QED
        BY <3>1 DEF Complete, WellOpened, CapturedBytes, Captured
    <2>2. ASSUME NEW p \in Wire, Handled(p), Capture(p)
          PROVE  Complete'
      BY <2>2, CompleteStep DEF CaptureInv
    <2>3. QED
      BY <2>1, <2>2, CaptureStep DEF CaptureInv
  <1>3. CaptureSpec => []Base
    BY Lives
  <1> HIDE DEF Base
  <1>4. CaptureSpec => []Complete
    BY <1>1, <1>2, <1>3, CaptureInvHolds, PTL DEF CaptureSpec
  <1>5. Complete => OrderlyIsComplete
    <2> SUFFICES ASSUME Complete, NEW c \in Conns, NEW e \in Ends, NEW l \in OpenListeners(c),
                        orderly[c][e] /\ WellOpened(c)
                 PROVE  LET given == Given(l, DirFrom(e))
                        IN  /\ Covered(l, DirFrom(e), Len(given)) = 0 .. Top(c, e) - 1
                            /\ \A i, j \in DOMAIN given : i < j =>
                                  Offset(given[i]) + given[i].len <= Offset(given[j])
      BY DEF OrderlyIsComplete
    <2>1. Id(c) \in DOMAIN streams /\ l = streams[Id(c)].listener
      BY DEF OpenListeners, Id
    <2>2. PICK n \in SeqNumbers :
            UpTo(c, e, n, copies[Opening(c, e)], CapturedBytes(c, e), streams[Id(c)],
                 listeners[l].data[DirFrom(e)])
      BY <2>1 DEF Complete
    <2>3. Top(c, e) = n
      BY <2>2, TopIs DEF UpTo
    <2>4. Covered(l, DirFrom(e), Len(Given(l, DirFrom(e))))
            = Bytes(listeners[l].data[DirFrom(e)], Len(listeners[l].data[DirFrom(e)]))
      BY DEF Covered, Given, Bytes, BytesOf
    <2>5. QED
      BY <2>2, <2>3, <2>4 DEF UpTo, Given
  <1>6. QED
    BY <1>4, <1>5, PTL
=============================================================================
