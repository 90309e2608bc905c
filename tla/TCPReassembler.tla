--------------------------- MODULE TCPReassembler ---------------------------
(***************************************************************************)
(* The TCP reassembler of NetAnalyzer (network/processors): it is handed   *)
(* every sniffed TCP packet, keeps one TCPStream per connection it saw the *)
(* SYN of, puts the payload of each direction back in order and passes it  *)
(* to a TCPStreamListener it owns.                                         *)
(*                                                                         *)
(* One action is one outcome of onIPv4Packet(): the handler runs to its    *)
(* end, listener callbacks included, before the next packet is looked at.  *)
(* Payload bytes are named by their sequence numbers, so what a listener   *)
(* was given is a sequence of [seq, len] intervals with their origin.      *)
(***************************************************************************)
EXTENDS Integers, Sequences, FiniteSets

CONSTANTS
    Conns,      \* TCP connections on the wire: both addresses and both ports
    SeqSpace,   \* number of sequence numbers (2^32: nextSeqNumber is a uint32_t)
    MaxLen,     \* longest payload of a segment
    BufSize,    \* TCP_SEQ_BUFFER_SIZE (64)
    PurgeEvery, \* purgeOld() does its work on every PurgeEvery-th call (64)
    Timeout,    \* TCP_DEF_TIMEOUT
    Clock       \* the readings of getTimeStampMS()

ASSUME ConnsAssumption ==
    Conns \subseteq [initIP : Nat, respIP : Nat, initPort : Nat, respPort : Nat]

ASSUME SizesAssumption ==
    /\ SeqSpace \in Nat \ {0}
    /\ MaxLen \in Nat
    /\ BufSize \in Nat
    /\ PurgeEvery \in Nat \ {0}
    /\ Timeout \in Nat
    /\ Clock \subseteq Nat
    /\ 0 \in Clock

VARIABLES
    alive,      \* FALSE once ~TCPReassembler() has run
    streams,    \* std::map<uint64_t, TCPStream*>, by stream id
    listeners,  \* every TCPStreamListener onTCPAccepted() ever returned
    heap,       \* the TCPBufferedSegment objects that exist
    stats,      \* TCPReassemblerStats
    purgeCnt,   \* the static counter of purgeOld()
    now         \* getTimeStampMS()

vars == <<alive, streams, listeners, heap, stats, purgeCnt, now>>

Dirs == {"fromInitiator", "toInitiator"}
Ends == {"init", "resp"}
SeqNumbers == 0 .. SeqSpace - 1

Packet == [conn : Conns, end : Ends, flags : SUBSET {"SYN", "ACK", "FIN", "RST"},
           seq : SeqNumbers, len : 0 .. MaxLen]

\* A payload remembers the endpoint that sent it; a buffered one also the
\* number of its allocation (one TCPBufferedSegment for each mismatch that is
\* counted), which gives its place in the vector of TCPSeqBuffer.
Payload == [conn : Conns, end : Ends, seq : SeqNumbers, len : 0 .. MaxLen]
Segment == [at : Nat, data : Payload]

PayloadOf(p) == [conn |-> p.conn, end |-> p.end, seq |-> p.seq, len |-> p.len]

DstPort(p) == IF p.end = "init" THEN p.conn.respPort ELSE p.conn.initPort

\* Mutant of StreamId: the port sum is lost, as it is from a shift too narrow.
StreamIdOfHosts(p) == <<p.conn.initIP + p.conn.respIP, 0>>

\* (ipSUM << 24) + portSUM: a port sum has 17 bits, so two ids are equal
\* exactly when both sums are.
StreamId(p) == <<p.conn.initIP + p.conn.respIP, p.conn.initPort + p.conn.respPort>>

DirOf(p, s) == IF DstPort(p) = s.localPort THEN "fromInitiator" ELSE "toInitiator"

IsOpening(p) == "SYN" \in p.flags /\ "ACK" \notin p.flags
IsSynAck(p) == "SYN" \in p.flags /\ "ACK" \in p.flags
IsTracked(p) == StreamId(p) \in DOMAIN streams

-----------------------------------------------------------------------------
(* Listeners and the objects a stream owns *)

NewListener == [closes |-> 0, data |-> [d \in Dirs |-> <<>>]]

\* onClose() of the listeners in L
CloseListeners(ls, L) ==
    [l \in DOMAIN ls |-> IF l \in L THEN [ls[l] EXCEPT !.closes = @ + 1] ELSE ls[l]]

\* onDataFromInitiator()/onDataToInitiator() with each payload of out
Inform(ls, l, d, out) == [ls EXCEPT ![l].data[d] = @ \o out]

\* Mutant of ObjectsOf: the destructor frees the buffer of one direction.
ObjectsOfInitiator(s) == {g.at : g \in s.buffer["fromInitiator"]}

\* ~TCPSeqBuffer() of both directions deletes what they still hold.
ObjectsOf(s) == {g.at : g \in s.buffer["fromInitiator"] \cup s.buffer["toInitiator"]}

\* Mutant of IsFull: off by one.
IsOverfull(b) == Cardinality(b) > BufSize

IsFull(b) == Cardinality(b) >= BufSize

\* A vector in push_back order: the order the segments were allocated in.
Ordered(G) ==
    {o \in [1 .. Cardinality(G) -> G] :
        \A i, j \in 1 .. Cardinality(G) : i < j => o[i].at < o[j].at}

-----------------------------------------------------------------------------
(* The stream a packet is for, as it is when the payload is looked at: a   *)
(* new one for a SYN, an existing one with the sequence number of the      *)
(* answering direction set again for a SYN-ACK, or an existing one.        *)

NewStream(p) ==
    [localPort |-> DstPort(p),
     listener |-> Len(listeners) + 1,
     lastActivityTs |-> 0,
     numFIN |-> 0,
     next |-> [d \in Dirs |-> IF d = "fromInitiator" THEN p.seq ELSE 0],
     buffer |-> [d \in Dirs |-> {}]]

Subject(p) ==
    IF IsOpening(p) THEN NewStream(p)
    ELSE IF IsSynAck(p) THEN [streams[StreamId(p)] EXCEPT !.next["toInitiator"] = p.seq]
    ELSE streams[StreamId(p)]

KnownListeners(p) == IF IsOpening(p) THEN Append(listeners, NewListener) ELSE listeners

\* Mutants of IsNext: segments with a gap in front of them are passed on, too;
\* segments below the expected one are passed on again.
IsNextOrLater(p, s) == s.next[DirOf(p, s)] <= p.seq
IsNextOrEarlier(p, s) == s.next[DirOf(p, s)] >= p.seq

\* Is this the segment the direction waits for?
IsNext(p, s) == s.next[DirOf(p, s)] = p.seq

IsFor(p) == alive /\ (IF IsOpening(p) THEN ~IsTracked(p) ELSE IsTracked(p))

-----------------------------------------------------------------------------
(* Statistics: the counters of the reassembler and the global ones of the  *)
(* payload. Those kept per direction move with the global ones.            *)

NoStats ==
    [numPackets |-> 0, numIDCollision |-> 0, numConnections |-> 0,
     numOpenConnections |-> 0, numPurgedConnections |-> 0, numPacketsIgnored |-> 0,
     numSeqNumberMismatch |-> 0, numSeqNumberReOrdered |-> 0, numRetransmits |-> 0,
     numErrors |-> 0]

\* Mutant of Counted: a SYN-ACK counts an open connection, too.
CountedTwice(p) ==
    IF "SYN" \in p.flags
    THEN [stats EXCEPT !.numPackets = stats.numPackets + 1,
                       !.numConnections = stats.numConnections + 1,
                       !.numOpenConnections = stats.numOpenConnections + 1]
    ELSE [stats EXCEPT !.numPackets = stats.numPackets + 1]

\* The counters that move before a packet is known to belong to a stream.
Counted(p) ==
    IF IsOpening(p)
    THEN [stats EXCEPT !.numPackets = stats.numPackets + 1,
                       !.numConnections = stats.numConnections + 1,
                       !.numOpenConnections = stats.numOpenConnections + 1]
    ELSE [stats EXCEPT !.numPackets = stats.numPackets + 1]

-----------------------------------------------------------------------------
(* The end of the handler: SYN counts one, FINs are counted, the stream is *)
(* closed on its second FIN or on RST, and purgeOld() is called.           *)

\* Mutant of Idle: every stream is purged, whatever its age.
IdleOfAnyAge(table) == DOMAIN table

\* The age is a uint64_t: one below zero, after the clock was set back, is huge.
Idle(table) == {id \in DOMAIN table : now - table[id].lastActivityTs \notin 0 .. Timeout}

\* Mutant of Without: the stream is deleted but not erased from the map.
NotErased(table, ids) == table

Without(table, ids) == [id \in DOMAIN table \ ids |-> table[id]]

Store(p, s) ==
    [id \in DOMAIN streams \cup {StreamId(p)} |-> IF id = StreamId(p) THEN s ELSE streams[id]]

\* onClose(), and the listener and the stream are deleted
Release(table, ids, ls, objs) ==
    /\ streams' = Without(table, ids)
    /\ listeners' = CloseListeners(ls, {table[id].listener : id \in ids})
    /\ heap' = objs \ UNION {ObjectsOf(table[id]) : id \in ids}

\* closeStream() of each of the streams `ids` of the table
CloseStreams(table, ids, ls, objs, st) ==
    /\ Release(table, ids, ls, objs)
    /\ stats' = [st EXCEPT !.numOpenConnections = @ - Cardinality(ids)]

\* Mutant of IsOver: off by one.
IsOverLater(p, s) == s.numFIN > 2 \/ "RST" \in p.flags

\* The second FIN or a reset ends the connection.
IsOver(p, s) == s.numFIN = 2 \/ "RST" \in p.flags

\* The stream once the packet is done with
After(p, s) ==
    [s EXCEPT !.lastActivityTs = now,
              !.next[DirOf(p, s)] = IF "SYN" \in p.flags THEN (@ + 1) % SeqSpace ELSE @,
              !.numFIN = IF "FIN" \in p.flags THEN @ + 1 ELSE @]

Finish(p, s, ls, objs, st) ==
    LET table == Store(p, After(p, s))
        done == IF IsOver(p, After(p, s)) THEN {StreamId(p)} ELSE {}
        purging == purgeCnt + 1 >= PurgeEvery
        old == IF purging THEN Idle(table) \ done ELSE {}
    IN  /\ purgeCnt' = IF purging THEN 0 ELSE purgeCnt + 1
        /\ CloseStreams(table, done \cup old, ls, objs,
             [st EXCEPT !.numPurgedConnections = @ + Cardinality(old)])
        /\ UNCHANGED <<alive, now>>

-----------------------------------------------------------------------------
(* The outcomes of onIPv4Packet() *)

\* A SYN whose id is in use: the existing connection is closed, the new one skipped.
Collide(p) ==
    /\ alive /\ IsOpening(p) /\ IsTracked(p)
    /\ CloseStreams(streams, {StreamId(p)}, listeners, heap,
         [stats EXCEPT !.numPackets = stats.numPackets + 1,
                       !.numIDCollision = stats.numIDCollision + 1])
    /\ UNCHANGED <<alive, purgeCnt, now>>

\* Not a SYN and no stream with this id
Ignore(p) ==
    /\ alive /\ ~IsOpening(p) /\ ~IsTracked(p)
    /\ stats' = [Counted(p) EXCEPT !.numPacketsIgnored = @ + 1]
    /\ UNCHANGED <<alive, streams, listeners, heap, purgeCnt, now>>

NoPayload(p) ==
    /\ IsFor(p) /\ p.len = 0
    /\ Finish(p, Subject(p), KnownListeners(p), heap, Counted(p))

\* The expected segment: passed on, and after it the buffered segments that
\* follow it. The loop asks the buffer for nextSeqNumber again and again but
\* does not move it: only segments that begin right after p are found.
Deliver(p) ==
    /\ IsFor(p) /\ p.len # 0
    /\ IsNext(p, Subject(p))
    /\ LET s == Subject(p)
           d == DirOf(p, s)
           next == (p.seq + p.len) % SeqSpace
           hits == {g \in s.buffer[d] : g.data.seq = next}
       IN  \E o \in Ordered(hits) :
              Finish(p,
                [s EXCEPT !.next[d] = next, !.buffer[d] = @ \ hits],
                Inform(KnownListeners(p), s.listener, d,
                       <<PayloadOf(p)>> \o [i \in DOMAIN o |-> o[i].data]),
                heap \ {g.at : g \in hits},
                [Counted(p) EXCEPT !.numSeqNumberReOrdered = @ + Cardinality(hits)])

\* A sequence number below the expected one is taken for a retransmission.
SkipRetransmit(p) ==
    /\ IsFor(p) /\ p.len # 0
    /\ ~IsNext(p, Subject(p))
    /\ Subject(p).next[DirOf(p, Subject(p))] > p.seq
    /\ Finish(p, Subject(p), KnownListeners(p), heap,
         [Counted(p) EXCEPT !.numRetransmits = @ + 1])

\* One above it is kept for later ...
Hold(p) ==
    /\ IsFor(p) /\ p.len # 0
    /\ ~IsNext(p, Subject(p))
    /\ LET s == Subject(p)
           d == DirOf(p, s)
           g == [at |-> stats.numSeqNumberMismatch, data |-> PayloadOf(p)]
       IN  /\ s.next[d] <= p.seq
           /\ ~IsFull(s.buffer[d])
           /\ Finish(p, [s EXCEPT !.buffer[d] = @ \cup {g}], KnownListeners(p),
                heap \cup {g.at},
                [Counted(p) EXCEPT !.numSeqNumberMismatch = @ + 1])

\* ... unless the buffer is full: the stream is closed, and the handler
\* returns without a purge.
Overflow(p) ==
    /\ IsFor(p) /\ p.len # 0
    /\ ~IsNext(p, Subject(p))
    /\ LET s == Subject(p)
           d == DirOf(p, s)
       IN  /\ s.next[d] <= p.seq
           /\ IsFull(s.buffer[d])
           /\ CloseStreams(Store(p, s), {StreamId(p)}, KnownListeners(p), heap,
                [Counted(p) EXCEPT !.numErrors = @ + 1])
    /\ UNCHANGED <<alive, purgeCnt, now>>

OnIPv4Packet(p) ==
    \/ Collide(p)
    \/ Ignore(p)
    \/ NoPayload(p)
    \/ Deliver(p)
    \/ SkipRetransmit(p)
    \/ Hold(p)
    \/ Overflow(p)

\* gettimeofday() is the wall clock: it goes on, and may be set back.
Tick ==
    /\ \E t \in Clock : now' = t
    /\ UNCHANGED <<alive, streams, listeners, heap, stats, purgeCnt>>

\* ~TCPReassembler(): the remaining streams are closed, no counter moves.
Destroy ==
    /\ alive
    /\ alive' = FALSE
    /\ Release(streams, DOMAIN streams, listeners, heap)
    /\ UNCHANGED <<stats, purgeCnt, now>>

Init ==
    /\ alive = TRUE
    /\ streams = <<>>
    /\ listeners = <<>>
    /\ heap = {}
    /\ stats = NoStats
    /\ purgeCnt = 0
    /\ now = 0

Next ==
    \/ \E p \in Packet : OnIPv4Packet(p)
    \/ Tick
    \/ Destroy

Spec == Init /\ [][Next]_vars

-----------------------------------------------------------------------------
(* Types and properties *)

Stream ==
    [localPort : Nat, listener : Nat, lastActivityTs : Clock, numFIN : {0, 1},
     next : [Dirs -> SeqNumbers], buffer : [Dirs -> SUBSET Segment]]

Listener == [closes : Nat, data : [Dirs -> Seq(Payload)]]

Stats ==
    [numPackets : Nat, numIDCollision : Nat, numConnections : Nat,
     numOpenConnections : Int, numPurgedConnections : Nat, numPacketsIgnored : Nat,
     numSeqNumberMismatch : Nat, numSeqNumberReOrdered : Nat, numRetransmits : Nat,
     numErrors : Nat]

StreamOK(s) ==
    /\ s \in Stream
    /\ \A d \in Dirs : IsFiniteSet(s.buffer[d]) /\ Cardinality(s.buffer[d]) <= BufSize

\* Every variable has the type of its C++ counterpart; no buffer holds more
\* than TCP_SEQ_BUFFER_SIZE segments and no stream outlives its second FIN.
TypeOK ==
    /\ alive \in BOOLEAN
    /\ DOMAIN streams \subseteq Nat \X Nat
    /\ IsFiniteSet(DOMAIN streams)
    /\ \A id \in DOMAIN streams : StreamOK(streams[id])
    /\ listeners \in Seq(Listener)
    /\ heap \subseteq Nat
    /\ stats \in Stats
    /\ purgeCnt \in 0 .. PurgeEvery - 1
    /\ now \in Clock

\* The streams of a table own the open ones of some listeners, one each.
Owns(table, ls) ==
    /\ \A id \in DOMAIN table : table[id].listener \in DOMAIN ls
    /\ \A id1, id2 \in DOMAIN table :
          table[id1].listener = table[id2].listener => id1 = id2
    /\ \A l \in DOMAIN ls :
          ls[l].closes = IF \E id \in DOMAIN table : table[id].listener = l THEN 0 ELSE 1

\* A listener is open exactly as long as one stream owns it: no two streams
\* share one, every one is told of its end, and only once (the object is
\* deleted right after onClose()), whatever closes the stream: FIN, RST, a
\* colliding SYN, a full buffer, a purge or the destructor.
ListenerLifecycle == Owns(streams, listeners)

\* The counters agree with the map and with each other: numOpenConnections is
\* the number of streams the map holds, whatever opened and closed them, and
\* every purge, collision and error counted has closed a connection of its own.
OpenAccounting ==
    alive => /\ stats.numOpenConnections = Cardinality(DOMAIN streams)
             /\ stats.numConnections = Len(listeners)
             /\ stats.numPurgedConnections + stats.numIDCollision + stats.numErrors
                   <= stats.numConnections - stats.numOpenConnections

\* Every TCPBufferedSegment that exists sits in the buffer of one stream and
\* each buffered one exists: none leaks and none is deleted twice, whether it
\* is delivered later or dropped with its stream.
NoSegmentLeak ==
    /\ \A at \in heap : \E id \in DOMAIN streams : \E d \in Dirs :
          \E g \in streams[id].buffer[d] : g.at = at
    /\ \A id \in DOMAIN streams : \A d \in Dirs :
          \A g \in streams[id].buffer[d] : g.at \in heap
    /\ \A id1, id2 \in DOMAIN streams : \A d1, d2 \in Dirs :
          \A g \in streams[id1].buffer[d1], h \in streams[id2].buffer[d2] :
             g.at = h.at => id1 = id2 /\ d1 = d2 /\ g = h

\* A listener that was told of the end of its connection hears nothing more.
SilentAfterClose ==
    [][\A l \in DOMAIN listeners :
         listeners[l].closes > 0 => l \in DOMAIN listeners' /\ listeners'[l] = listeners[l]]_vars

\* Was this stream opened, changed or closed?
Touched(id) ==
    ~(id \in DOMAIN streams /\ id \in DOMAIN streams' /\ streams'[id] = streams[id])

\* Streams that have seen no packet for too long, or of the future
Overdue == {id \in DOMAIN streams : now - streams[id].lastActivityTs \notin 0 .. Timeout}

\* One packet acts on one connection: of the others, only those the purge
\* finds idle are closed, and no other changes.
OneStreamPerPacket ==
    [][alive' => \A id1, id2 \in (DOMAIN streams \cup DOMAIN streams') \ Overdue :
                 Touched(id1) /\ Touched(id2) => id1 = id2]_vars

\* No other connection has the sums of this one, of addresses and of ports.
HasOwnId(c) ==
    \A e \in Conns :
        /\ e.initIP + e.respIP = c.initIP + c.respIP
        /\ e.initPort + e.respPort = c.initPort + c.respPort
        => e = c

\* What a listener is given as one direction was sent by one end of one
\* connection, whatever other connections share an id or have one port at both
\* ends, unless it is a connection that does so itself: the code mixes those
\* that share an id (FIXME in onIPv4Packet()), and the directions of those that
\* have one port.
DirectionFaithful ==
    \A l \in DOMAIN listeners, d \in Dirs :
        \A i, j \in DOMAIN listeners[l].data[d] :
            LET a == listeners[l].data[d][i]
                b == listeners[l].data[d][j]
            IN  HasOwnId(a.conn) /\ a.conn.initPort # a.conn.respPort
                   => a.conn = b.conn /\ a.end = b.end

=============================================================================
