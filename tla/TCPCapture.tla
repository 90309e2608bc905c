----------------------------- MODULE TCPCapture -----------------------------
(***************************************************************************)
(* TCPReassembler on the packets of real TCP connections, as a sniffer     *)
(* sees them: each end numbers its SYN, its bytes and its FIN from an      *)
(* initial sequence number and sends them in segments, some of them more   *)
(* than once and cut differently; the sniffer gets any of them, in any     *)
(* order, any number of times up to MaxCopies, or never.                   *)
(***************************************************************************)
EXTENDS TCPReassembler

CONSTANTS
    ISN,        \* initial sequence number of each end of each connection
    Cuts,       \* the segments of each end: [from, len] ranges of its bytes
    MaxCopies,  \* bound: how often one packet is captured
    MaxPackets  \* bound: packets captured in one behaviour

EndOf(r) == r.from + r.len

\* No end sends so much that its sequence numbers come round, so that one says
\* which byte it stands for.
ASSUME CaptureAssumption ==
    /\ ISN \in [Conns -> [Ends -> SeqNumbers]]
    /\ Cuts \in [Conns -> [Ends -> SUBSET [from : Nat, len : 1 .. MaxLen]]]
    /\ \A c \in Conns, e \in Ends : \A r \in Cuts[c][e] : EndOf(r) < SeqSpace
    /\ MaxCopies \in Nat
    /\ MaxPackets \in Nat

VARIABLES
    copies,     \* how often each packet has been captured
    first,      \* the first packet captured of each connection
    orderly     \* has what was captured of an end been in order up to now?

wireVars == <<copies, first, orderly>>

\* The number of bytes an end sends
Size(c, e) ==
    IF Cuts[c][e] = {} THEN 0
    ELSE EndOf(CHOOSE r \in Cuts[c][e] : \A q \in Cuts[c][e] : EndOf(q) <= EndOf(r))

\* Sequence number of byte number n of an end, counted from 0, and back
SeqAt(c, e, n) == (ISN[c][e] + 1 + n) % SeqSpace
Offset(x) == (x.seq - ISN[x.conn][x.end] - 1) % SeqSpace

Send(c, e, f, q, n) == [conn |-> c, end |-> e, flags |-> f, seq |-> q, len |-> n]

Opening(c, e) == Send(c, e, IF e = "init" THEN {"SYN"} ELSE {"SYN", "ACK"}, ISN[c][e], 0)
Data(c, e, r) == Send(c, e, {"ACK"}, SeqAt(c, e, r.from), r.len)
Closing(c, e) == Send(c, e, {"FIN", "ACK"}, SeqAt(c, e, Size(c, e)), 0)

\* What an end sends, and everything that is sent
Packets(c, e) == {Opening(c, e), Closing(c, e)} \cup {Data(c, e, r) : r \in Cuts[c][e]}
Wire == UNION {Packets(c, e) : c \in Conns, e \in Ends}

\* Bytes of an end captured without a hole before them
Captured(c, e) == {r \in Cuts[c][e] : copies[Data(c, e, r)] > 0}
CapturedBytes(c, e) == UNION {r.from .. EndOf(r) - 1 : r \in Captured(c, e)}
Top(c, e) == CHOOSE n \in 0 .. Size(c, e) :
                /\ 0 .. n - 1 \subseteq CapturedBytes(c, e)
                /\ n \notin CapturedBytes(c, e)

\* A packet captured in order: the first of its end opens the connection,
\* nothing opens it again, and data goes on where the data before it ended
\* or repeats what was there.
InOrder(p) ==
    LET top == Top(p.conn, p.end)
        opened == copies[Opening(p.conn, p.end)]
    IN  IF "SYN" \in p.flags
        THEN opened = 0 /\ top = 0
        ELSE opened = 1 /\ (Offset(p) = top \/ Offset(p) + p.len <= top)

Capture(p) ==
    /\ copies[p] < MaxCopies
    /\ stats.numPackets < MaxPackets
    /\ OnIPv4Packet(p)
    /\ copies' = [copies EXCEPT ![p] = @ + 1]
    /\ first' = [first EXCEPT ![p.conn] = IF @ = {} THEN {p} ELSE @]
    /\ orderly' = [orderly EXCEPT ![p.conn][p.end] = @ /\ InOrder(p)]

CaptureInit ==
    /\ Init
    /\ copies = [p \in Wire |-> 0]
    /\ first = [c \in Conns |-> {}]
    /\ orderly = [c \in Conns |-> [e \in Ends |-> TRUE]]

CaptureNext == \E p \in Wire : Capture(p)

CaptureSpec == CaptureInit /\ [][CaptureNext]_<<vars, wireVars>>

-----------------------------------------------------------------------------
(* Properties *)

\* What the listeners of a connection were given, for each of them
Given(l, d) == listeners[l].data[d]
Covered(l, d, i) == UNION {Offset(Given(l, d)[k]) .. Offset(Given(l, d)[k]) + Given(l, d)[k].len - 1 : k \in 1 .. i}

DirFrom(e) == IF e = "init" THEN "fromInitiator" ELSE "toInitiator"

\* The connection was seen from its start and its SYN only once
WellOpened(c) == first[c] = {Opening(c, "init")} /\ copies[Opening(c, "init")] = 1

OpenListeners(c) ==
    {streams[id].listener : id \in {i \in DOMAIN streams : i = StreamId([conn |-> c])}}

\* No holes: whatever is lost, repeated, cut anew or captured out of order, a
\* listener never gets a byte before it got all bytes in front of it, so a
\* protocol decoder on top of it never parses across a gap.
GapFree ==
    \A l \in DOMAIN listeners, d \in Dirs :
        \A i \in DOMAIN Given(l, d) :
            LET x == Given(l, d)[i]
            IN  0 .. Offset(x) - 1 \subseteq Covered(l, d, i - 1)

\* Captured in order, with any number of retransmissions, a direction reaches
\* the listener complete and each byte once, for as long as the stream is open.
OrderlyIsComplete ==
    \A c \in Conns, e \in Ends : \A l \in OpenListeners(c) :
        orderly[c][e] /\ WellOpened(c) =>
            LET given == Given(l, DirFrom(e))
            IN  /\ Covered(l, DirFrom(e), Len(given)) = 0 .. Top(c, e) - 1
                /\ \A i, j \in DOMAIN given : i < j =>
                      Offset(given[i]) + given[i].len <= Offset(given[j])

\* A connection whose SYN and both FINs were captured is not tracked any more:
\* a finished connection does not wait for the purge.
FinishedIsClosed ==
    \A c \in Conns :
        (WellOpened(c) /\ \A e \in Ends : copies[Closing(c, e)] > 0)
            => OpenListeners(c) = {}

\* Everything captured without a hole before it, each packet only once, has
\* been passed on, whatever the order it was captured in.
CapturedIsDelivered ==
    \A c \in Conns, e \in Ends : \A l \in OpenListeners(c) :
        WellOpened(c) /\ copies[Opening(c, e)] = 1 /\ (\A p \in Wire : copies[p] <= 1)
        => Covered(l, DirFrom(e), Len(Given(l, DirFrom(e)))) = 0 .. Top(c, e) - 1

=============================================================================
