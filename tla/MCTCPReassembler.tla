-------------------------- MODULE MCTCPReassembler --------------------------
(* TCPReassembler with arbitrary packets of a few connections.             *)
EXTENDS TCPReassembler

CONSTANT MaxPackets  \* bound: packets handled in one behaviour

MCSharing == [initIP |-> 1, respIP |-> 2, initPort |-> 79, respPort |-> 81]

\* Three connections of the same hosts: one with an id of its own, and two that
\* share one, of which one has equal ports.
MCConns ==
    {[initIP |-> 1, respIP |-> 2, initPort |-> 5, respPort |-> 80],
     [initIP |-> 1, respIP |-> 2, initPort |-> 80, respPort |-> 80],
     MCSharing}

MCClock == 0 .. 2

Seg(c, e, f, q, n) == [conn |-> c, end |-> e, flags |-> f, seq |-> q, len |-> n]

\* What is sent: SYNs with and without payload, SYN-ACKs, data in and out of
\* order, FINs of both ends, resets. Of MCSharing what it takes to collide, and a
\* byte that may come behind one of the connection it collides with.
MCPackets ==
    {Seg(MCSharing, "init", {"SYN"}, 0, 0), Seg(MCSharing, "resp", {"SYN", "ACK"}, 0, 0),
     Seg(MCSharing, "resp", {"ACK"}, 2, 1)} \cup
    {p \in Packet :
        /\ p.conn # MCSharing
        /\ \/ p.flags = {"SYN"} /\ p.end = "init" /\ p.seq = 0
           \/ p.flags = {"SYN", "ACK"} /\ p.end = "resp" /\ p.seq = 0 /\ p.len = 0
           \/ p.flags = {"ACK"} /\ p.len > 0 /\ p.seq \in (IF p.end = "init" THEN 1 .. 3 ELSE {1})
           \/ p.flags = {"FIN", "ACK"} /\ p.seq = 1 /\ p.len = 0
           \/ p.flags = {"RST"} /\ p.end = "init" /\ p.seq = 0 /\ p.len = 0}

MCNext ==
    \/ /\ stats.numPackets < MaxPackets
       /\ \E p \in MCPackets : OnIPv4Packet(p)
    \/ Tick
    \/ Destroy

MCSpec == Init /\ [][MCNext]_vars

=============================================================================
