--------------------------- MODULE DatagramService ---------------------------
(***************************************************************************)
(* What the reassembly of IPv4 datagrams promises to the layer above: a    *)
(* datagram is handed on in one piece, once everything of it has arrived   *)
(* and with nothing else in it; an incomplete one may be given up.         *)
(***************************************************************************)
EXTENDS Naturals, Sequences

CONSTANTS
    Datagrams,
    Size        \* the length of each datagram

VARIABLES
    have,       \* what has arrived of each datagram that is not complete
    delivered   \* what the layer above was given

Cells(d) == 0 .. Size[d] - 1

WholeOf(d) == [header |-> d, cells |-> [i \in Cells(d) |-> d]]

\* A piece of d arrives; it may complete d, and others may be given up.
Arrive(d, piece, lost) ==
    LET got == have[d] \cup piece
    IN  /\ delivered' = IF got = Cells(d) THEN Append(delivered, WholeOf(d)) ELSE delivered
        /\ have' = [e \in Datagrams |->
              IF e = d THEN (IF got = Cells(d) THEN {} ELSE got)
              ELSE IF e \in lost THEN {} ELSE have[e]]

ServiceInit ==
    /\ have = [d \in Datagrams |-> {}]
    /\ delivered = <<>>

ServiceNext ==
    \E d \in Datagrams : \E piece \in SUBSET Cells(d), lost \in SUBSET Datagrams :
        Arrive(d, piece, lost)

Service == ServiceInit /\ [][ServiceNext]_<<have, delivered>>

=============================================================================
