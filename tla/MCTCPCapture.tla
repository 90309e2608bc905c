---------------------------- MODULE MCTCPCapture ----------------------------
(* One connection: four segments from the initiator, one of them a         *)
(* retransmission cut anew, across the wrap of the sequence numbers, and   *)
(* one segment of the other end.                                           *)
EXTENDS TCPCapture

MCConns == {[initIP |-> 1, respIP |-> 2, initPort |-> 5, respPort |-> 80]}

MCISN == [c \in MCConns |-> [init |-> 13, resp |-> 3]]
MCCuts == [c \in MCConns |->
             [init |-> {[from |-> 0, len |-> 1], [from |-> 1, len |-> 1],
                        [from |-> 2, len |-> 1], [from |-> 0, len |-> 2]},
              resp |-> {[from |-> 0, len |-> 1]}]]
\* Three segments of one end, cut once, and no wrap.
MCPlainISN == [c \in MCConns |-> [init |-> 1, resp |-> 3]]
MCPlainCuts == [c \in MCConns |->
                  [init |-> {[from |-> 0, len |-> 1], [from |-> 1, len |-> 1],
                             [from |-> 2, len |-> 1]},
                   resp |-> {}]]
MCClock == {0}

=============================================================================
