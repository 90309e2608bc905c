----------------------------- MODULE FileService -----------------------------
(***************************************************************************)
(* What a replay promises its clients: the files of a recording arrive     *)
(* completely and in the order of the recording, whatever the chunks, and  *)
(* nothing else does.                                                      *)
(***************************************************************************)
EXTENDS Naturals, Sequences

CONSTANTS
    Clients,
    Expected    \* what each client is to get, a sequence

VARIABLE delivered      \* what each client got so far

Init == delivered = [c \in Clients |-> <<>>]

\* A client gets some more of what it is to get.
Deliver(c) ==
    \E n \in Len(delivered[c]) + 1 .. Len(Expected[c]) :
        delivered' = [delivered EXCEPT ![c] = SubSeq(Expected[c], 1, n)]

Next == \E c \in Clients : Deliver(c)

Spec == Init /\ [][Next]_delivered

Complete == delivered = Expected
=============================================================================
