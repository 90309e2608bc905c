---------------------------- MODULE MCIPv4Capture ----------------------------
(* Three datagrams: one in three fragments, one in two, one in one piece.  *)
EXTENDS IPv4Capture, TLC

CONSTANTS d1, d2, d3

Frag(d, o, n) == [of |-> d, offset |-> o, length |-> n]

MCDatagrams == {d1, d2, d3}
MCSize == (d1 :> 4) @@ (d2 :> 2) @@ (d3 :> 1)
MCWire == {Frag(d1, 0, 1), Frag(d1, 1, 2), Frag(d1, 3, 1),
           Frag(d2, 0, 1), Frag(d2, 1, 1), Frag(d3, 0, 1)}
MCClock == 0 .. 3

\* An id for each of them
MCIds == 1 .. 3
MCIdOf == (d1 :> 1) @@ (d2 :> 2) @@ (d3 :> 3)

=============================================================================
