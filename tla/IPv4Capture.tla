----------------------------- MODULE IPv4Capture -----------------------------
(***************************************************************************)
(* IPv4Reassembler on the fragments of real datagrams: each datagram was   *)
(* cut into some fragments, and the sniffer sees any of them, in any order *)
(* and mixed with those of other datagrams, up to MaxCopies times.         *)
(***************************************************************************)
EXTENDS IPv4Reassembler

CONSTANTS
    Wire,       \* the fragments that are sent
    MaxCopies   \* bound: how often one fragment is captured

ASSUME WireAssumption == Wire \subseteq Packet /\ MaxCopies \in Nat

VARIABLES
    copies,     \* how often each fragment has been captured
    late        \* datagrams that had to wait too long at some packet

captureVars == <<storage, delivered, now, copies, late>>

Sent(d) == {p \in Wire : p.of = d}
Captured(d) == {p \in Sent(d) : copies[p] > 0}

\* Datagrams whose assembly is too old to live through a purge
Overdue == {d \in Datagrams : /\ IdOf[d] \in DOMAIN storage
                              /\ now - storage[IdOf[d]].timeStamp \notin 0 .. PurgeAfter}

Capture(p) ==
    /\ copies[p] < MaxCopies
    /\ OnPacket(p)
    /\ copies' = [copies EXCEPT ![p] = @ + 1]
    /\ late' = late \cup Overdue

Wait == Tick /\ UNCHANGED <<copies, late>>

CaptureInit ==
    /\ Init
    /\ copies = [p \in Wire |-> 0]
    /\ late = {}

CaptureNext == (\E p \in Wire : Capture(p)) \/ Wait

CaptureSpec == CaptureInit /\ [][CaptureNext]_captureVars

-----------------------------------------------------------------------------
(* Properties *)

Filled(a) == {i \in BufferCells : a.buffer[i] # Uninit}

\* What a datagram has in the map
Kept(d) == IF IdOf[d] \in DOMAIN storage
           THEN {i \in Cells(d) : storage[IdOf[d]].buffer[i] = d}
           ELSE {}

\* The counters of an assembly say what is in its buffer: currentLength is the
\* number of cells filled, and totalLength, once known, the length of the
\* datagram, so comparing the two numbers decides whether there is a hole.
CountersTellTheBuffer ==
    /\ TypeOK
    /\ \A id \in DOMAIN storage :
          /\ storage[id].currentLength = Cardinality(Filled(storage[id]))
          /\ \A i \in Filled(storage[id]) :
                storage[id].totalLength \in {0, Size[storage[id].buffer[i]]}

\* With each fragment captured at most once and no id in use twice, the code
\* does what DatagramService promises, although it never looks at the buffer
\* but only compares two counters.
Promise == INSTANCE DatagramService WITH have <- [d \in Datagrams |-> Kept(d)]
ImplementsService == Promise!Service

\* Then a datagram all of whose fragments were captured is handed on exactly
\* once, in whatever order they came, unless its assembly grew too old.
DeliveredOnce ==
    \A d \in Datagrams :
        LET times == Cardinality({k \in DOMAIN delivered : delivered[k].header = d})
        IN  /\ times <= 1
            /\ Captured(d) = Sent(d) /\ d \notin late => times = 1

\* What is handed on has been received: every byte of it comes from the
\* datagram whose header it has.
AssembledWasReceived ==
    \A k \in DOMAIN delivered : \A i \in DOMAIN delivered[k].cells :
        delivered[k].cells[i] = delivered[k].header

=============================================================================
