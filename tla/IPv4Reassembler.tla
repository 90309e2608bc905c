--------------------------- MODULE IPv4Reassembler ---------------------------
(***************************************************************************)
(* The IPv4 reassembler of NetAnalyzer (network/processors): fragments are *)
(* copied into one buffer per IPv4 id, received bytes are counted, and the *)
(* datagram is handed on when the count reaches the length that the last   *)
(* fragment told. Lengths and offsets are counted in cells (of 8 bytes);   *)
(* a cell holds the datagram its content was copied from.                  *)
(***************************************************************************)
EXTENDS Integers, Sequences, FiniteSets

CONSTANTS
    Datagrams,  \* the datagrams that are sent
    Ids,        \* IPv4 ids (uint16_t)
    IdOf,       \* the id each datagram was sent with
    Size,       \* the length of each datagram
    Uninit,     \* a cell nothing was copied to
    PurgeAfter, \* PURGE_AFTER_MS
    Clock       \* the readings of getTimeStampMS()

ASSUME DatagramAssumption ==
    /\ IdOf \in [Datagrams -> Ids]
    /\ Size \in [Datagrams -> Nat \ {0}]
    /\ Uninit \notin Datagrams
    /\ PurgeAfter \in Nat
    /\ Clock \subseteq Nat
    /\ 0 \in Clock

VARIABLES
    storage,    \* std::map<uint16_t, IPv4Assembled*>
    delivered,  \* the datagrams the listeners were informed of
    now         \* getTimeStampMS()

vars == <<storage, delivered, now>>

Cells(d) == 0 .. Size[d] - 1

\* The buffer has room for any datagram; it is an array of a fixed size.
BufferCells == UNION {Cells(d) : d \in Datagrams}

ASSUME BufferAssumption == IsFiniteSet(BufferCells)

\* The fragments a datagram can be sent in
Packet ==
    {p \in [of : Datagrams, offset : BufferCells, length : {c + 1 : c \in BufferCells}] :
        p.offset + p.length <= Size[p.of]}

PieceCells(p) == p.offset .. p.offset + p.length - 1

\* moreFragements(): all fragments but the last have more to come.
More(p) == p.offset + p.length < Size[p.of]

IsUnfragmented(p) == p.offset = 0 /\ ~More(p)

-----------------------------------------------------------------------------

NewAssembly ==
    [buffer |-> [i \in BufferCells |-> Uninit], currentLength |-> 0,
     totalLength |-> 0, timeStamp |-> 0]

\* Found by the id alone, however old it is, or created
Found(id) == IF id \in DOMAIN storage THEN storage[id] ELSE NewAssembly

\* Mutant of Appended: the total length without the offset.
AppendedAtZero(a, p) ==
    [buffer |-> [i \in BufferCells |-> IF i \in PieceCells(p) THEN p.of ELSE a.buffer[i]],
     currentLength |-> a.currentLength + p.length,
     totalLength |-> IF More(p) THEN a.totalLength ELSE p.length,
     timeStamp |-> now]

\* memcpy() to the fragment's offset; its length is added to currentLength
\* and, if it is the last one, tells totalLength.
Appended(a, p) ==
    [buffer |-> [i \in BufferCells |-> IF i \in PieceCells(p) THEN p.of ELSE a.buffer[i]],
     currentLength |-> a.currentLength + p.length,
     totalLength |-> IF More(p) THEN a.totalLength ELSE p.offset + p.length,
     timeStamp |-> now]

\* Mutant of IsComplete: the last fragment is taken for the end.
IsEnded(a) == a.totalLength # 0

IsComplete(a) == a.totalLength # 0 /\ a.totalLength = a.currentLength

\* The temporary packet: the header of the fragment that came last and the
\* first currentLength cells of the buffer.
Assembled(a, p) ==
    [header |-> p.of, cells |-> [i \in 0 .. a.currentLength - 1 |-> a.buffer[i]]]

\* Mutant of Purged: off by one.
PurgedEarly(table) ==
    [id \in {i \in DOMAIN table : now - table[i].timeStamp \in 0 .. PurgeAfter - 1} |-> table[id]]

\* purgeOld(): the age is a uint64_t, one below zero is huge.
Purged(table) ==
    [id \in {i \in DOMAIN table : now - table[i].timeStamp \in 0 .. PurgeAfter} |-> table[id]]

\* A datagram in one piece is handed on as it is.
Forward(p) ==
    /\ IsUnfragmented(p)
    /\ delivered' = Append(delivered, [header |-> p.of, cells |-> [i \in PieceCells(p) |-> p.of]])
    /\ storage' = Purged(storage)
    /\ UNCHANGED now

Collect(p) ==
    /\ ~IsUnfragmented(p)
    /\ LET id == IdOf[p.of]
           a == Appended(Found(id), p)
           others == [i \in DOMAIN storage \ {id} |-> storage[i]]
       IN  IF IsComplete(a)
           THEN /\ delivered' = Append(delivered, Assembled(a, p))
                /\ storage' = Purged(others)
           ELSE /\ storage' = Purged([i \in DOMAIN storage \cup {id} |->
                                         IF i = id THEN a ELSE storage[i]])
                /\ UNCHANGED delivered
    /\ UNCHANGED now

OnPacket(p) == Forward(p) \/ Collect(p)

\* gettimeofday(): the wall clock
Tick ==
    /\ \E t \in Clock : now' = t
    /\ UNCHANGED <<storage, delivered>>

Init ==
    /\ storage = <<>>
    /\ delivered = <<>>
    /\ now = 0

Next == (\E p \in Packet : OnPacket(p)) \/ Tick

Spec == Init /\ [][Next]_vars

-----------------------------------------------------------------------------

Assembly ==
    [buffer : [BufferCells -> Datagrams \cup {Uninit}], currentLength : Nat,
     totalLength : Nat, timeStamp : Clock]

\* Every variable has the type of its C++ counterpart, and no assembly waits
\* in the map that its counters call complete.
TypeOK ==
    /\ DOMAIN storage \subseteq Ids
    /\ \A id \in DOMAIN storage : storage[id] \in Assembly /\ ~IsComplete(storage[id])
    /\ delivered \in Seq([header : Datagrams,
                         cells : UNION {[0 .. n - 1 -> Datagrams \cup {Uninit}] : n \in 0 .. Cardinality(BufferCells)}])
    /\ now \in Clock

=============================================================================
