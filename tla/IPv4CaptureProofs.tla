-------------------------- MODULE IPv4CaptureProofs --------------------------
(***************************************************************************)
(* Proofs about IPv4Capture, for any datagrams, fragments, clock and purge *)
(* limit, as long as the sniffer sees orderly traffic.                     *)
(***************************************************************************)
EXTENDS IPv4Capture, FiniteSetTheorems, SequenceTheorems, TLAPS

\* What the code relies on and never checks: an id belongs to one datagram, the
\* fragments of a datagram do not overlap, and none is captured twice. (The run
\* ipv4_duplicate gives up the last.)
Orderly ==
    /\ MaxCopies = 1
    /\ \A d, e \in Datagrams : IdOf[d] = IdOf[e] => d = e
    /\ \A p, q \in Wire : p.of = q.of /\ p # q => PieceCells(p) \cap PieceCells(q) = {}

\* The fragments of every datagram are all of it.
Whole == \A d \in Datagrams : Cells(d) = UNION {PieceCells(p) : p \in Sent(d)}

\* What has been captured of a datagram, ever
Got(d) == UNION {PieceCells(p) : p \in Captured(d)}

-----------------------------------------------------------------------------
(* The inductive invariant *)

\* An assembly of the datagram d: it holds pieces of d only, and its counters
\* tell which.
AssemblyOf(a, d) ==
    /\ a \in Assembly
    /\ \A i \in BufferCells : a.buffer[i] \in {d, Uninit}
    /\ Filled(a) \subseteq Cells(d)
    /\ a.currentLength = Cardinality(Filled(a))
    /\ a.totalLength \in {0, Size[d]}
    /\ Size[d] - 1 \in Filled(a) => a.totalLength = Size[d]

\* What waits in the map under its id is of the datagram itself, has been
\* captured, and is all that was captured unless the datagram is late.
Assemblies ==
    /\ DOMAIN storage \subseteq {IdOf[d] : d \in Datagrams}
    /\ \A d \in Datagrams : IdOf[d] \in DOMAIN storage =>
          /\ AssemblyOf(storage[IdOf[d]], d)
          /\ Filled(storage[IdOf[d]]) # {}
          /\ Filled(storage[IdOf[d]]) \subseteq Got(d)
          /\ d \notin late => Filled(storage[IdOf[d]]) = Got(d)

\* What has been handed on is whole, has been captured, and comes once.
Deliveries ==
    /\ \A k \in DOMAIN delivered : \E d \in Datagrams :
          /\ delivered[k] = [header |-> d, cells |-> [i \in Cells(d) |-> d]]
          /\ Got(d) = Cells(d)
    /\ \A k, l \in DOMAIN delivered : delivered[k].header = delivered[l].header => k = l

\* Nothing captured is forgotten: it waits, was handed on, or was given up.
Remembered ==
    \A d \in Datagrams \ late : Got(d) # {} =>
        \/ IdOf[d] \in DOMAIN storage
        \/ \E k \in DOMAIN delivered : delivered[k].header = d

IInv ==
    /\ TypeOK
    /\ copies \in [Wire -> {0, 1}]
    /\ Assemblies
    /\ Deliveries
    /\ Remembered

-----------------------------------------------------------------------------
(* Pieces and assemblies *)

\* n cells in a row are n cells.
LEMMA CellsInARow ==
    ASSUME NEW o \in Nat, NEW n \in Nat
    PROVE  IsFiniteSet(o .. o + n - 1) /\ Cardinality(o .. o + n - 1) = n
  <1> DEFINE e == o + n - 1
  <1>1. o \in Int /\ e \in Int /\ n = IF o > e THEN 0 ELSE e - o + 1
    OBVIOUS
  <1> HIDE DEF e
  <1>2. IsFiniteSet(o .. e) /\ Cardinality(o .. e) = IF o > e THEN 0 ELSE e - o + 1
    BY <1>1, FS_Interval
  <1>3. IsFiniteSet(o .. e) /\ Cardinality(o .. e) = n
    BY <1>1, <1>2
  <1>4. QED
    BY <1>3 DEF e

\* A datagram is a finite number of cells.
LEMMA CellsOf ==
    ASSUME NEW d \in Datagrams
    PROVE  /\ Size[d] \in Nat \ {0}
           /\ Cells(d) \subseteq BufferCells
           /\ Cells(d) \subseteq Nat
           /\ Size[d] - 1 \in Cells(d)
           /\ IsFiniteSet(Cells(d)) /\ Cardinality(Cells(d)) = Size[d]
  <1>1. Size[d] \in Nat \ {0}
    BY DatagramAssumption
  <1>2. IsFiniteSet(Cells(d)) /\ Cardinality(Cells(d)) = Size[d]
    <2>1. Cells(d) = 0 .. 0 + Size[d] - 1
      BY <1>1 DEF Cells
    <2>2. IsFiniteSet(0 .. 0 + Size[d] - 1) /\ Cardinality(0 .. 0 + Size[d] - 1) = Size[d]
      BY <1>1, CellsInARow
    <2>3. QED
      BY <2>1, <2>2
  <1>3. Cells(d) \subseteq BufferCells
    BY DEF BufferCells
  <1>4. Size[d] - 1 \in Cells(d) /\ Cells(d) \subseteq Nat
    BY <1>1 DEF Cells
  <1>5. QED
    BY <1>1, <1>2, <1>3, <1>4

\* A fragment is a part of its datagram, not empty; only the last one reaches
\* its end, and it is the one that knows the length.
LEMMA PieceOf ==
    ASSUME NEW p \in Wire
    PROVE  /\ p.of \in Datagrams
           /\ PieceCells(p) \subseteq Cells(p.of)
           /\ PieceCells(p) # {}
           /\ IsFiniteSet(PieceCells(p)) /\ Cardinality(PieceCells(p)) = p.length
           /\ p.offset \in Nat /\ p.length \in Nat
           /\ More(p) <=> Size[p.of] - 1 \notin PieceCells(p)
           /\ ~More(p) => p.offset + p.length = Size[p.of]
           /\ IsUnfragmented(p) => PieceCells(p) = Cells(p.of)
  <1>1. p \in Packet
    BY WireAssumption
  <1>2. /\ p.of \in Datagrams /\ p.offset \in BufferCells
        /\ p.length \in {c + 1 : c \in BufferCells}
        /\ p.offset + p.length <= Size[p.of]
    BY <1>1 DEF Packet
  <1>3. BufferCells \subseteq Nat
    BY CellsOf DEF BufferCells
  <1>4. p.offset \in Nat /\ p.length \in Nat \ {0} /\ Size[p.of] \in Nat
    <2>1. PICK c \in BufferCells : p.length = c + 1
      BY <1>2
    <2>2. c \in Nat /\ p.length \in Nat \ {0}
      BY <1>3, <2>1
    <2>3. p.offset \in Nat
      BY <1>3, <1>2
    <2>4. Size[p.of] \in Nat
      BY <1>2, DatagramAssumption
    <2>5. QED
      BY <2>2, <2>3, <2>4
  <1>5. IsFiniteSet(PieceCells(p)) /\ Cardinality(PieceCells(p)) = p.length
    BY <1>4, CellsInARow DEF PieceCells
  <1>6. PieceCells(p) \subseteq Cells(p.of) /\ PieceCells(p) # {}
    <2>1. p.offset \in PieceCells(p)
      BY <1>4 DEF PieceCells
    <2>2. QED
      BY <1>2, <1>4, <2>1 DEF PieceCells, Cells
  <1>7. /\ More(p) <=> Size[p.of] - 1 \notin PieceCells(p)
        /\ ~More(p) => p.offset + p.length = Size[p.of]
        /\ IsUnfragmented(p) => PieceCells(p) = Cells(p.of)
    BY <1>2, <1>4, SMTT(30) DEF PieceCells, Cells, More, IsUnfragmented
  <1>8. QED
    BY <1>2, <1>4, <1>5, <1>6, <1>7

\* An assembly starts out empty.
LEMMA NewAssemblyOf ==
    ASSUME NEW d \in Datagrams
    PROVE  AssemblyOf(NewAssembly, d) /\ Filled(NewAssembly) = {}
  <1>1. NewAssembly \in Assembly
    BY DatagramAssumption DEF NewAssembly, Assembly
  <1>2. \A i \in BufferCells : NewAssembly.buffer[i] = Uninit
    BY DEF NewAssembly
  <1>3. Filled(NewAssembly) = {}
    BY <1>2 DEF Filled
  <1>4. Cardinality({}) = 0
    BY FS_EmptySet
  <1>5. QED
    BY <1>1, <1>2, <1>3, <1>4 DEF AssemblyOf, NewAssembly

\* The two counters decide: an assembly is complete when nothing is missing.
LEMMA CompleteIsFull ==
    ASSUME NEW d \in Datagrams, NEW a, AssemblyOf(a, d)
    PROVE  /\ IsComplete(a) <=> Filled(a) = Cells(d)
           /\ IsComplete(a) => a.currentLength = Size[d]
  <1>1. /\ Size[d] \in Nat \ {0} /\ Size[d] - 1 \in Cells(d)
        /\ IsFiniteSet(Cells(d)) /\ Cardinality(Cells(d)) = Size[d]
    BY CellsOf
  <1>2. Cardinality(Filled(a)) = Cardinality(Cells(d)) => Filled(a) = Cells(d)
    BY <1>1, FS_Subset DEF AssemblyOf
  <1>3. QED
    BY <1>1, <1>2 DEF AssemblyOf, IsComplete

\* Copying a piece that is not in the buffer yet keeps buffer and counters what
\* they should be.
LEMMA AppendedOf ==
    ASSUME NEW p \in Wire, NEW a, AssemblyOf(a, p.of), now \in Clock,
           PieceCells(p) \cap Filled(a) = {}
    PROVE  /\ AssemblyOf(Appended(a, p), p.of)
           /\ Filled(Appended(a, p)) = Filled(a) \cup PieceCells(p)
           /\ Appended(a, p).timeStamp = now
  <1> DEFINE d == p.of
             b == Appended(a, p)
  <1>1. /\ d \in Datagrams
        /\ PieceCells(p) \subseteq Cells(d)
        /\ IsFiniteSet(PieceCells(p)) /\ Cardinality(PieceCells(p)) = p.length
        /\ p.offset \in Nat /\ p.length \in Nat
        /\ More(p) <=> Size[d] - 1 \notin PieceCells(p)
        /\ ~More(p) => p.offset + p.length = Size[d]
    BY PieceOf
  <1>2. /\ Cells(d) \subseteq BufferCells /\ IsFiniteSet(Cells(d))
        /\ Size[d] \in Nat \ {0} /\ d # Uninit
    BY <1>1, CellsOf, DatagramAssumption
  <1>3. /\ a \in Assembly /\ a.currentLength = Cardinality(Filled(a))
        /\ Filled(a) \subseteq Cells(d) /\ a.totalLength \in {0, Size[d]}
        /\ \A i \in BufferCells : a.buffer[i] \in {d, Uninit}
        /\ Size[d] - 1 \in Filled(a) => a.totalLength = Size[d]
    BY DEF AssemblyOf
  <1>4. /\ b.buffer = [i \in BufferCells |-> IF i \in PieceCells(p) THEN d ELSE a.buffer[i]]
        /\ b.currentLength = a.currentLength + p.length
        /\ b.totalLength = IF More(p) THEN a.totalLength ELSE p.offset + p.length
        /\ b.timeStamp = now
    BY DEF Appended
  <1>5. Filled(b) = Filled(a) \cup PieceCells(p)
    <2> HIDE DEF b
    <2> QED BY <1>1, <1>2, <1>4 DEF Filled
  <1>6. b.currentLength = Cardinality(Filled(b))
    <2>1. IsFiniteSet(Filled(a))
      BY <1>2, <1>3, FS_Subset
    <2>2. Cardinality(Filled(a) \cap PieceCells(p)) = 0
      BY FS_EmptySet
    <2>3. Cardinality(Filled(a)) \in Nat
      BY <2>1, FS_CardinalityType
    <2>4. Cardinality(Filled(a) \cup PieceCells(p)) =
             Cardinality(Filled(a)) + Cardinality(PieceCells(p)) - Cardinality(Filled(a) \cap PieceCells(p))
      BY <1>1, <2>1, FS_Union, Zenon
    <2>a. Cardinality(Filled(a) \cup PieceCells(p)) = Cardinality(Filled(a)) + p.length
      BY <1>1, <2>2, <2>3, <2>4
    <2> HIDE DEF b
    <2>5. QED
      BY <1>3, <1>4, <1>5, <2>a
  <1>7. \A i \in BufferCells : b.buffer[i] \in {d, Uninit}
    <2> HIDE DEF b
    <2> QED BY <1>3, <1>4
  <1>8. b.totalLength \in {0, Size[d]} /\ (Size[d] - 1 \in Filled(b) => b.totalLength = Size[d])
    <2> HIDE DEF b
    <2> QED BY <1>1, <1>3, <1>4, <1>5
  <1>9. b \in Assembly
    <2>1. b.buffer \in [BufferCells -> Datagrams \cup {Uninit}]
      <3> HIDE DEF b
      <3> QED BY <1>1, <1>3, <1>4 DEF Assembly
    <2>2. b.currentLength \in Nat /\ b.totalLength \in Nat /\ b.timeStamp \in Clock
      <3> HIDE DEF b
      <3> QED BY <1>1, <1>2, <1>3, <1>4, <1>8 DEF Assembly
    <2>3. QED
      BY <2>1, <2>2 DEF Appended, Assembly
  <1>10. QED
    <2> HIDE DEF b, d
    <2>1. AssemblyOf(b, d)
      BY <1>1, <1>3, <1>5, <1>6, <1>7, <1>8, <1>9 DEF AssemblyOf
    <2>2. QED
      BY <2>1, <1>4, <1>5 DEF b, d

-----------------------------------------------------------------------------
(* One capture *)

\* The refinement mapping in the terms of the invariant
KeptIsRight ==
    \A d \in Datagrams :
        Kept(d) = IF IdOf[d] \in DOMAIN storage THEN Filled(storage[IdOf[d]]) ELSE {}

LEMMA KeptIsFilled == Assemblies => KeptIsRight
  <1> SUFFICES ASSUME Assemblies, NEW d \in Datagrams
               PROVE  Kept(d) = IF IdOf[d] \in DOMAIN storage THEN Filled(storage[IdOf[d]]) ELSE {}
    BY DEF KeptIsRight
  <1>1. CASE IdOf[d] \in DOMAIN storage
    <2> DEFINE a == storage[IdOf[d]]
    <2>1. AssemblyOf(a, d)
      BY <1>1 DEF Assemblies
    <2>2. {i \in Cells(d) : a.buffer[i] = d} = Filled(a)
      <3>1. d # Uninit /\ Cells(d) \subseteq BufferCells
        BY DatagramAssumption, CellsOf
      <3>2. QED
        BY <2>1, <3>1 DEF AssemblyOf, Filled
    <2>3. QED
      BY <1>1, <2>2 DEF Kept
  <1>2. CASE IdOf[d] \notin DOMAIN storage
    BY <1>2 DEF Kept
  <1>3. QED
    BY <1>1, <1>2

\* The same after a step
LEMMA KeptIsFilledNext == Assemblies' => KeptIsRight'
  BY KeptIsFilled, PTL

\* Only cells of the datagram itself are captured of it.
LEMMA GotIsCells ==
    ASSUME NEW d \in Datagrams
    PROVE  Got(d) \subseteq Cells(d)
  BY PieceOf DEF Got, Captured, Sent

\* In orderly traffic a fragment that comes brings only new cells, of a datagram
\* that was not handed on yet.
LEMMA FreshPiece ==
    ASSUME IInv, Orderly, NEW p \in Wire, copies[p] < MaxCopies
    PROVE  /\ PieceCells(p) \cap Got(p.of) = {}
           /\ \A k \in DOMAIN delivered : delivered[k].header # p.of
  <1>1. copies[p] = 0
    BY DEF IInv, Orderly
  <1>2. \A q \in Captured(p.of) : PieceCells(p) \cap PieceCells(q) = {}
    <2> TAKE q \in Captured(p.of)
    <2>1. q \in Wire /\ q.of = p.of /\ q # p
      BY <1>1 DEF Captured, Sent
    <2>2. QED
      BY <2>1 DEF Orderly
  <1>3. PieceCells(p) \cap Got(p.of) = {}
    BY <1>2 DEF Got
  <1>4. ASSUME NEW k \in DOMAIN delivered, delivered[k].header = p.of
        PROVE  FALSE
    <2>1. PICK d \in Datagrams : /\ delivered[k] = [header |-> d, cells |-> [i \in Cells(d) |-> d]]
                                 /\ Got(d) = Cells(d)
      BY DEF IInv, Deliveries
    <2>2. d = p.of
      BY <1>4, <2>1
    <2>3. QED
      BY <1>3, <2>1, <2>2, PieceOf
  <1>5. QED
    BY <1>3, <1>4

\* What a fragment is appended to
LEMMA FoundOf ==
    ASSUME IInv, NEW d \in Datagrams
    PROVE  /\ AssemblyOf(Found(IdOf[d]), d)
           /\ Filled(Found(IdOf[d])) = Kept(d)
           /\ Filled(Found(IdOf[d])) \subseteq Got(d)
           /\ d \notin late /\ IdOf[d] \in DOMAIN storage => Filled(Found(IdOf[d])) = Got(d)
  <1>1. CASE IdOf[d] \in DOMAIN storage
    <2>1. Found(IdOf[d]) = storage[IdOf[d]]
      BY <1>1 DEF Found
    <2>2. QED
      BY <1>1, <2>1, KeptIsFilled DEF IInv, Assemblies, KeptIsRight
  <1>2. CASE IdOf[d] \notin DOMAIN storage
    <2>1. Found(IdOf[d]) = NewAssembly
      BY <1>2 DEF Found
    <2>2. Kept(d) = {}
      BY <1>2 DEF Kept
    <2>3. QED
      BY <1>2, <2>1, <2>2, NewAssemblyOf
  <1>3. QED
    BY <1>1, <1>2

\* purgeOld() drops entries and changes none.
LEMMA PurgeDrops ==
    ASSUME NEW table
    PROVE  /\ DOMAIN Purged(table) = {i \in DOMAIN table : now - table[i].timeStamp \in 0 .. PurgeAfter}
           /\ \A i \in DOMAIN Purged(table) : Purged(table)[i] = table[i]
  BY DEF Purged

\* What a capture adds to what was captured
LEMMA CaptureGets ==
    ASSUME IInv, Orderly, NEW p \in Wire, Capture(p)
    PROVE  /\ copies' \in [Wire -> {0, 1}]
           /\ Got(p.of)' = Got(p.of) \cup PieceCells(p)
           /\ \A e \in Datagrams \ {p.of} : Got(e)' = Got(e)
  <1>1. copies[p] = 0 /\ copies \in [Wire -> {0, 1}] /\ copies' = [copies EXCEPT ![p] = 1]
    <2>1. copies \in [Wire -> {0, 1}] /\ MaxCopies = 1
      BY DEF IInv, Orderly
    <2>2. copies[p] < MaxCopies /\ copies' = [copies EXCEPT ![p] = copies[p] + 1]
      BY DEF Capture
    <2>3. copies[p] = 0
      BY <2>1, <2>2
    <2>4. QED
      BY <2>1, <2>2, <2>3
  <1>2. copies' \in [Wire -> {0, 1}]
    BY <1>1
  <1>3. Captured(p.of)' = Captured(p.of) \cup {p}
    BY <1>1 DEF Captured, Sent
  <1>4. \A e \in Datagrams \ {p.of} : Captured(e)' = Captured(e)
    BY <1>1 DEF Captured, Sent
  <1>5. QED
    BY <1>2, <1>3, <1>4 DEF Got

\* What a capture does to the assemblies: those of other datagrams are kept as
\* they are, or dropped when they are too old.
LEMMA OthersStay ==
    ASSUME NEW p \in Wire, Capture(p)
    PROVE  /\ \A j \in DOMAIN storage' \ {IdOf[p.of]} :
                 j \in DOMAIN storage /\ storage'[j] = storage[j]
           /\ \A j \in DOMAIN storage \ {IdOf[p.of]} :
                 now - storage[j].timeStamp \in 0 .. PurgeAfter => j \in DOMAIN storage'
           /\ now' = now
  <1> DEFINE id == IdOf[p.of]
             a == Appended(Found(id), p)
             others == [i \in DOMAIN storage \ {id} |-> storage[i]]
             all == [i \in DOMAIN storage \cup {id} |-> IF i = id THEN a ELSE storage[i]]
  <1>1. \/ storage' = Purged(storage)
        \/ storage' = Purged(others)
        \/ storage' = Purged(all)
    BY DEF Capture, OnPacket, Forward, Collect
  <1>2. now' = now
    BY DEF Capture, OnPacket, Forward, Collect
  <1>3. \A table \in {storage, others, all} :
           /\ \A j \in DOMAIN table \ {id} : j \in DOMAIN storage /\ table[j] = storage[j]
           /\ \A j \in DOMAIN storage \ {id} : j \in DOMAIN table
    <2> HIDE DEF a, id
    <2> QED OBVIOUS
  <1> HIDE DEF others, all, id
  <1>4. PICK table \in {storage, others, all} : storage' = Purged(table)
    BY <1>1
  <1>5. /\ DOMAIN storage' = {i \in DOMAIN table : now - table[i].timeStamp \in 0 .. PurgeAfter}
        /\ \A i \in DOMAIN storage' : storage'[i] = table[i]
    BY <1>4, PurgeDrops
  <1>6. \A j \in DOMAIN storage' \ {id} : j \in DOMAIN storage /\ storage'[j] = storage[j]
    BY <1>3, <1>5
  <1>7. \A j \in DOMAIN storage \ {id} :
           now - storage[j].timeStamp \in 0 .. PurgeAfter => j \in DOMAIN storage'
    BY <1>3, <1>5
  <1>8. QED
    BY <1>2, <1>6, <1>7 DEF id

\* What a capture does to its own datagram: either this completes it, and it is
\* handed on as it was sent and leaves the map, or its assembly grows.
Completes(p) ==
    /\ Got(p.of)' = Cells(p.of)
    /\ Kept(p.of) \cup PieceCells(p) = Cells(p.of)
    /\ IdOf[p.of] \notin DOMAIN storage'
    /\ delivered' = Append(delivered, [header |-> p.of, cells |-> [i \in Cells(p.of) |-> p.of]])

Grows(p) ==
    /\ Kept(p.of) \cup PieceCells(p) # Cells(p.of)
    /\ IdOf[p.of] \in DOMAIN storage'
    /\ storage'[IdOf[p.of]] = Appended(Found(IdOf[p.of]), p)
    /\ delivered' = delivered

LEMMA CaptureStep ==
    ASSUME IInv, Orderly, NEW p \in Wire, Capture(p)
    PROVE  /\ AssemblyOf(Appended(Found(IdOf[p.of]), p), p.of)
           /\ Filled(Appended(Found(IdOf[p.of]), p)) = Kept(p.of) \cup PieceCells(p)
           /\ Completes(p) \/ Grows(p)
  <1> DEFINE d == p.of
             id == IdOf[d]
             a == Appended(Found(id), p)
  <1>1. /\ d \in Datagrams /\ PieceCells(p) \subseteq Cells(d) /\ PieceCells(p) # {}
        /\ IsUnfragmented(p) => PieceCells(p) = Cells(d)
    BY PieceOf
  <1>2. copies[p] < MaxCopies /\ OnPacket(p)
    BY DEF Capture
  <1>3. PieceCells(p) \cap Got(d) = {}
    BY <1>2, FreshPiece
  <1>4. /\ AssemblyOf(Found(id), d) /\ Filled(Found(id)) = Kept(d)
        /\ Filled(Found(id)) \subseteq Got(d)
    BY <1>1, FoundOf
  <1>5. now \in Clock
    BY DEF IInv, TypeOK
  <1>6. /\ AssemblyOf(a, d) /\ Filled(a) = Kept(d) \cup PieceCells(p) /\ a.timeStamp = now
    <2>1. PieceCells(p) \cap Filled(Found(id)) = {}
      BY <1>3, <1>4
    <2>2. QED
      BY <1>4, <1>5, <2>1, AppendedOf
  <1>7. Got(d)' = Got(d) \cup PieceCells(p) /\ Got(d) \subseteq Cells(d)
    BY <1>1, CaptureGets, GotIsCells
  <1>8. CASE Forward(p)
    <2>1. PieceCells(p) = Cells(d)
      BY <1>1, <1>8 DEF Forward
    <2>2. Kept(d) = {} /\ id \notin DOMAIN storage
      <3>1. Kept(d) = {}
        BY <1>3, <1>4, <1>7, <2>1
      <3>2. QED
        BY <1>1, <1>4, <3>1, KeptIsFilled DEF IInv, Assemblies, KeptIsRight
    <2>3. storage' = Purged(storage)
      BY <1>8 DEF Forward
    <2>4. id \notin DOMAIN storage'
      BY <2>2, <2>3, PurgeDrops
    <2>5. delivered' = Append(delivered, [header |-> d, cells |-> [i \in Cells(d) |-> d]])
      BY <1>8, <2>1 DEF Forward
    <2>6. Completes(p)
      BY <1>7, <2>1, <2>2, <2>4, <2>5 DEF Completes
    <2>7. QED
      BY <1>6, <2>6
  <1>9. CASE Collect(p) /\ IsComplete(a)
    <2>1. Filled(a) = Cells(d) /\ a.currentLength = Size[d]
      BY <1>1, <1>6, <1>9, CompleteIsFull
    <2>2. Assembled(a, p) = [header |-> d, cells |-> [i \in Cells(d) |-> d]]
      <3>1. 0 .. a.currentLength - 1 = Cells(d)
        BY <2>1 DEF Cells
      <3>2. \A i \in Cells(d) : a.buffer[i] = d
        BY <1>6, <2>1 DEF AssemblyOf, Filled
      <3>3. Assembled(a, p) = [header |-> d, cells |-> [i \in Cells(d) |-> a.buffer[i]]]
        BY <3>1 DEF Assembled
      <3> HIDE DEF a, d
      <3>4. QED
        BY <3>2, <3>3
    <2> DEFINE others == [i \in DOMAIN storage \ {id} |-> storage[i]]
    <2>3. delivered' = Append(delivered, Assembled(a, p)) /\ storage' = Purged(others)
      BY <1>9 DEF Collect
    <2>4. id \notin DOMAIN storage'
      <3>1. id \notin DOMAIN others
        OBVIOUS
      <3> HIDE DEF others
      <3>2. QED
        BY <2>3, <3>1, PurgeDrops
    <2>5. Got(d)' = Cells(d) /\ Kept(d) \cup PieceCells(p) = Cells(d)
      BY <1>1, <1>4, <1>6, <1>7, <2>1
    <2>6. Completes(p)
      BY <2>2, <2>3, <2>4, <2>5 DEF Completes
    <2>7. QED
      BY <1>6, <2>6
  <1>10. CASE Collect(p) /\ ~IsComplete(a)
    <2> DEFINE all == [i \in DOMAIN storage \cup {id} |-> IF i = id THEN a ELSE storage[i]]
    <2>1. delivered' = delivered /\ storage' = Purged(all)
      BY <1>10 DEF Collect
    <2>2. id \in DOMAIN all /\ all[id] = a
      <3> HIDE DEF a
      <3> QED OBVIOUS
    <2>3. now - a.timeStamp \in 0 .. PurgeAfter
      BY <1>5, <1>6, DatagramAssumption
    <2> HIDE DEF all
    <2>4. id \in DOMAIN storage' /\ storage'[id] = a
      BY <2>1, <2>2, <2>3, PurgeDrops
    <2>5. Kept(d) \cup PieceCells(p) # Cells(d)
      BY <1>1, <1>6, <1>10, CompleteIsFull
    <2>6. Grows(p)
      BY <2>1, <2>4, <2>5 DEF Grows
    <2>7. QED
      BY <1>6, <2>6
  <1>11. QED
    BY <1>2, <1>8, <1>9, <1>10 DEF OnPacket

-----------------------------------------------------------------------------
(* The invariant is kept *)

\* A datagram handed on as it was sent is of the type of what is handed on.
LEMMA HandedOn ==
    ASSUME NEW d \in Datagrams
    PROVE  [header |-> d, cells |-> [i \in Cells(d) |-> d]] \in
             [header : Datagrams,
              cells : UNION {[0 .. n - 1 -> Datagrams \cup {Uninit}] : n \in 0 .. Cardinality(BufferCells)}]
  <1> DEFINE cells == [i \in Cells(d) |-> d]
             n == Size[d]
             Texts(m) == [0 .. m - 1 -> Datagrams \cup {Uninit}]
  <1>1. cells \in Texts(n)
    BY DEF Cells
  <1>2. n \in 0 .. Cardinality(BufferCells)
    <2>1. n \in Nat /\ n = Cardinality(Cells(d)) /\ Cells(d) \in SUBSET BufferCells
      BY CellsOf
    <2>2. Cardinality(Cells(d)) <= Cardinality(BufferCells) /\ Cardinality(BufferCells) \in Nat
      BY <2>1, BufferAssumption, FS_Subset, FS_CardinalityType
    <2> HIDE DEF n
    <2>3. QED
      BY <2>1, <2>2
  <1> HIDE DEF cells, n, Texts
  <1>3. cells \in UNION {Texts(m) : m \in 0 .. Cardinality(BufferCells)}
    BY <1>1, <1>2
  <1>4. QED
    BY <1>3 DEF cells, Texts

\* Nothing waits at the start.
LEMMA CaptureInitially == CaptureInit /\ Orderly => IInv
  <1> SUFFICES ASSUME CaptureInit PROVE IInv
    OBVIOUS
  <1>1. storage = <<>> /\ delivered = <<>> /\ now = 0 /\ copies = [p \in Wire |-> 0] /\ late = {}
    BY DEF CaptureInit, Init
  <1>2. DOMAIN storage = {} /\ DOMAIN delivered = {}
    BY <1>1
  <1>3. \A d \in Datagrams : Got(d) = {}
    BY <1>1 DEF Got, Captured, Sent
  <1>4. TypeOK
    BY <1>1, <1>2, DatagramAssumption DEF TypeOK
  <1>5. copies \in [Wire -> {0, 1}]
    BY <1>1
  <1>6. Assemblies /\ Deliveries /\ Remembered
    BY <1>2, <1>3 DEF Assemblies, Deliveries, Remembered
  <1>7. QED
    BY <1>4, <1>5, <1>6 DEF IInv

\* Time alone, or nothing at all, changes no assembly.
LEMMA WaitKeeps == IInv /\ (Wait \/ UNCHANGED captureVars) => IInv'
  <1> SUFFICES ASSUME IInv, Wait \/ UNCHANGED captureVars PROVE IInv'
    OBVIOUS
  <1>1. /\ storage' = storage /\ delivered' = delivered /\ copies' = copies /\ late' = late
        /\ now' \in Clock
    BY DEF Wait, Tick, captureVars, IInv, TypeOK
  <1>2. \A d \in Datagrams : Got(d)' = Got(d)
    BY <1>1 DEF Got, Captured
  <1>3. TypeOK'
    BY <1>1 DEF IInv, TypeOK
  <1>4. Assemblies'
    BY <1>1, <1>2 DEF IInv, Assemblies
  <1>5. Deliveries' /\ Remembered'
    BY <1>1, <1>2 DEF IInv, Deliveries, Remembered
  <1>6. QED
    BY <1>1, <1>3, <1>4, <1>5 DEF IInv

\* What is handed on stays so, and at most this capture's datagram is added.
LEMMA CaptureDelivers ==
    ASSUME IInv, Orderly, NEW p \in Wire, Capture(p)
    PROVE  /\ Deliveries'
           /\ \A k \in DOMAIN delivered : k \in DOMAIN delivered' /\ delivered'[k] = delivered[k]
           /\ Completes(p) => \E k \in DOMAIN delivered' : delivered'[k].header = p.of
           /\ delivered' \in Seq([header : Datagrams,
                 cells : UNION {[0 .. n - 1 -> Datagrams \cup {Uninit}] : n \in 0 .. Cardinality(BufferCells)}])
  <1> DEFINE Handed == [header : Datagrams,
                 cells : UNION {[0 .. n - 1 -> Datagrams \cup {Uninit}] : n \in 0 .. Cardinality(BufferCells)}]
             whole(d) == [header |-> d, cells |-> [i \in Cells(d) |-> d]]
  <1>1. Completes(p) \/ Grows(p)
    BY CaptureStep
  <1>2. delivered \in Seq(Handed)
    BY DEF IInv, TypeOK
  <1>3. p.of \in Datagrams /\ whole(p.of) \in Handed
    BY PieceOf, HandedOn
  <1>4. \A k \in DOMAIN delivered : delivered[k].header # p.of
    BY FreshPiece DEF Capture
  <1>5. \A e \in Datagrams \ {p.of} : Got(e)' = Got(e)
    BY CaptureGets
  <1>6. \A k \in DOMAIN delivered : \E d \in Datagrams \ {p.of} :
           delivered[k] = whole(d) /\ Got(d)' = Cells(d)
    <2> TAKE k \in DOMAIN delivered
    <2>1. PICK d \in Datagrams : delivered[k] = whole(d) /\ Got(d) = Cells(d)
      BY DEF IInv, Deliveries
    <2>2. d # p.of
      BY <1>4, <2>1
    <2>3. QED
      BY <1>5, <2>1, <2>2
  <1>7. \A k, l \in DOMAIN delivered : delivered[k].header = delivered[l].header => k = l
    BY DEF IInv, Deliveries
  <1>8. CASE Grows(p)
    <2>1. delivered' = delivered
      BY <1>8 DEF Grows
    <2>2. ~Completes(p)
      BY <1>8 DEF Grows, Completes
    <2>3. Deliveries'
      BY <1>6, <1>7, <2>1 DEF Deliveries
    <2>4. QED
      BY <1>2, <2>1, <2>2, <2>3
  <1>9. CASE Completes(p)
    <2> DEFINE n == Len(delivered) + 1
    <2>1. delivered' = Append(delivered, whole(p.of)) /\ Got(p.of)' = Cells(p.of)
      BY <1>9 DEF Completes
    <2> HIDE DEF Handed
    <2>2. /\ delivered' \in Seq(Handed)
          /\ DOMAIN delivered = 1 .. Len(delivered) /\ Len(delivered) \in Nat
          /\ DOMAIN delivered' = 1 .. n
          /\ \A k \in 1 .. Len(delivered) : delivered'[k] = delivered[k]
          /\ delivered'[n] = whole(p.of)
      <3> HIDE DEF whole
      <3> QED BY <1>2, <1>3, <2>1, AppendProperties, LenProperties
    <2>3. \A k \in DOMAIN delivered' : k \in DOMAIN delivered \/ k = n
      BY <2>2
    <2>4. n \in DOMAIN delivered' /\ n \notin DOMAIN delivered
      BY <2>2
    <2> HIDE DEF n
    <2>5. \A k \in DOMAIN delivered' : \E d \in Datagrams :
             delivered'[k] = whole(d) /\ Got(d)' = Cells(d)
      BY <1>3, <1>6, <2>1, <2>2, <2>3
    <2>6. \A k, l \in DOMAIN delivered' : delivered'[k].header = delivered'[l].header => k = l
      <3>1. whole(p.of).header = p.of
        OBVIOUS
      <3> HIDE DEF whole
      <3>2. QED
        BY <1>4, <1>7, <2>2, <2>3, <3>1
    <2>7. Deliveries'
      BY <2>5, <2>6 DEF Deliveries
    <2>8. delivered'[n].header = p.of
      BY <2>2
    <2>9. QED
      BY <2>2, <2>4, <2>7, <2>8 DEF Handed
  <1>10. QED
    BY <1>1, <1>8, <1>9

\* Different datagrams, different entries: what a capture does to the entry of
\* another datagram.
LEMMA OtherEntries ==
    ASSUME Orderly, NEW p \in Wire, Capture(p), NEW e \in Datagrams \ {p.of}
    PROVE  /\ IdOf[e] # IdOf[p.of]
           /\ IdOf[e] \in DOMAIN storage' =>
                 IdOf[e] \in DOMAIN storage /\ storage'[IdOf[e]] = storage[IdOf[e]]
           /\ e \notin late' /\ IdOf[e] \in DOMAIN storage => IdOf[e] \in DOMAIN storage'
           /\ e \notin late' => e \notin late
  <1>1. IdOf[e] # IdOf[p.of]
    BY PieceOf DEF Orderly
  <1>2. late' = late \cup Overdue
    BY DEF Capture
  <1>3. e \notin late' /\ IdOf[e] \in DOMAIN storage =>
           now - storage[IdOf[e]].timeStamp \in 0 .. PurgeAfter
    BY <1>2 DEF Overdue
  <1>4. QED
    BY <1>1, <1>2, <1>3, OthersStay

\* Every capture of orderly traffic keeps the invariant.
LEMMA CaptureKeeps ==
    ASSUME IInv, Orderly, NEW p \in Wire, Capture(p)
    PROVE  IInv'
  <1> DEFINE d == p.of
             id == IdOf[d]
             a == Appended(Found(id), p)
  <1>1. d \in Datagrams /\ id \in Ids /\ PieceCells(p) # {}
    BY PieceOf, DatagramAssumption
  <1>2. /\ AssemblyOf(a, d) /\ Filled(a) = Kept(d) \cup PieceCells(p)
        /\ Completes(p) \/ Grows(p)
    BY CaptureStep
  <1>3. /\ copies' \in [Wire -> {0, 1}]
        /\ Got(d)' = Got(d) \cup PieceCells(p)
        /\ \A e \in Datagrams \ {d} : Got(e)' = Got(e)
    BY CaptureGets
  <1>4. /\ \A j \in DOMAIN storage' \ {id} : j \in DOMAIN storage /\ storage'[j] = storage[j]
        /\ now' = now
    BY OthersStay
  <1>5. id \in DOMAIN storage' =>
           /\ storage'[id] = a /\ ~IsComplete(a)
           /\ delivered' = delivered
    <2>1. Grows(p) => ~IsComplete(a)
      BY <1>1, <1>2, CompleteIsFull DEF Grows
    <2>2. QED
      BY <1>2, <2>1 DEF Completes, Grows
  <1>6. late \subseteq late'
    BY DEF Capture
  <1>7. /\ Deliveries'
        /\ \A k \in DOMAIN delivered : k \in DOMAIN delivered' /\ delivered'[k] = delivered[k]
        /\ Completes(p) => \E k \in DOMAIN delivered' : delivered'[k].header = d
        /\ delivered' \in Seq([header : Datagrams,
              cells : UNION {[0 .. n - 1 -> Datagrams \cup {Uninit}] : n \in 0 .. Cardinality(BufferCells)}])
    BY CaptureDelivers
  <1>8. \A k \in DOMAIN delivered : delivered[k].header # d
    BY FreshPiece DEF Capture
  <1> HIDE DEF a
  <1>9. TypeOK'
    <2>1. DOMAIN storage' \subseteq Ids
      BY <1>1, <1>4 DEF IInv, TypeOK
    <2>2. \A j \in DOMAIN storage' : storage'[j] \in Assembly /\ ~IsComplete(storage'[j])
      <3> TAKE j \in DOMAIN storage'
      <3>1. CASE j = id
        BY <1>2, <1>5, <3>1 DEF AssemblyOf
      <3>2. CASE j # id
        BY <1>4, <3>2 DEF IInv, TypeOK
      <3>3. QED
        BY <3>1, <3>2
    <2>3. now' \in Clock
      BY <1>4 DEF IInv, TypeOK
    <2>4. QED
      BY <1>7, <2>1, <2>2, <2>3 DEF TypeOK
  <1>10. Assemblies'
    <2>1. DOMAIN storage' \subseteq {IdOf[e] : e \in Datagrams}
      BY <1>1, <1>4 DEF IInv, Assemblies
    <2>2. ASSUME NEW e \in Datagrams, IdOf[e] \in DOMAIN storage'
          PROVE  /\ AssemblyOf(storage'[IdOf[e]], e)
                 /\ Filled(storage'[IdOf[e]]) # {}
                 /\ Filled(storage'[IdOf[e]]) \subseteq Got(e)'
                 /\ e \notin late' => Filled(storage'[IdOf[e]]) = Got(e)'
      <3>1. CASE e # d
        <4>1. /\ IdOf[e] \in DOMAIN storage /\ storage'[IdOf[e]] = storage[IdOf[e]]
              /\ Got(e)' = Got(e) /\ (e \notin late' => e \notin late)
          BY <1>3, <2>2, <3>1, OtherEntries
        <4>2. QED
          BY <4>1 DEF IInv, Assemblies
      <3>2. CASE e = d
        <4>1. storage'[id] = a
          BY <1>5, <2>2, <3>2
        <4>2. /\ Filled(Found(id)) = Kept(d) /\ Kept(d) \subseteq Got(d)
              /\ d \notin late /\ id \in DOMAIN storage => Kept(d) = Got(d)
          BY <1>1, FoundOf
        <4>3. d \notin late => Kept(d) = Got(d)
          <5>1. d \notin late /\ id \notin DOMAIN storage => Got(d) = {}
            BY <1>1, <1>8 DEF IInv, Remembered
          <5>2. id \notin DOMAIN storage => Kept(d) = {}
            BY DEF Kept
          <5>3. QED
            BY <4>2, <5>1, <5>2
        <4>4. QED
          BY <1>1, <1>2, <1>3, <1>6, <3>2, <4>1, <4>2, <4>3
      <3>3. QED
        BY <3>1, <3>2
    <2>3. QED
      BY <2>1, <2>2 DEF Assemblies
  <1>11. Remembered'
    <2> SUFFICES ASSUME NEW e \in Datagrams, e \notin late', Got(e)' # {}
                 PROVE  \/ IdOf[e] \in DOMAIN storage'
                        \/ \E k \in DOMAIN delivered' : delivered'[k].header = e
      BY DEF Remembered
    <2>1. CASE e # d
      <3>1. e \notin late /\ (IdOf[e] \in DOMAIN storage => IdOf[e] \in DOMAIN storage')
        BY <2>1, OtherEntries
      <3>2. \/ IdOf[e] \in DOMAIN storage
            \/ \E k \in DOMAIN delivered : delivered[k].header = e
        BY <1>3, <2>1, <3>1 DEF IInv, Remembered
      <3>3. QED
        BY <1>7, <3>1, <3>2
    <2>2. CASE e = d
      BY <1>2, <1>7, <2>2 DEF Grows
    <2>3. QED
      BY <2>1, <2>2
  <1>12. QED
    BY <1>3, <1>7, <1>9, <1>10, <1>11 DEF IInv

\* In orderly traffic the invariant holds throughout.
LEMMA Invariant ==
    ASSUME Orderly
    PROVE  CaptureSpec => []IInv
  <1>1. CaptureInit => IInv
    BY CaptureInitially
  <1>2. IInv /\ [CaptureNext]_captureVars => IInv'
    <2> SUFFICES ASSUME IInv, [CaptureNext]_captureVars PROVE IInv'
      OBVIOUS
    <2>1. CASE \E p \in Wire : Capture(p)
      BY <2>1, CaptureKeeps
    <2>2. CASE Wait \/ UNCHANGED captureVars
      BY <2>2, WaitKeeps
    <2>3. QED
      BY <2>1, <2>2 DEF CaptureNext
  <1>3. QED
    BY <1>1, <1>2, PTL DEF CaptureSpec

-----------------------------------------------------------------------------
(* What follows *)

\* The two counters of every assembly say what is in its buffer, so comparing
\* them is as good as looking for holes.
THEOREM CountersTell ==
    ASSUME Orderly
    PROVE  CaptureSpec => []CountersTellTheBuffer
  <1>1. IInv => CountersTellTheBuffer
    <2> SUFFICES ASSUME IInv, NEW id \in DOMAIN storage
                 PROVE  /\ storage[id].currentLength = Cardinality(Filled(storage[id]))
                        /\ \A i \in Filled(storage[id]) :
                              storage[id].totalLength \in {0, Size[storage[id].buffer[i]]}
      BY DEF IInv, CountersTellTheBuffer
    <2>1. PICK d \in Datagrams : id = IdOf[d]
      BY DEF IInv, Assemblies
    <2>2. AssemblyOf(storage[id], d)
      BY <2>1 DEF IInv, Assemblies
    <2>3. \A i \in Filled(storage[id]) : storage[id].buffer[i] = d
      BY <2>2 DEF AssemblyOf, Filled
    <2>4. QED
      BY <2>2, <2>3 DEF AssemblyOf
  <1>2. QED
    BY <1>1, Invariant, PTL

\* Every byte that is handed on comes from the datagram whose header it has.
THEOREM OnlyReceivedBytes ==
    ASSUME Orderly
    PROVE  CaptureSpec => []AssembledWasReceived
  <1>1. IInv => AssembledWasReceived
    <2> SUFFICES ASSUME IInv, NEW k \in DOMAIN delivered, NEW i \in DOMAIN delivered[k].cells
                 PROVE  delivered[k].cells[i] = delivered[k].header
      BY DEF AssembledWasReceived
    <2>1. PICK d \in Datagrams : delivered[k] = [header |-> d, cells |-> [c \in Cells(d) |-> d]]
      BY DEF IInv, Deliveries
    <2>2. QED
      BY <2>1
  <1>2. QED
    BY <1>1, Invariant, PTL

\* A datagram whose fragments were all captured is handed on exactly once,
\* whatever came in between, unless its assembly grew too old.
THEOREM OnceEach ==
    ASSUME Orderly, Whole
    PROVE  CaptureSpec => []DeliveredOnce
  <1>1. IInv => DeliveredOnce
    <2> SUFFICES ASSUME IInv, NEW d \in Datagrams
                 PROVE  LET times == Cardinality({k \in DOMAIN delivered : delivered[k].header = d})
                        IN  times <= 1 /\ (Captured(d) = Sent(d) /\ d \notin late => times = 1)
      BY DEF DeliveredOnce
    <2> DEFINE those == {k \in DOMAIN delivered : delivered[k].header = d}
    <2>1. CASE \E k \in DOMAIN delivered : delivered[k].header = d
      <3>1. PICK k \in DOMAIN delivered : delivered[k].header = d
        BY <2>1
      <3>2. those = {k}
        BY <3>1 DEF IInv, Deliveries
      <3>3. Cardinality(those) = 1
        BY <3>2, FS_Singleton
      <3>4. QED
        BY <3>3
    <2>2. CASE ~\E k \in DOMAIN delivered : delivered[k].header = d
      <3>1. Cardinality(those) = 0
        <4>1. those = {}
          BY <2>2
        <4>2. QED
          BY <4>1, FS_EmptySet
      <3>2. ASSUME Captured(d) = Sent(d), d \notin late
            PROVE  FALSE
        <4>1. Got(d) = Cells(d) /\ Cells(d) # {}
          BY <3>2, CellsOf DEF Whole, Got
        <4>2. IdOf[d] \in DOMAIN storage
          BY <2>2, <3>2, <4>1 DEF IInv, Remembered
        <4>3. AssemblyOf(storage[IdOf[d]], d) /\ Filled(storage[IdOf[d]]) = Cells(d)
          BY <3>2, <4>1, <4>2 DEF IInv, Assemblies
        <4>4. IsComplete(storage[IdOf[d]])
          BY <4>3, CompleteIsFull
        <4>5. QED
          BY <4>2, <4>4 DEF IInv, TypeOK
      <3>3. QED
        BY <3>1, <3>2
    <2>3. QED
      BY <2>1, <2>2
  <1>2. QED
    BY <1>1, Invariant, PTL

\* The start of the reassembler is a start of the service.
LEMMA ServiceStart == CaptureInit => Promise!ServiceInit
  <1> SUFFICES ASSUME CaptureInit PROVE Promise!ServiceInit
    OBVIOUS
  <1>1. DOMAIN storage = {} /\ delivered = <<>>
    BY DEF CaptureInit, Init
  <1>2. \A d \in Datagrams : Kept(d) = {}
    BY <1>1 DEF Kept
  <1>3. QED
    BY <1>1, <1>2 DEF Promise!ServiceInit

\* A capture is a piece that arrives at the service, which gives up the
\* datagrams whose assemblies the purge drops.
LEMMA CaptureArrives ==
    ASSUME IInv, Orderly, NEW p \in Wire, Capture(p)
    PROVE  Promise!ServiceNext
  <1> DEFINE d == p.of
             id == IdOf[d]
             a == Appended(Found(id), p)
             lost == {e \in Datagrams : IdOf[e] \notin DOMAIN storage'}
             got == Kept(d) \cup PieceCells(p)
  <1>1. d \in Datagrams /\ PieceCells(p) \subseteq Cells(d)
    BY PieceOf
  <1>2. Filled(a) = got /\ (Completes(p) \/ Grows(p))
    BY CaptureStep
  <1>3. IInv'
    BY CaptureKeeps
  <1>4. \A e \in Datagrams : Kept(e)' = IF IdOf[e] \in DOMAIN storage' THEN Filled(storage'[IdOf[e]]) ELSE {}
    BY <1>3, KeptIsFilledNext DEF IInv, KeptIsRight
  <1>5. \A e \in Datagrams : Kept(e) = IF IdOf[e] \in DOMAIN storage THEN Filled(storage[IdOf[e]]) ELSE {}
    BY KeptIsFilled DEF IInv, KeptIsRight
  <1>6. Kept(d)' = IF got = Cells(d) THEN {} ELSE got
    <2>1. CASE Completes(p)
      BY <1>1, <1>4, <2>1 DEF Completes
    <2>2. CASE Grows(p)
      BY <1>1, <1>2, <1>4, <2>2 DEF Grows
    <2>3. QED
      BY <1>2, <2>1, <2>2
  <1>7. \A e \in Datagrams \ {d} : Kept(e)' = IF e \in lost THEN {} ELSE Kept(e)
    <2> TAKE e \in Datagrams \ {d}
    <2>1. IdOf[e] \in DOMAIN storage' =>
             IdOf[e] \in DOMAIN storage /\ storage'[IdOf[e]] = storage[IdOf[e]]
      BY OtherEntries
    <2>2. QED
      BY <1>4, <1>5, <2>1
  <1>8. delivered' = IF got = Cells(d)
                     THEN Append(delivered, [header |-> d, cells |-> [i \in Cells(d) |-> d]])
                     ELSE delivered
    BY <1>2 DEF Completes, Grows
  <1> DEFINE have == [e \in Datagrams |-> Kept(e)]
  <1>9. have[d] = Kept(d) /\ \A e \in Datagrams : have[e] = Kept(e)
    BY <1>1
  <1>10. have' = [e \in Datagrams |->
                    IF e = d THEN (IF got = Cells(d) THEN {} ELSE got)
                    ELSE IF e \in lost THEN {} ELSE have[e]]
    <2>1. have' = [e \in Datagrams |-> Kept(e)']
      OBVIOUS
    <2> HIDE DEF have, got, lost
    <2>2. QED
      BY <1>6, <1>7, <1>9, <2>1
  <1>11. Promise!Arrive(d, PieceCells(p), lost)
    <2> HIDE DEF lost
    <2>1. have[d] \cup PieceCells(p) = got
      BY <1>9
    <2>2. QED
      BY <1>8, <1>10, <2>1 DEF Promise!Arrive, Promise!Cells, Promise!WholeOf, Cells
  <1>12. PieceCells(p) \in SUBSET Promise!Cells(d) /\ lost \in SUBSET Datagrams
    BY <1>1 DEF Promise!Cells, Cells
  <1> HIDE DEF lost
  <1>13. QED
    BY <1>1, <1>11, <1>12 DEF Promise!ServiceNext

\* In orderly traffic the reassembler does what the service promises, step by
\* step: a capture is an arrival, and waiting is a stutter.
THEOREM Implements ==
    ASSUME Orderly
    PROVE  CaptureSpec => ImplementsService
  <1>1. CaptureInit => Promise!ServiceInit
    BY ServiceStart
  <1>2. IInv /\ [CaptureNext]_captureVars =>
           [Promise!ServiceNext]_<<[d \in Datagrams |-> Kept(d)], delivered>>
    <2> SUFFICES ASSUME IInv, [CaptureNext]_captureVars
                 PROVE  \/ Promise!ServiceNext
                        \/ UNCHANGED <<[d \in Datagrams |-> Kept(d)], delivered>>
      OBVIOUS
    <2>1. CASE \E p \in Wire : Capture(p)
      BY <2>1, CaptureArrives
    <2>2. CASE Wait \/ UNCHANGED captureVars
      <3>1. storage' = storage /\ delivered' = delivered
        BY <2>2 DEF Wait, Tick, captureVars
      <3>2. \A d \in Datagrams : Kept(d)' = Kept(d)
        BY <3>1 DEF Kept
      <3>3. QED
        BY <3>1, <3>2
    <2>3. QED
      BY <2>1, <2>2 DEF CaptureNext
  <1>3. QED
    BY <1>1, <1>2, Invariant, PTL DEF CaptureSpec, ImplementsService, Promise!Service

=============================================================================
