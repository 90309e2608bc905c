-------------------------- MODULE ReplayInvariant --------------------------
(***************************************************************************)
(* The invariant of a replay, what it needs to know of recordings and      *)
(* sequences, and the types that follow from it.                           *)
(*                                                                         *)
(* It follows what is asked from the client to the server, and a file from *)
(* the server, its compressor and the stream of the connection to the      *)
(* client. Where an induction is needed, it is one on the least            *)
(* counterexample. ReplayProofs shows that every step keeps it.            *)
(***************************************************************************)
EXTENDS Replay, SequenceLemmas, FiniteSetTheorems, FunctionTheorems
-----------------------------------------------------------------------------
(* Sorted keys *)

Increasing(s, n) == \A i, j \in 1 .. n : i < j => s[i] < s[j]

Enumerable(S) == \E s \in [1 .. Cardinality(S) -> S] : Increasing(s, Cardinality(S))

\* Every finite set of numbers can be sorted: the least of them comes first, and
\* the others are fewer.
LEMMA CanBeSorted ==
    ASSUME NEW S, S \subseteq Nat, IsFiniteSet(S)
    PROVE  Enumerable(S)
  <1> DEFINE T == {n \in Nat : \E U \in SUBSET Nat :
                     IsFiniteSet(U) /\ Cardinality(U) = n /\ ~Enumerable(U)}
  <1>1. SUFFICES T = {}
    BY FS_CardinalityType
  <1>2. SUFFICES ASSUME T # {} PROVE FALSE
    OBVIOUS
  <1>3. PICK m \in T : \A n \in T : m <= n
    BY <1>2, LeastExists
  <1>4. PICK U \in SUBSET Nat : IsFiniteSet(U) /\ Cardinality(U) = m /\ ~Enumerable(U)
    OBVIOUS
  <1>5. U # {}
    <2> SUFFICES ASSUME U = {} PROVE FALSE
      OBVIOUS
    <2>1. m = 0
      BY <1>4, FS_EmptySet
    <2>2. [i \in 1 .. 0 |-> 0] \in [1 .. m -> U]
      BY <2>1
    <2>3. Increasing([i \in 1 .. 0 |-> 0], m)
      BY <2>1 DEF Increasing
    <2> QED
      BY <2>2, <2>3, <1>4 DEF Enumerable
  <1>6. PICK a \in U : \A n \in U : a <= n
    BY <1>5, LeastExists
  <1> DEFINE V == U \ {a}
  <1>7. IsFiniteSet(V) /\ Cardinality(V) = m - 1 /\ m \in Nat /\ m - 1 \in Nat
    <2>1. IsFiniteSet(V) /\ Cardinality(V) = Cardinality(U) - 1
      BY <1>4, <1>6, FS_RemoveElement
    <2>2. Cardinality(V) \in Nat
      BY <2>1, FS_CardinalityType
    <2> QED
      BY <1>4, <2>1, <2>2
  <1>8. Enumerable(V)
    <2>1. m - 1 \notin T
      BY <1>3, <1>7
    <2>2. V \in SUBSET Nat
      OBVIOUS
    <2> HIDE DEF V
    <2> QED
      BY <2>1, <2>2, <1>7
  <1>9. PICK s \in [1 .. m - 1 -> V] : Increasing(s, m - 1)
    BY <1>7, <1>8 DEF Enumerable
  <1> DEFINE r == [i \in 1 .. m |-> IF i = 1 THEN a ELSE s[i - 1]]
  <1>10. \A i \in 1 .. m : i # 1 => i - 1 \in 1 .. m - 1 /\ s[i - 1] \in U /\ s[i - 1] # a
    BY <1>7, <1>9
  <1>11. r \in [1 .. m -> U]
    BY <1>10, <1>6
  <1>12. Increasing(r, m)
    <2> SUFFICES ASSUME NEW i \in 1 .. m, NEW j \in 1 .. m, i < j PROVE r[i] < r[j]
      BY DEF Increasing
    <2>1. j # 1 /\ r[j] = s[j - 1] /\ r[j] \in U /\ r[j] # a
      BY <1>10
    <2>2. CASE i = 1
      <3>1. r[i] = a /\ a <= r[j] /\ a \in Nat /\ r[j] \in Nat
        BY <2>1, <2>2, <1>6
      <3> QED
        BY <3>1, <2>1
    <2>3. CASE i # 1
      <3>1. r[i] = s[i - 1] /\ i - 1 < j - 1
        BY <2>3
      <3>2. i - 1 \in 1 .. m - 1 /\ j - 1 \in 1 .. m - 1
        BY <2>1, <2>3, <1>10
      <3>3. s[i - 1] < s[j - 1]
        BY <3>1, <3>2, <1>9 DEF Increasing
      <3> QED
        BY <3>1, <3>3, <2>1
    <2> QED
      BY <2>2, <2>3
  <1> QED
    BY <1>4, <1>11, <1>12 DEF Enumerable

\* What Sorted() returns: every element once, each larger than the ones before
LEMMA SortedIs ==
    ASSUME NEW S, S \subseteq Nat, IsFiniteSet(S)
    PROVE  /\ Cardinality(S) \in Nat
           /\ Sorted(S) \in [1 .. Cardinality(S) -> S]
           /\ \A i, j \in 1 .. Cardinality(S) : i < j => Sorted(S)[i] < Sorted(S)[j]
           /\ \A x \in S : \E i \in 1 .. Cardinality(S) : Sorted(S)[i] = x
  <1> DEFINE n == Cardinality(S)
             s == Sorted(S)
  <1>1. n \in Nat
    BY FS_CardinalityType
  <1>2. s \in [1 .. n -> S] /\ \A i, j \in 1 .. n : i < j => s[i] < s[j]
    BY CanBeSorted DEF Enumerable, Increasing, Sorted
  <1> HIDE DEF s
  <1>3. s \in Injection(1 .. n, S)
    <2>1. ASSUME NEW i \in 1 .. n, NEW j \in 1 .. n, i # j PROVE s[i] # s[j]
      <3>1. s[i] \in Nat /\ s[j] \in Nat
        BY <1>2
      <3>2. i < j \/ j < i
        BY <2>1
      <3> QED
        BY <3>1, <3>2, <1>2
    <2> QED
      BY <2>1, <1>2 DEF Injection, IsInjective
  <1>4. Cardinality(1 .. n) = n
    BY <1>1, FS_Interval
  <1>5. s \in Surjection(1 .. n, S)
    BY <1>3, <1>4, FS_Injection
  <1> QED
    BY <1>1, <1>2, <1>5 DEF Surjection, s

-----------------------------------------------------------------------------
(* The recording *)

TimeStamps(c) == {Recording[c][i].at : i \in DOMAIN Recording[c]}

\* The lines of a recording are numbered from 1, and there are some.
LEMMA RecordingIs ==
    ASSUME NEW c \in Clients
    PROVE  /\ Len(Recording[c]) \in Nat \ {0}
           /\ DOMAIN Recording[c] = 1 .. Len(Recording[c])
           /\ \A i \in DOMAIN Recording[c] :
                Recording[c][i].at \in Nat /\ Recording[c][i].file \in DOMAIN Size
  <1> DEFINE L == [at : Nat, file : DOMAIN Size]
             r == Recording[c]
  <1>1. r \in Seq(L) /\ r # <<>>
    BY RecordingAssumption
  <1> HIDE DEF L, r
  <1>2. Len(r) \in Nat \ {0} /\ DOMAIN r = 1 .. Len(r)
    BY <1>1, EmptySeq, LenProperties
  <1>3. ASSUME NEW i \in DOMAIN r PROVE r[i] \in L
    BY <1>1, <1>2, ElementOfSeq
  <1>4. \A i \in DOMAIN r : r[i].at \in Nat /\ r[i].file \in DOMAIN Size
    BY <1>3 DEF L
  <1> QED
    BY <1>2, <1>4 DEF r

\* There are finitely many time stamps.
LEMMA TimeStampsAre ==
    ASSUME NEW c \in Clients
    PROVE  /\ IsFiniteSet(TimeStamps(c)) /\ TimeStamps(c) \subseteq Nat
           /\ Cardinality(TimeStamps(c)) \in Nat \ {0}
  <1> DEFINE f == [i \in DOMAIN Recording[c] |-> Recording[c][i].at]
  <1>1. f \in Surjection(DOMAIN Recording[c], TimeStamps(c))
    BY DEF Surjection, TimeStamps
  <1>2. IsFiniteSet(DOMAIN Recording[c])
    BY RecordingIs, FS_Interval
  <1>3. IsFiniteSet(TimeStamps(c))
    BY <1>1, <1>2, FS_Surjection
  <1>4. TimeStamps(c) # {} /\ TimeStamps(c) \subseteq Nat
    <2>1. 1 \in DOMAIN Recording[c]
      BY RecordingIs
    <2> QED
      BY <2>1, RecordingIs DEF TimeStamps
  <1>5. Cardinality(TimeStamps(c)) \in Nat /\ Cardinality(TimeStamps(c)) # 0
    BY <1>3, <1>4, FS_CardinalityType, FS_EmptySet
  <1> QED
    BY <1>3, <1>4, <1>5

\* The keys of the map: the time stamps, in their order
LEMMA TimesAre ==
    ASSUME NEW c \in Clients
    PROVE  /\ Times(c) \in [1 .. Cardinality(TimeStamps(c)) -> TimeStamps(c)]
           /\ DOMAIN Times(c) = 1 .. Cardinality(TimeStamps(c))
           /\ \A i, j \in DOMAIN Times(c) : i < j => Times(c)[i] < Times(c)[j]
           /\ \A i \in DOMAIN Times(c) : Times(c)[i] \in Nat
           /\ \A t \in TimeStamps(c) : \E i \in DOMAIN Times(c) : Times(c)[i] = t
  <1> DEFINE S == TimeStamps(c)
             n == Cardinality(S)
  <1>1. IsFiniteSet(S) /\ S \subseteq Nat /\ n \in Nat
    BY TimeStampsAre
  <1>2. Times(c) = Sorted(S)
    BY DEF Times, TimeStamps
  <1> HIDE DEF S
  <1>3. /\ Sorted(S) \in [1 .. n -> S]
        /\ \A i, j \in 1 .. n : i < j => Sorted(S)[i] < Sorted(S)[j]
        /\ \A t \in S : \E i \in 1 .. n : Sorted(S)[i] = t
    BY <1>1, SortedIs
  <1> DEFINE s == Sorted(S)
  <1> HIDE DEF s
  <1>4. /\ s \in [1 .. n -> S] /\ DOMAIN s = 1 .. n
        /\ \A i, j \in DOMAIN s : i < j => s[i] < s[j]
        /\ \A i \in DOMAIN s : s[i] \in Nat
        /\ \A t \in S : \E i \in DOMAIN s : s[i] = t
    BY <1>1, <1>3 DEF s
  <1> QED
    BY <1>2, <1>4 DEF s, S

\* The files of a time stamp are some that were recorded.
LEMMA FilesAre ==
    ASSUME NEW c \in Clients, NEW t \in TimeStamps(c)
    PROVE  FilesAt(c, t) \in Seq(DOMAIN Size) /\ Len(FilesAt(c, t)) \in Nat \ {0}
  <1> DEFINE S == {i \in DOMAIN Recording[c] : Recording[c][i].at = t}
             n == Cardinality(S)
             lines == Sorted(S)
  <1>1. S \subseteq Nat /\ IsFiniteSet(S) /\ S # {}
    <2>1. IsFiniteSet(DOMAIN Recording[c]) /\ DOMAIN Recording[c] \subseteq Nat
      <3>1. DOMAIN Recording[c] = 1 .. Len(Recording[c]) /\ Len(Recording[c]) \in Nat
        BY RecordingIs
      <3> QED
        BY <3>1, FS_Interval
    <2>2. S \subseteq DOMAIN Recording[c]
      OBVIOUS
    <2>3. S # {}
      BY DEF TimeStamps
    <2> HIDE DEF S
    <2> QED
      BY <2>1, <2>2, <2>3, FS_Subset
  <1>2. FilesAt(c, t) = [i \in DOMAIN lines |-> Recording[c][lines[i]].file]
    BY DEF FilesAt
  <1>3. \A i \in S : Recording[c][i].file \in DOMAIN Size
    BY RecordingIs
  <1> HIDE DEF S
  <1>4. n \in Nat /\ n # 0
    BY <1>1, FS_CardinalityType, FS_EmptySet
  <1>5. lines \in [1 .. n -> S]
    BY <1>1, SortedIs
  <1> HIDE DEF lines, n
  <1>6. FilesAt(c, t) \in [1 .. n -> DOMAIN Size]
    BY <1>2, <1>3, <1>5
  <1>7. FilesAt(c, t) \in Seq(DOMAIN Size)
    BY <1>4, <1>6, SeqDef
  <1> QED
    BY <1>4, <1>6, <1>7, LenProperties

\* The map: for each time stamp its files
LEMMA RequestsAre ==
    ASSUME NEW c \in Clients
    PROVE  /\ Len(Requests[c]) = Cardinality(TimeStamps(c))
           /\ Len(Requests[c]) \in Nat \ {0}
           /\ DOMAIN Times(c) = 1 .. Len(Requests[c])
           /\ \A k \in 1 .. Len(Requests[c]) :
                /\ Requests[c][k].at = Times(c)[k]
                /\ Requests[c][k].at \in Nat
                /\ Requests[c][k].files = FilesAt(c, Times(c)[k])
                /\ Requests[c][k].files \in Seq(DOMAIN Size)
                /\ Len(Requests[c][k].files) \in Nat \ {0}
  <1> DEFINE n == Cardinality(TimeStamps(c))
             R == [at : Nat, files : Seq(DOMAIN Size)]
             q == [k \in DOMAIN Times(c) |-> [at |-> Times(c)[k], files |-> FilesAt(c, Times(c)[k])]]
  <1>1. Requests[c] = q
    BY DEF Requests
  <1>2. n \in Nat \ {0} /\ DOMAIN Times(c) = 1 .. n
    BY TimeStampsAre, TimesAre
  <1>3. \A k \in 1 .. n : Times(c)[k] \in TimeStamps(c) /\ Times(c)[k] \in Nat
    BY <1>2, TimesAre
  <1>4. \A k \in 1 .. n : /\ FilesAt(c, Times(c)[k]) \in Seq(DOMAIN Size)
                          /\ Len(FilesAt(c, Times(c)[k])) \in Nat \ {0}
    BY <1>3, FilesAre
  <1> HIDE DEF n
  <1>5. q \in [1 .. n -> R]
    BY <1>2, <1>3, <1>4
  <1>6. q \in Seq(R) /\ Len(q) = n
    <2> HIDE DEF q, R
    <2>1. q \in Seq(R)
      BY <1>2, <1>5, SeqDef
    <2>2. DOMAIN q = 1 .. Len(q) /\ DOMAIN q = 1 .. n /\ Len(q) \in Nat
      BY <2>1, <1>5, LenProperties
    <2>3. n \in Nat
      BY <1>2
    <2>4. 1 .. Len(q) = 1 .. n
      BY <2>2
    <2>5. Len(q) = n
      BY <2>2, <2>3, <2>4, SameInterval
    <2> QED
      BY <2>1, <2>5
  <1>7. \A k \in 1 .. n : q[k].at = Times(c)[k] /\ q[k].files = FilesAt(c, Times(c)[k])
    BY <1>2
  <1> QED
    BY <1>1, <1>2, <1>3, <1>4, <1>6, <1>7 DEF n

\* Both ways to name a time stamp agree: the one with k - 1 before it is the kth.
LEMMA KthIsTime ==
    ASSUME NEW c \in Clients, NEW k \in DOMAIN Times(c)
    PROVE  KthTime(c, k) = Times(c)[k]
  <1> DEFINE S == TimeStamps(c)
             n == Cardinality(S)
             s == Times(c)
             Before(t) == {u \in S : u < t}
  <1>1. n \in Nat /\ s \in [1 .. n -> S] /\ DOMAIN s = 1 .. n /\ S \subseteq Nat
    BY TimeStampsAre, TimesAre
  <1>2. /\ \A i, j \in 1 .. n : i < j => s[i] < s[j]
        /\ \A t \in S : \E i \in 1 .. n : s[i] = t
    BY <1>1, TimesAre
  <1>3. KthTime(c, k) = CHOOSE t \in S : Cardinality(Before(t)) = k - 1
    BY DEF KthTime, TimeStamps
  <1> HIDE DEF S, s, n
  <1>4. ASSUME NEW i \in 1 .. n PROVE Cardinality(Before(s[i])) = i - 1
    <2> DEFINE f == [j \in 1 .. i - 1 |-> s[j]]
    <2>1. \A j \in 1 .. n : j < i <=> s[j] < s[i]
      <3> SUFFICES ASSUME NEW j \in 1 .. n PROVE j < i <=> s[j] < s[i]
        OBVIOUS
      <3>1. s[i] \in Nat /\ s[j] \in Nat
        BY <1>1
      <3>2. j < i \/ j = i \/ i < j
        OBVIOUS
      <3> QED
        BY <1>2, <3>1, <3>2
    <2>2. f \in [1 .. i - 1 -> Before(s[i])]
      BY <1>1, <2>1
    <2>3. \A t \in Before(s[i]) : \E j \in 1 .. i - 1 : f[j] = t
      <3> SUFFICES ASSUME NEW t \in S, t < s[i] PROVE \E j \in 1 .. i - 1 : s[j] = t
        OBVIOUS
      <3>1. PICK j \in 1 .. n : s[j] = t
        BY <1>2
      <3>2. j < i
        BY <3>1, <2>1
      <3> QED
        BY <3>1, <3>2
    <2>4. \A a, b \in 1 .. i - 1 : f[a] = f[b] => a = b
      <3> SUFFICES ASSUME NEW a \in 1 .. i - 1, NEW b \in 1 .. i - 1, a # b PROVE s[a] # s[b]
        OBVIOUS
      <3>1. a \in 1 .. n /\ b \in 1 .. n /\ (a < b \/ b < a)
        BY <1>1
      <3>2. s[a] \in Nat /\ s[b] \in Nat
        BY <1>1, <3>1
      <3> QED
        BY <3>1, <3>2, <1>2
    <2> HIDE DEF f, Before
    <2>5. f \in Bijection(1 .. i - 1, Before(s[i]))
      BY <2>2, <2>3, <2>4 DEF Bijection, Surjection, Injection, IsInjective
    <2>6. ExistsBijection(1 .. i - 1, Before(s[i]))
      BY <2>5 DEF ExistsBijection
    <2> QED
      BY <2>6, FS_CountingElements, <1>1
  <1>5. k \in 1 .. n /\ s[k] \in S
    BY <1>1 DEF s
  <1>6. \A t \in S : Cardinality(Before(t)) = k - 1 <=> t = s[k]
    <2> SUFFICES ASSUME NEW t \in S PROVE Cardinality(Before(t)) = k - 1 <=> t = s[k]
      OBVIOUS
    <2>1. PICK i \in 1 .. n : s[i] = t
      BY <1>2
    <2> HIDE DEF Before
    <2>2. Cardinality(Before(s[i])) = i - 1 /\ Cardinality(Before(s[k])) = k - 1
      BY <1>4, <1>5
    <2> QED
      BY <2>1, <2>2, <1>5
  <1> HIDE DEF Before
  <1>7. (CHOOSE t \in S : Cardinality(Before(t)) = k - 1) = s[k]
    BY <1>5, <1>6
  <1> QED
    BY <1>3, <1>7 DEF s

-----------------------------------------------------------------------------
(* What a client is to get *)

Payload == (DOMAIN Size) \X Nat

Files(c, k) == Requests[c][k].files
OfFiles(c, k) == [i \in DOMAIN Files(c, k) |-> FileCells(Files(c, k)[i])]
Copies(c, k) == [r \in 1 .. Options[c].count |-> FlattenSeq(OfFiles(c, k))]
Repeated(c) == [k \in 1 .. Len(Requests[c]) |-> FlattenSeq(Copies(c, k))]

\* What a client gets before the jth file of the rth time of its kth request
Before(c, k, r, j) ==
    (Flat(Repeated(c), k - 1) \o Flat(Copies(c, k), r - 1)) \o Flat(OfFiles(c, k), j - 1)

\* The options of a client
LEMMA OptionsAre ==
    ASSUME NEW c \in Clients
    PROVE  /\ Options[c].speed \in Nat \ {0} /\ Options[c].count \in Nat
           /\ Options[c].chunkSize \in Nat \ {0} /\ Options[c].verify \in BOOLEAN
           /\ Options[c].streaming \in BOOLEAN
  BY OptionsAssumption

\* Concatenation of what is received is associative.
LEMMA PayloadsAssociative ==
    \A x, y, z \in Seq(Payload) : (x \o y) \o z = x \o (y \o z)
  BY ConcatAssociative

\* A file as it arrives: its pieces, and then its end
LEMMA FileCellsAre ==
    ASSUME NEW f \in DOMAIN Size
    PROVE  /\ FileCells(f) \in Seq(Payload) /\ Len(FileCells(f)) = Size[f] + 1
           /\ [i \in 1 .. Size[f] |-> <<f, i>>] \in Seq(Payload)
           /\ <<<<f, 0>>>> \in Seq(Payload)
  <1> DEFINE s == [i \in 1 .. Size[f] |-> <<f, i>>]
             e == <<<<f, 0>>>>
  <1>1. Size[f] \in Nat
    BY RecordingAssumption
  <1>2. s \in [1 .. Size[f] -> Payload] /\ <<f, 0>> \in Payload
    <2>1. ASSUME NEW i \in Nat PROVE <<f, i>> \in Payload
      BY DEF Payload
    <2>2. \A i \in 1 .. Size[f] : i \in Nat
      BY <1>1
    <2> QED
      BY <2>1, <2>2
  <1>3. s \in Seq(Payload) /\ Len(s) = Size[f]
    BY <1>1, <1>2, FunctionIsSeq
  <1>4. e \in Seq(Payload) /\ Len(e) = 1
    BY <1>2
  <1> HIDE DEF s, e
  <1>5. s \o e \in Seq(Payload) /\ Len(s \o e) = Size[f] + 1
    <2>1. s \o e \in Seq(Payload) /\ Len(s \o e) = Len(s) + Len(e)
      BY <1>3, <1>4, ConcatProperties
    <2> QED
      BY <2>1, <1>3, <1>4
  <1> QED
    BY <1>3, <1>4, <1>5 DEF s, e, FileCells

\* The files of a request, its repetitions and the requests are sequences.
LEMMA ExpectedIs ==
    ASSUME NEW c \in Clients
    PROVE  /\ \A k \in 1 .. Len(Requests[c]) :
                /\ OfFiles(c, k) \in Seq(Seq(Payload)) /\ Len(OfFiles(c, k)) = Len(Files(c, k))
                /\ \A j \in 1 .. Len(Files(c, k)) : OfFiles(c, k)[j] = FileCells(Files(c, k)[j])
                /\ Copies(c, k) \in Seq(Seq(Payload)) /\ Len(Copies(c, k)) = Options[c].count
                /\ \A r \in 1 .. Options[c].count : Copies(c, k)[r] = FlattenSeq(OfFiles(c, k))
           /\ Repeated(c) \in Seq(Seq(Payload)) /\ Len(Repeated(c)) = Len(Requests[c])
           /\ \A k \in 1 .. Len(Requests[c]) : Repeated(c)[k] = FlattenSeq(Copies(c, k))
           /\ Expected[c] = FlattenSeq(Repeated(c))
  <1> DEFINE n == Len(Requests[c])
             S == Seq(Payload)
  <1>1. n \in Nat /\ Options[c].count \in Nat
    BY RequestsAre, OptionsAre
  <1>2. ASSUME NEW k \in 1 .. n
        PROVE  /\ OfFiles(c, k) \in Seq(S) /\ Len(OfFiles(c, k)) = Len(Files(c, k))
               /\ \A j \in 1 .. Len(Files(c, k)) : OfFiles(c, k)[j] = FileCells(Files(c, k)[j])
    <2>1. Files(c, k) \in Seq(DOMAIN Size) /\ Len(Files(c, k)) \in Nat
      BY RequestsAre DEF Files
    <2>2. DOMAIN Files(c, k) = 1 .. Len(Files(c, k))
      BY <2>1, LenProperties
    <2>3. \A j \in 1 .. Len(Files(c, k)) : FileCells(Files(c, k)[j]) \in S
      BY <2>1, ElementOfSeq, FileCellsAre
    <2>4. OfFiles(c, k) \in [1 .. Len(Files(c, k)) -> S]
      BY <2>2, <2>3 DEF OfFiles
    <2>5. OfFiles(c, k) \in Seq(S) /\ Len(OfFiles(c, k)) = Len(Files(c, k))
      BY <2>1, <2>4, FunctionIsSeq
    <2> QED
      BY <2>2, <2>5 DEF OfFiles
  <1>3. ASSUME NEW k \in 1 .. n
        PROVE  /\ Copies(c, k) \in Seq(S) /\ Len(Copies(c, k)) = Options[c].count
               /\ \A r \in 1 .. Options[c].count : Copies(c, k)[r] = FlattenSeq(OfFiles(c, k))
    <2>1. FlattenSeq(OfFiles(c, k)) \in S
      <3>1. OfFiles(c, k) \in Seq(Seq(Payload)) /\ Len(OfFiles(c, k)) \in Nat
        BY <1>2, LenProperties
      <3> QED
        BY <3>1, FlatIs
    <2>2. Copies(c, k) \in [1 .. Options[c].count -> S]
      BY <2>1 DEF Copies
    <2> QED
      BY <1>1, <2>2, FunctionIsSeq, ZenonT(60) DEF Copies
  <1>4. \A k \in 1 .. n : FlattenSeq(Copies(c, k)) \in S
    <2> SUFFICES ASSUME NEW k \in 1 .. n PROVE FlattenSeq(Copies(c, k)) \in S
      OBVIOUS
    <2>1. Copies(c, k) \in Seq(Seq(Payload)) /\ Len(Copies(c, k)) \in Nat
      BY <1>1, <1>3
    <2> QED
      BY <2>1, FlatIs
  <1>5. Repeated(c) \in [1 .. n -> S]
    BY <1>4 DEF Repeated
  <1>6. Repeated(c) \in Seq(S) /\ Len(Repeated(c)) = n
    BY <1>1, <1>5, FunctionIsSeq
  <1>7. Expected[c] = FlattenSeq(Repeated(c))
    <2> DEFINE Group(k) == FlattenSeq([i \in DOMAIN FilesAt(c, KthTime(c, k)) |->
                             FileCells(FilesAt(c, KthTime(c, k))[i])])
               M == Cardinality(TimeStamps(c))
    <2>1. Expected[c] =
            FlattenSeq([k \in 1 .. M |-> FlattenSeq([r \in 1 .. Options[c].count |-> Group(k)])])
      BY DEF Expected, TimeStamps
    <2>2. M = n
      BY RequestsAre
    <2>3. ASSUME NEW k \in 1 .. n PROVE Group(k) = FlattenSeq(OfFiles(c, k))
      <3>1. FilesAt(c, KthTime(c, k)) = Files(c, k)
        BY KthIsTime, RequestsAre DEF Files
      <3> QED
        BY <3>1 DEF OfFiles
    <2>4. \A k \in 1 .. n : [r \in 1 .. Options[c].count |-> Group(k)] = Copies(c, k)
      BY <2>3 DEF Copies
    <2> HIDE DEF Group, M
    <2>5. [k \in 1 .. M |-> FlattenSeq([r \in 1 .. Options[c].count |-> Group(k)])] = Repeated(c)
      BY <2>2, <2>4 DEF Repeated
    <2> QED
      BY <2>1, <2>5
  <1> QED
    BY <1>2, <1>3, <1>6, <1>7 DEF Repeated

\* One file after the other, the client gets what comes next of what it is to get.
LEMMA BeforeIs ==
    ASSUME NEW c \in Clients, NEW k \in 1 .. Len(Requests[c])
    PROVE  /\ \A r \in 1 .. Options[c].count : \A j \in 1 .. Len(Files(c, k)) :
                /\ Before(c, k, r, j) \in Seq(Payload)
                /\ Before(c, k, r, j + 1) = Before(c, k, r, j) \o FileCells(Files(c, k)[j])
                /\ Begins(Before(c, k, r, j + 1), Expected[c])
           /\ \A r \in 1 .. Options[c].count :
                Before(c, k, r, Len(Files(c, k)) + 1) = Before(c, k, r + 1, 1)
           /\ Before(c, k, Options[c].count + 1, 1) = Before(c, k + 1, 1, 1)
  <1> DEFINE n == Len(Requests[c])
             m == Len(Files(c, k))
             count == Options[c].count
             a == Repeated(c)
             b == Copies(c, k)
             d == OfFiles(c, k)
  <1>1. /\ n \in Nat /\ m \in Nat /\ count \in Nat /\ k \in Nat
        /\ a \in Seq(Seq(Payload)) /\ Len(a) = n /\ a[k] = FlattenSeq(b)
        /\ b \in Seq(Seq(Payload)) /\ Len(b) = count
        /\ d \in Seq(Seq(Payload)) /\ Len(d) = m
    <2>1. n \in Nat /\ m \in Nat /\ count \in Nat
      BY RequestsAre, OptionsAre DEF Files
    <2>2. a \in Seq(Seq(Payload)) /\ Len(a) = n /\ a[k] = FlattenSeq(b)
      BY ExpectedIs
    <2>3. b \in Seq(Seq(Payload)) /\ Len(b) = count
      BY ExpectedIs
    <2>4. d \in Seq(Seq(Payload)) /\ Len(d) = m
      BY ExpectedIs
    <2>5. k \in Nat
      BY <2>1
    <2> QED
      BY <2>1, <2>2, <2>3, <2>4, <2>5
  <1>2. /\ \A r \in 1 .. count : b[r] = FlattenSeq(d)
        /\ \A j \in 1 .. m : d[j] = FileCells(Files(c, k)[j])
        /\ Expected[c] = FlattenSeq(a)
    BY ExpectedIs
  <1>3. \A r, j \in Nat : Before(c, k, r, j) = (Flat(a, k - 1) \o Flat(b, r - 1)) \o Flat(d, j - 1)
    BY DEF Before
  <1>4. Before(c, k + 1, 1, 1) = (Flat(a, k) \o <<>>) \o <<>>
    <2>1. Before(c, k + 1, 1, 1) = (Flat(a, (k + 1) - 1) \o Flat(Copies(c, k + 1), 0)) \o Flat(OfFiles(c, k + 1), 0)
      BY DEF Before
    <2>2. (k + 1) - 1 = k
      BY <1>1
    <2> QED
      BY <2>1, <2>2 DEF Flat
  <1> HIDE DEF a, b, d, n, m, count
  <1>5. /\ Flat(a, k - 1) \in Seq(Payload) /\ Flat(a, k) \in Seq(Payload)
        /\ Flat(a, k) = Flat(a, k - 1) \o FlattenSeq(b) /\ FlattenSeq(a) \in Seq(Payload)
        /\ Begins(Flat(a, k), Expected[c])
    <2>1. k - 1 \in 0 .. Len(a) /\ k \in 0 .. Len(a) /\ k \in 1 .. Len(a) /\ Len(a) \in 0 .. Len(a)
      BY <1>1 DEF n
    <2>2. /\ \A i \in 0 .. Len(a) : Flat(a, i) \in Seq(Payload)
          /\ \A i \in 1 .. Len(a) : Flat(a, i) = Flat(a, i - 1) \o a[i]
          /\ Flat(a, Len(a)) = FlattenSeq(a)
      BY <1>1, FlatIs
    <2>3. Begins(Flat(a, k), FlattenSeq(a))
      BY <1>1, <2>1, FlatBegins
    <2>4. Flat(a, k - 1) \in Seq(Payload) /\ Flat(a, k) \in Seq(Payload) /\ FlattenSeq(a) \in Seq(Payload)
      BY <2>1, <2>2
    <2> QED
      BY <2>1, <2>2, <2>3, <2>4, <1>1, <1>2
  <1>6. /\ \A r \in 0 .. count : Flat(b, r) \in Seq(Payload) /\ Begins(Flat(b, r), FlattenSeq(b))
        /\ \A r \in 1 .. count : Flat(b, r) = Flat(b, r - 1) \o FlattenSeq(d)
        /\ Flat(b, 0) = <<>> /\ Flat(b, count) = FlattenSeq(b)
    <2>1. /\ \A i \in 0 .. Len(b) : Flat(b, i) \in Seq(Payload)
          /\ \A i \in 1 .. Len(b) : Flat(b, i) = Flat(b, i - 1) \o b[i]
          /\ Flat(b, 0) = <<>> /\ Flat(b, Len(b)) = FlattenSeq(b)
      BY <1>1, FlatIs
    <2>2. \A i \in 0 .. Len(b) : Begins(Flat(b, i), FlattenSeq(b))
      BY <1>1, FlatBegins
    <2> QED
      BY <1>1, <1>2, <2>1, <2>2
  <1>7. /\ \A j \in 0 .. m : Flat(d, j) \in Seq(Payload) /\ Begins(Flat(d, j), FlattenSeq(d))
        /\ \A j \in 1 .. m : Flat(d, j) = Flat(d, j - 1) \o FileCells(Files(c, k)[j])
        /\ Flat(d, 0) = <<>> /\ Flat(d, m) = FlattenSeq(d)
    <2>1. /\ \A i \in 0 .. Len(d) : Flat(d, i) \in Seq(Payload)
          /\ \A i \in 1 .. Len(d) : Flat(d, i) = Flat(d, i - 1) \o d[i]
          /\ Flat(d, 0) = <<>> /\ Flat(d, Len(d)) = FlattenSeq(d)
      BY <1>1, FlatIs
    <2>2. \A i \in 0 .. Len(d) : Begins(Flat(d, i), FlattenSeq(d))
      BY <1>1, FlatBegins
    <2> QED
      BY <1>1, <1>2, <2>1, <2>2
  <1>8. FlattenSeq(b) \in Seq(Payload) /\ FlattenSeq(d) \in Seq(Payload)
    BY <1>1, <1>6, <1>7
  <1>9. \A j \in 1 .. m : FileCells(Files(c, k)[j]) \in Seq(Payload)
    BY <1>1, <1>2, ElementOfSeq
  <1>10. ASSUME NEW r \in 1 .. count, NEW j \in 1 .. m
         PROVE  /\ Before(c, k, r, j) \in Seq(Payload)
                /\ Before(c, k, r, j + 1) = Before(c, k, r, j) \o FileCells(Files(c, k)[j])
                /\ Begins(Before(c, k, r, j + 1), Expected[c])
    <2>1. r - 1 \in 0 .. count /\ r \in 0 .. count /\ j - 1 \in 0 .. m /\ j \in 0 .. m /\ (j + 1) - 1 = j
      BY <1>1
    <2> DEFINE x == Flat(a, k - 1)
               y == Flat(b, r - 1)
               z == Flat(d, j - 1)
               w == FileCells(Files(c, k)[j])
    <2>2. x \in Seq(Payload) /\ y \in Seq(Payload) /\ z \in Seq(Payload) /\ w \in Seq(Payload)
          /\ Flat(d, j) \in Seq(Payload) /\ Flat(b, r) \in Seq(Payload)
      BY <2>1, <1>5, <1>6, <1>7, <1>9
    <2>3. x \o y \in Seq(Payload) /\ (x \o y) \o z \in Seq(Payload)
      BY <2>2, ConcatProperties
    <2>4. Before(c, k, r, j) = (x \o y) \o z /\ Before(c, k, r, j + 1) = (x \o y) \o Flat(d, j)
      <3>1. r \in Nat /\ j \in Nat /\ j + 1 \in Nat
        BY <1>1
      <3>2. Before(c, k, r, j + 1) = (x \o y) \o Flat(d, (j + 1) - 1)
        BY <3>1, <1>3
      <3> QED
        BY <2>1, <3>1, <3>2, <1>3
    <2>5. Flat(d, j) = z \o w
      BY <1>7
    <2>6. (x \o y) \o Flat(d, j) = ((x \o y) \o z) \o w
      <3> HIDE DEF x, y, z, w
      <3>1. ((x \o y) \o z) \o w = (x \o y) \o (z \o w)
        <4>1. z \in Seq(Payload) /\ w \in Seq(Payload) /\ x \o y \in Seq(Payload)
          BY <2>2, <2>3
        <4> QED
          BY <4>1, PayloadsAssociative, Zenon
      <3> QED
        BY <2>5, <3>1
    <2>7. Begins((x \o y) \o Flat(d, j), (x \o y) \o FlattenSeq(d))
      BY <2>1, <2>2, <2>3, <1>7, <1>8, BeginsConcat
    <2>8. (x \o y) \o FlattenSeq(d) = x \o Flat(b, r)
      <3>1. Flat(b, r) = y \o FlattenSeq(d)
        BY <1>6
      <3> HIDE DEF x, y
      <3>2. (x \o y) \o FlattenSeq(d) = x \o (y \o FlattenSeq(d))
        <4>1. x \in Seq(Payload) /\ y \in Seq(Payload) /\ FlattenSeq(d) \in Seq(Payload)
          BY <2>2, <1>8
        <4> QED
          BY <4>1, PayloadsAssociative, Zenon
      <3> QED
        BY <3>1, <3>2
    <2>9. Begins(x \o Flat(b, r), x \o FlattenSeq(b))
      BY <2>1, <2>2, <1>6, <1>8, BeginsConcat
    <2>10. Begins(x \o FlattenSeq(b), Expected[c])
      BY <1>5
    <2>11. /\ (x \o y) \o Flat(d, j) \in Seq(Payload) /\ x \o Flat(b, r) \in Seq(Payload)
           /\ x \o FlattenSeq(b) \in Seq(Payload) /\ Expected[c] \in Seq(Payload)
      BY <2>2, <2>3, <1>2, <1>5, <1>8, ConcatProperties
    <2>12. Begins((x \o y) \o Flat(d, j), x \o FlattenSeq(b))
      BY <2>7, <2>8, <2>9, <2>11, BeginsOn
    <2>13. Begins((x \o y) \o Flat(d, j), Expected[c])
      BY <2>10, <2>11, <2>12, BeginsOn
    <2> QED
      BY <2>3, <2>4, <2>6, <2>13
  <1>11. ASSUME NEW r \in 1 .. count PROVE Before(c, k, r, m + 1) = Before(c, k, r + 1, 1)
    <2>1. r - 1 \in 0 .. count /\ m \in 0 .. m /\ (m + 1) - 1 = m /\ (r + 1) - 1 = r /\ 1 - 1 = 0 /\ r \in 0 .. count
      BY <1>1
    <2> DEFINE x == Flat(a, k - 1)
               y == Flat(b, r - 1)
    <2>2. Before(c, k, r, m + 1) = (x \o y) \o FlattenSeq(d)
      <3>1. r \in Nat /\ m + 1 \in Nat
        BY <1>1
      <3>2. Before(c, k, r, m + 1) = (x \o y) \o Flat(d, (m + 1) - 1)
        BY <3>1, <1>3
      <3> QED
        BY <2>1, <3>2, <1>7
    <2>3. Before(c, k, r + 1, 1) = (x \o Flat(b, r)) \o <<>>
      <3>1. r + 1 \in Nat /\ 1 \in Nat
        BY <1>1
      <3>2. Before(c, k, r + 1, 1) = (x \o Flat(b, (r + 1) - 1)) \o Flat(d, 1 - 1)
        BY <3>1, <1>3
      <3> QED
        BY <2>1, <3>2, <1>7
    <2>4. x \in Seq(Payload) /\ y \in Seq(Payload) /\ Flat(b, r) \in Seq(Payload) /\ Flat(b, r) = y \o FlattenSeq(d)
      BY <2>1, <1>5, <1>6
    <2>5. x \o Flat(b, r) \in Seq(Payload)
      BY <2>4, ConcatProperties
    <2>6. (x \o Flat(b, r)) \o <<>> = x \o Flat(b, r)
      BY <2>5, ConcatEmptySeq
    <2>7. (x \o y) \o FlattenSeq(d) = x \o Flat(b, r)
      <3> HIDE DEF x, y
      <3>2. (x \o y) \o FlattenSeq(d) = x \o (y \o FlattenSeq(d))
        BY <2>4, <1>8, ConcatAssociative, SMTT(30)
      <3> QED
        BY <2>4, <3>2
    <2> QED
      BY <2>2, <2>3, <2>6, <2>7
  <1>12. Before(c, k, count + 1, 1) = Before(c, k + 1, 1, 1)
    <2>1. (count + 1) - 1 = count /\ 1 - 1 = 0
      BY <1>1
    <2>2. Before(c, k, count + 1, 1) = (Flat(a, k - 1) \o FlattenSeq(b)) \o <<>>
      <3>1. count + 1 \in Nat /\ 1 \in Nat
        BY <1>1
      <3>2. Before(c, k, count + 1, 1) = (Flat(a, k - 1) \o Flat(b, (count + 1) - 1)) \o Flat(d, 1 - 1)
        BY <3>1, <1>3
      <3> QED
        BY <2>1, <3>2, <1>6, <1>7
    <2>3. Flat(a, k) \o <<>> = Flat(a, k)
      BY <1>5, ConcatEmptySeq
    <2> QED
      BY <2>2, <2>3, <1>4, <1>5
  <1> QED
    BY <1>10, <1>11, <1>12 DEF m, count

-----------------------------------------------------------------------------
(* The invariant *)

Cells == Payload \cup ({"size"} \X Nat) \cup ({"sum"} \X Seq(Payload))
OrderCells == ({"file"} \X (DOMAIN Size)) \cup ({"options"} \X {Options[c] : c \in Clients})

InTouch == {"request", "info", "chunk"}
Asking == {"connect"} \cup InTouch
Apart == {"due", "waiting", "repeat", "connect", "done"}
Gone == {"failed", "corrupt", "interrupted"}
AtServer == {"request", "read", "info", "chunk", "end"}
Supplying == {"read", "info", "chunk", "end"}

ClientType == [pc : Apart \cup InTouch \cup Gone, request : Nat, repeat : Nat, file : Nat,
               tooLate : Nat, repeatWait : Nat, begun : Nat, until : Nat,
               buffer : Seq(Cells), info : Seq(Cells)]
ConnectionType == [up : Seq(OrderCells), down : Seq(Cells), clientOpen : BOOLEAN,
                   serverOpen : BOOLEAN, reset : BOOLEAN]
ServerType == [pc : AtServer \cup {"accept", "failed", "interrupted"}, client : Clients \cup {"none"},
               buffer : Seq(OrderCells), offset : Nat, eof : BOOLEAN, held : Seq(Payload),
               chunk : Seq(Payload), last : BOOLEAN]

TypeOK ==
    /\ missing \subseteq MayMiss /\ now \in Nat /\ delays \in Nat
    /\ client \in [Clients -> ClientType]
    /\ busy \in [Clients -> Nat]
    /\ connection \in [Clients -> ConnectionType]
    /\ backlog \in Seq(Clients)
    /\ server \in ServerType
    /\ delivered \in [Clients -> Seq(Cells)]

\* Where a client is in its recording
Place(c) ==
    /\ client[c].request \in 1 .. Len(Requests[c]) + 1
    /\ client[c].pc \in {"waiting", "repeat"} \cup Asking =>
         client[c].request <= Len(Requests[c]) /\ client[c].repeat <= Options[c].count
    /\ client[c].pc \in Asking =>
         /\ client[c].repeat # 0
         /\ client[c].file \in 1 .. Len(Files(c, client[c].request))
    /\ client[c].pc = "due" /\ client[c].request # 1 => client[c].repeat = Options[c].count

Serves(c) == server.pc \in AtServer /\ server.client = c
Waits(c) == \E i \in DOMAIN backlog : backlog[i] = c

\* A client is served once at a time, and never while it is not in touch.
Queue ==
    /\ server.pc \in AtServer => server.client \in Clients
    /\ \A i, j \in DOMAIN backlog : backlog[i] = backlog[j] => i = j
    /\ \A c \in Clients : ~(Serves(c) /\ Waits(c))
    /\ \A c \in Clients : client[c].pc \in Apart => ~Serves(c) /\ ~Waits(c)
    /\ \A c \in Clients : client[c].pc \in InTouch => connection[c].clientOpen

FileOf(c) == Files(c, client[c].request)[client[c].file]

\* What a client asked for, on its way and at the server
Ordered(c) == (IF Serves(c) THEN server.buffer ELSE <<>>) \o connection[c].up

Order(c) ==
    Serves(c) \/ Waits(c) =>
        /\ Ordered(c) # <<>> =>
             \E f \in DOMAIN Size : /\ Ordered(c) = RequestCells(f, Options[c])
                                    /\ client[c].pc \in InTouch => f = FileOf(c)
        /\ client[c].pc = "request" => Ordered(c) = <<>>

Orders == \A c \in Clients : Order(c)

\* The pieces of a file that follow the first n
Numbered(s, f, n) == \A i \in 1 .. Len(s) : s[i] = <<f, n + i>>

\* The pieces of the file that the server told of
Shown ==
    IF server.pc = "request" THEN 0
    ELSE server.offset - Len(server.held)
           - (IF server.pc \in {"info", "chunk"} THEN Len(server.chunk) ELSE 0)

\* What the server holds is what comes next of the file it was asked for.
Supplies ==
    server.pc \in Supplying =>
        /\ Len(server.buffer) = RequestSize
        /\ Shown \in Nat /\ server.offset <= Size[Asked]
        /\ server.eof => server.offset = Size[Asked]
        /\ Numbered(server.held, Asked, server.offset - Len(server.held))
        /\ server.pc \in {"info", "chunk"} =>
             /\ server.chunk # <<>> /\ Numbered(server.chunk, Asked, Shown)
             /\ server.last => server.held = <<>> /\ server.offset = Size[Asked]
        /\ server.pc = "end" => server.held = <<>> /\ server.offset = Size[Asked]

\* What a client has received and not used, and what is on its way to it
Stream(c) ==
    CASE client[c].pc = "info" -> client[c].buffer \o connection[c].down
      [] client[c].pc = "chunk" -> client[c].info \o (client[c].buffer \o connection[c].down)
      [] OTHER -> connection[c].down

Pieces(f, from, n) == [i \in 1 .. n |-> <<f, from + i>>]

\* The information on a chunk and the chunk
Whole(c, marks, i, n, m, x) ==
    /\ (i + 1) + m <= Len(Stream(c)) /\ <<(i + 2) + m, n + m>> \in marks
    /\ \A j \in 1 .. m : Stream(c)[(i + 1) + j] = <<FileOf(c), n + j>>
    /\ Options[c].verify => x = Pieces(FileOf(c), n, m)
    /\ m = 0 => n = Size[FileOf(c)] /\ ~Serves(c)

\* The information on a chunk that is yet to be sent
Begun(c, i, n, m, x) ==
    /\ i + 1 = Len(Stream(c)) /\ m # 0
    /\ Serves(c) => /\ server.pc = "chunk" /\ m = Len(server.chunk) /\ n = Shown
                    /\ Options[c].verify => x = server.chunk

\* What there is at the ith place of a stream, after n pieces of the file
Message(c, marks, i, n) ==
    /\ i \in 1 .. Len(Stream(c)) + 1 /\ n \in 0 .. Size[FileOf(c)]
    /\ i = Len(Stream(c)) + 1 => /\ Serves(c) => server.pc # "chunk" /\ n = Shown
                                 /\ Waits(c) => n = 0
    /\ i <= Len(Stream(c)) =>
         /\ ~Waits(c) /\ i + 1 <= Len(Stream(c))
         /\ \E m \in Nat, x \in Seq(Payload) :
              /\ Stream(c)[i] = <<"size", m>> /\ Stream(c)[i + 1] = <<"sum", x>>
              /\ Whole(c, marks, i, n, m, x) \/ Begun(c, i, n, m, x)

\* A stream is chunks with their information, one after the other; the marks
\* say where they start and how much of the file comes before.
Parsed(c, from) ==
    \E marks \in SUBSET (Nat \X Nat) :
        <<1, from>> \in marks /\ \A p \in marks : Message(c, marks, p[1], p[2])

\* What a client got, and what it will get from its stream
Gets(c) ==
    /\ client[c].pc = "due" => delivered[c] = Before(c, client[c].request, 1, 1)
    /\ client[c].pc \in {"waiting", "repeat"} =>
         delivered[c] = Before(c, client[c].request, client[c].repeat + 1, 1)
    /\ client[c].pc = "connect" =>
         delivered[c] = Before(c, client[c].request, client[c].repeat, client[c].file)
    /\ client[c].pc \in InTouch =>
         \E n \in 0 .. Size[FileOf(c)] :
             /\ delivered[c] = Before(c, client[c].request, client[c].repeat, client[c].file)
                                 \o Pieces(FileOf(c), 0, n)
             /\ Parsed(c, n)
             /\ client[c].pc = "request" => n = 0 /\ Stream(c) = <<>>
    /\ client[c].pc = "info" => Len(client[c].buffer) <= InfoSize
    /\ client[c].pc = "chunk" =>
         Len(client[c].info) = InfoSize /\ Len(client[c].buffer) <= client[c].info[1][2]

Data == Queue /\ Orders /\ Supplies /\ \A c \in Clients : Gets(c)

IInv == TypeOK /\ (\A c \in Clients : Place(c)) /\ Data

-----------------------------------------------------------------------------
(* Types *)

\* A request is due some time after the first, the files of a client are known,
\* and the waits of a client are times.
LEMMA TimesOf ==
    ASSUME NEW c \in Clients, NEW k \in 1 .. Len(Requests[c])
    PROVE  /\ DueAt(c, k) \in Nat
           /\ k < Len(Requests[c]) => TillNext(c, k) \in Nat
           /\ \A late \in Nat : RepeatWait(c, k, late) \in Nat
  <1> DEFINE n == Len(Requests[c])
             at == [i \in 1 .. n |-> Requests[c][i].at]
             speed == Options[c].speed
             count == Options[c].count
  <1>1. n \in Nat \ {0} /\ \A i \in 1 .. n : at[i] = Times(c)[i] /\ at[i] \in Nat
    BY RequestsAre
  <1>2. \A i, j \in 1 .. n : i < j => at[i] < at[j]
    <2>1. DOMAIN Times(c) = 1 .. n
      BY RequestsAre
    <2> QED
      BY <2>1, <1>1, TimesAre
  <1>3. speed \in Nat \ {0} /\ count \in Nat
    BY OptionsAre
  <1>4. DueAt(c, k) = (at[k] - at[1]) \div speed
    BY <1>1 DEF DueAt
  <1>5. k < n => TillNext(c, k) = (at[k + 1] - at[k]) \div speed
    BY <1>1 DEF TillNext
  <1>6. \A late : RepeatWait(c, k, late) =
          IF count > 1 /\ k < n THEN Larger(TillNext(c, k) - late, 0) \div count ELSE 0
    BY DEF RepeatWait
  <1> HIDE DEF n, at, speed, count
  <1>7. at[k] - at[1] \in Nat
    <2>1. 1 \in 1 .. n /\ k \in 1 .. n /\ (k = 1 \/ 1 < k)
      BY <1>1 DEF n
    <2> QED
      BY <2>1, <1>1, <1>2
  <1>8. DueAt(c, k) \in Nat
    BY <1>3, <1>4, <1>7
  <1>9. k < n => at[k + 1] - at[k] \in Nat
    <2>1. k < n => k + 1 \in 1 .. n /\ k \in 1 .. n /\ k < k + 1
      BY <1>1 DEF n
    <2> QED
      BY <2>1, <1>1, <1>2
  <1>10. k < n => TillNext(c, k) \in Nat
    BY <1>3, <1>5, <1>9
  <1>11. ASSUME NEW late \in Nat PROVE RepeatWait(c, k, late) \in Nat
    <2>1. CASE count > 1 /\ k < n
      <3>1. Larger(TillNext(c, k) - late, 0) \in Nat
        BY <1>10, <2>1 DEF Larger
      <3>2. RepeatWait(c, k, late) = Larger(TillNext(c, k) - late, 0) \div count
        BY <1>6, <2>1
      <3> HIDE DEF Larger
      <3> QED
        BY <3>1, <3>2, <1>3, <2>1
    <2>2. CASE ~(count > 1 /\ k < n)
      BY <1>6, <2>2
    <2> QED
      BY <2>1, <2>2
  <1> QED
    BY <1>8, <1>10, <1>11 DEF n

\* The file a client asks for
LEMMA FileIs ==
    ASSUME NEW c \in Clients, Place(c), client[c].pc \in Asking
    PROVE  /\ client[c].request \in 1 .. Len(Requests[c])
           /\ Files(c, client[c].request) = Requests[c][client[c].request].files
           /\ FileOf(c) = Requests[c][client[c].request].files[client[c].file]
           /\ FileOf(c) \in DOMAIN Size /\ Size[FileOf(c)] \in Nat
  <1>1. client[c].request \in 1 .. Len(Requests[c])
    BY RequestsAre DEF Place, Asking, InTouch
  <1>2. Files(c, client[c].request) \in Seq(DOMAIN Size)
    BY <1>1, RequestsAre DEF Files
  <1>3. client[c].file \in 1 .. Len(Files(c, client[c].request))
    BY DEF Place
  <1>4. FileOf(c) \in DOMAIN Size
    BY <1>2, <1>3, ElementOfSeq DEF FileOf
  <1> QED
    BY <1>1, <1>4, RecordingAssumption DEF FileOf, Files

\* What a request is made of
LEMMA RequestCellsAre ==
    ASSUME NEW f \in DOMAIN Size, NEW c \in Clients
    PROVE  /\ RequestCells(f, Options[c]) \in Seq(OrderCells)
           /\ Len(RequestCells(f, Options[c])) = RequestSize
           /\ RequestCells(f, Options[c])[1] = <<"file", f>>
           /\ RequestCells(f, Options[c])[2] = <<"options", Options[c]>>
  <1>1. <<"file", f>> \in OrderCells /\ <<"options", Options[c]>> \in OrderCells
    BY DEF OrderCells
  <1> QED
    BY <1>1 DEF RequestCells, RequestSize

\* The request that has arrived completely is the one that the client sent.
LEMMA AskedIs ==
    ASSUME TypeOK, Queue, Orders, server.pc \in AtServer, Len(server.buffer) = RequestSize
    PROVE  /\ server.client \in Clients /\ Serves(server.client)
           /\ Asked \in DOMAIN Size /\ Size[Asked] \in Nat
           /\ AskedOptions = Options[server.client]
           /\ client[server.client].pc # "request"
           /\ client[server.client].pc \in InTouch => Asked = FileOf(server.client)
  <1> DEFINE c == server.client
             b == server.buffer
             u == connection[c].up
  <1>1. c \in Clients /\ Serves(c)
    BY DEF Queue, Serves
  <1>2. b \in Seq(OrderCells) /\ u \in Seq(OrderCells) /\ Len(b) = 2
    BY <1>1 DEF TypeOK, ServerType, ConnectionType, RequestSize
  <1>3. Ordered(c) = b \o u
    BY <1>1 DEF Ordered
  <1>4. /\ b \o u \in Seq(OrderCells) /\ Len(b \o u) = 2 + Len(u) /\ Len(u) \in Nat
        /\ (b \o u)[1] = b[1] /\ (b \o u)[2] = b[2]
    <2> HIDE DEF b, u
    <2>1. Len(u) \in Nat
      BY <1>2, LenProperties
    <2>2. /\ b \o u \in Seq(OrderCells) /\ Len(b \o u) = Len(b) + Len(u)
          /\ \A i \in 1 .. Len(b) + Len(u) :
               (b \o u)[i] = IF i <= Len(b) THEN b[i] ELSE u[i - Len(b)]
      BY <1>2, ConcatProperties
    <2>3. 1 \in 1 .. Len(b) + Len(u) /\ 2 \in 1 .. Len(b) + Len(u)
      BY <1>2, <2>1
    <2> QED
      BY <1>2, <2>1, <2>2, <2>3
  <1>5. b \o u # <<>>
    <2>1. Len(b \o u) # 0
      BY <1>4
    <2> QED
      BY <2>1, EmptySeq
  <1>6. /\ \E f \in DOMAIN Size : /\ b \o u = RequestCells(f, Options[c])
                                  /\ client[c].pc \in InTouch => f = FileOf(c)
        /\ client[c].pc # "request"
    BY <1>1, <1>3, <1>5 DEF Orders, Order
  <1>7. PICK f \in DOMAIN Size : /\ b \o u = RequestCells(f, Options[c])
                                 /\ client[c].pc \in InTouch => f = FileOf(c)
    BY <1>6
  <1>8. b[1] = <<"file", f>> /\ b[2] = <<"options", Options[c]>>
    BY <1>1, <1>4, <1>7, RequestCellsAre, ZenonT(60)
  <1>9. Asked = f /\ AskedOptions = Options[c]
    BY <1>8 DEF Asked, AskedOptions
  <1> QED
    BY <1>1, <1>6, <1>7, <1>9, RecordingAssumption

\* Initially
LEMMA TypeInit == Init => TypeOK
  <1> SUFFICES ASSUME Init PROVE TypeOK
    OBVIOUS
  <1>1. client \in [Clients -> ClientType]
    BY DEF Init, ClientType, Apart
  <1>2. connection \in [Clients -> ConnectionType]
    BY DEF Init, ConnectionType, NoConnection
  <1>3. server \in ServerType
    BY DEF Init, ServerType
  <1> QED
    BY <1>1, <1>2, <1>3 DEF Init, TypeOK

\* One client changes.
LEMMA ClientUpdate ==
    ASSUME TypeOK, NEW c \in Clients, NEW r \in ClientType, client' = [client EXCEPT ![c] = r]
    PROVE  client' \in [Clients -> ClientType] /\ client'[c] = r
  BY DEF TypeOK

\* One connection changes.
LEMMA ConnectionUpdate ==
    ASSUME TypeOK, NEW c \in Clients, NEW r \in ConnectionType,
           connection' = [connection EXCEPT ![c] = r]
    PROVE  connection' \in [Clients -> ConnectionType] /\ connection'[c] = r
  BY DEF TypeOK

\* Closing an end of a connection, and a part of a sequence, keep the types.
LEMMA ClosedType ==
    ASSUME NEW n \in ConnectionType
    PROVE  ClosedByClient(n) \in ConnectionType /\ NoConnection \in ConnectionType
           /\ NewConnection \in ConnectionType
  <1>1. NoConnection \in ConnectionType
    BY DEF ConnectionType, NoConnection
  <1>2. NewConnection \in ConnectionType
    BY <1>1 DEF ConnectionType, NewConnection
  <1>3. ClosedByClient(n) \in ConnectionType
    <2>1. <<>> \in Seq(Cells)
      BY EmptySeq
    <2> QED
      BY <2>1 DEF ConnectionType, ClosedByClient
  <1> QED
    BY <1>1, <1>2, <1>3

\* A client goes on to another place with a new buffer.
LEMMA BufferUpdate ==
    ASSUME TypeOK, NEW c \in Clients, NEW p \in Apart \cup InTouch \cup Gone, NEW b \in Seq(Cells),
           client' = [client EXCEPT ![c].pc = p, ![c].buffer = b]
    PROVE  /\ client' = [client EXCEPT ![c] = [client[c] EXCEPT !.pc = p, !.buffer = b]]
           /\ client' \in [Clients -> ClientType]
           /\ \A d \in Clients \ {c} : client'[d] = client[d]
           /\ client'[c] = [client[c] EXCEPT !.pc = p, !.buffer = b]
  <1> DEFINE r == [client[c] EXCEPT !.pc = p, !.buffer = b]
  <1>1. client' = [client EXCEPT ![c] = r]
    BY DEF TypeOK
  <1>2. r \in ClientType
    BY ZenonT(60) DEF TypeOK, ClientType
  <1> HIDE DEF r
  <1>3. client' \in [Clients -> ClientType] /\ client'[c] = r
    BY <1>1, <1>2, ClientUpdate
  <1>4. \A d \in Clients \ {c} : client'[d] = client[d]
    BY <1>1 DEF TypeOK
  <1> QED
    BY <1>1, <1>3, <1>4 DEF r

\* A sequence is what is taken of it and the rest.
LEMMA PartType ==
    ASSUME NEW S, NEW s \in Seq(S), NEW n \in 0 .. Len(s)
    PROVE  /\ SubSeq(s, 1, n) \in Seq(S) /\ Len(SubSeq(s, 1, n)) = n
           /\ SubSeq(s, n + 1, Len(s)) \in Seq(S) /\ Len(SubSeq(s, n + 1, Len(s))) = Len(s) - n
           /\ \A i \in 1 .. n : SubSeq(s, 1, n)[i] = s[i]
           /\ \A i \in 1 .. Len(s) - n : SubSeq(s, n + 1, Len(s))[i] = s[n + i]
           /\ SubSeq(s, 1, n) \o SubSeq(s, n + 1, Len(s)) = s
  <1>1. Len(s) \in Nat /\ \A i \in 1 .. Len(s) : s[i] \in S
    BY LenProperties, ElementOfSeq
  <1>2. /\ SubSeq(s, 1, n) \in Seq(S)
        /\ Len(SubSeq(s, 1, n)) = IF 1 <= n THEN n - 1 + 1 ELSE 0
        /\ \A i \in 1 .. n - 1 + 1 : SubSeq(s, 1, n)[i] = s[1 + i - 1]
    BY <1>1, SubSeqProperties
  <1>3. /\ SubSeq(s, n + 1, Len(s)) \in Seq(S)
        /\ Len(SubSeq(s, n + 1, Len(s))) = IF n + 1 <= Len(s) THEN Len(s) - (n + 1) + 1 ELSE 0
        /\ \A i \in 1 .. Len(s) - (n + 1) + 1 : SubSeq(s, n + 1, Len(s))[i] = s[(n + 1) + i - 1]
    BY <1>1, SubSeqProperties
  <1>4. SubSeq(s, 1, n) \o SubSeq(s, n + 1, Len(s)) = s
    <2>1. 1 \in 1 .. Len(s) + 1 /\ n \in 1 - 1 .. Len(s) /\ Len(s) \in n .. Len(s)
      BY <1>1
    <2>2. SubSeq(s, 1, n) \o SubSeq(s, n + 1, Len(s)) = SubSeq(s, 1, Len(s))
      BY <2>1, ConcatAdjacentSubSeq
    <2> QED
      BY <2>2, SubSeqFull
  <1>5. \A i \in 1 .. n : SubSeq(s, 1, n)[i] = s[i]
    BY <1>1, <1>2
  <1>6. \A i \in 1 .. Len(s) - n : SubSeq(s, n + 1, Len(s))[i] = s[n + i]
    BY <1>1, <1>3
  <1>7. n \in Nat /\ n <= Len(s)
    BY <1>1
  <1>8. Len(SubSeq(s, 1, n)) = n /\ Len(SubSeq(s, n + 1, Len(s))) = Len(s) - n
    BY <1>1, <1>2, <1>3, <1>7
  <1> QED
    BY <1>2, <1>3, <1>4, <1>5, <1>6, <1>8

\* The fields of a client
LEMMA FieldTypes ==
    ASSUME NEW s \in ClientType
    PROVE  /\ s.pc \in Apart \cup InTouch \cup Gone
           /\ s.request \in Nat /\ s.repeat \in Nat /\ s.file \in Nat /\ s.tooLate \in Nat
           /\ s.repeatWait \in Nat /\ s.begun \in Nat /\ s.until \in Nat
           /\ s.buffer \in Seq(Cells) /\ s.info \in Seq(Cells)
           /\ s.request + 1 \in Nat /\ s.repeat + 1 \in Nat /\ s.file + 1 \in Nat
  BY DEF ClientType

\* What a client waits for, as its buffer fills
LEMMA WantedIs ==
    ASSUME TypeOK, NEW c \in Clients, Gets(c), client[c].pc \in {"info", "chunk"}
    PROVE  Wanted(c) \in Nat /\ Len(client[c].buffer) \in Nat /\ Len(client[c].buffer) <= Wanted(c)
  <1>1. client[c] \in ClientType /\ connection[c] \in ConnectionType
    BY DEF TypeOK
  <1>2. client[c].buffer \in Seq(Cells) /\ client[c].info \in Seq(Cells) /\ connection[c].down \in Seq(Cells)
    BY <1>1, FieldTypes DEF ConnectionType
  <1>3. Len(client[c].buffer) \in Nat
    BY <1>2, LenProperties
  <1>4. CASE client[c].pc = "info"
    BY <1>3, <1>4 DEF Gets, Wanted, InfoSize
  <1>5. CASE client[c].pc = "chunk"
    <2> DEFINE i == client[c].info
               t == client[c].buffer \o connection[c].down
    <2>1. t \in Seq(Cells) /\ i \in Seq(Cells) /\ Len(i) = 2
      BY <1>2, <1>5, ConcatProperties DEF Gets, InfoSize
    <2>2. Stream(c) = i \o t
      BY <1>5 DEF Stream
    <2> HIDE DEF i, t
    <2>3. Len(i \o t) = Len(i) + Len(t) /\ Len(t) \in Nat
          /\ \A k \in 1 .. Len(i) + Len(t) : (i \o t)[k] = IF k <= Len(i) THEN i[k] ELSE t[k - Len(i)]
      BY <2>1, ConcatProperties, LenProperties
    <2>4. 1 \in 1 .. Len(i) + Len(t) /\ 1 <= Len(Stream(c)) /\ Stream(c)[1] = i[1]
      BY <2>1, <2>2, <2>3
    <2>5. PICK n \in 0 .. Size[FileOf(c)] : Parsed(c, n)
      BY <1>5 DEF Gets, InTouch
    <2>6. PICK marks \in SUBSET (Nat \X Nat) :
            <<1, n>> \in marks /\ \A p \in marks : Message(c, marks, p[1], p[2])
      BY <2>5 DEF Parsed
    <2>7. Message(c, marks, 1, n)
      BY <2>6
    <2>8. \E m \in Nat : Stream(c)[1] = <<"size", m>>
      BY <2>4, <2>7 DEF Message
    <2>9. i[1][2] \in Nat
      BY <2>4, <2>8
    <2> QED
      BY <1>3, <1>5, <2>9 DEF Gets, Wanted, i
  <1> QED
    BY <1>4, <1>5

\* How much a client receives at once
LEMMA ReceivedIs ==
    ASSUME IInv, NEW c \in Clients, Receive(c)
    PROVE  \E n \in 1 .. Len(connection[c].down) :
             /\ Len(client[c].buffer) + n <= Wanted(c)
             /\ client' = [client EXCEPT ![c].buffer = @ \o SubSeq(connection[c].down, 1, n)]
             /\ connection' = [connection EXCEPT
                  ![c].down = SubSeq(connection[c].down, n + 1, Len(connection[c].down))]
  <1> DEFINE down == connection[c].down
             buffer == client[c].buffer
  <1>1. PICK n \in 1 .. Smaller(Wanted(c) - Len(buffer), Len(down)) :
          /\ client' = [client EXCEPT ![c].buffer = @ \o SubSeq(down, 1, n)]
          /\ connection' = [connection EXCEPT ![c].down = SubSeq(down, n + 1, Len(down))]
    BY DEF Receive
  <1>2. Wanted(c) \in Nat /\ Len(buffer) \in Nat /\ Len(buffer) <= Wanted(c)
    BY WantedIs DEF IInv, Data, Receive
  <1>3. Len(down) \in Nat
    <2>1. down \in Seq(Cells)
      BY DEF IInv, TypeOK, ConnectionType
    <2> QED
      BY <2>1, LenProperties
  <1>4. n \in 1 .. Len(down) /\ Len(buffer) + n <= Wanted(c)
    <2> DEFINE w == Wanted(c)
               b == Len(buffer)
               d == Len(down)
               m == Smaller(w - b, d)
    <2>1. w \in Nat /\ b \in Nat /\ d \in Nat
      BY <1>2, <1>3
    <2> HIDE DEF w, b, d
    <2>2. m \in Int /\ m <= d /\ b + m <= w
      BY <2>1 DEF Smaller
    <2>3. n \in 1 .. m
      BY <1>1 DEF w, b, d
    <2> HIDE DEF m
    <2>4. n \in 1 .. d /\ b + n <= w
      BY <2>1, <2>2, <2>3
    <2> QED
      BY <2>4 DEF w, b, d
  <1> QED
    BY <1>1, <1>4

\* A client's own steps keep the types.
LEMMA WaitTillRequestType ==
    ASSUME IInv, NEW c \in Clients, WaitTillRequest(c) PROVE TypeOK'
  <1> DEFINE s == client[c]
             late == TooLate(c)
             r == [s EXCEPT !.pc = IF now < DueAt(c, s.request) THEN "waiting" ELSE "repeat",
                       !.until = Larger(now, DueAt(c, s.request)),
                       !.tooLate = late,
                       !.repeatWait = RepeatWait(c, s.request, late),
                       !.repeat = 0]
  <1>1. s \in ClientType /\ s.request \in 1 .. Len(Requests[c]) /\ now \in Nat
    BY RequestsAre DEF IInv, TypeOK, Place, WaitTillRequest
  <1>2. DueAt(c, s.request) \in Nat
    BY <1>1, TimesOf
  <1>3. late \in Nat
    BY <1>1, <1>2 DEF TooLate, Larger
  <1>4. RepeatWait(c, s.request, late) \in Nat /\ Larger(now, DueAt(c, s.request)) \in Nat
    <2>1. RepeatWait(c, s.request, late) \in Nat
      BY <1>1, <1>3, TimesOf
    <2> QED
      BY <2>1, <1>1, <1>2 DEF Larger
  <1>5. client' = [client EXCEPT ![c] = r]
    BY DEF WaitTillRequest
  <1>6. r \in ClientType
    <2> HIDE DEF late
    <2> QED
      BY <1>1, <1>2, <1>3, <1>4 DEF ClientType, Apart
  <1>7. client' \in [Clients -> ClientType]
    <2> HIDE DEF r
    <2> QED
      BY <1>5, <1>6, ClientUpdate DEF IInv
  <1> QED
    BY <1>7 DEF IInv, TypeOK, WaitTillRequest

\* Turning to a request again, or to the next one, keeps the types.
LEMMA HandleRepeatedRequestType ==
    ASSUME IInv, NEW c \in Clients, HandleRepeatedRequest(c) PROVE TypeOK'
  <1>1. client[c] \in ClientType /\ now \in Nat
    BY DEF IInv, TypeOK
  <1> DEFINE s == client[c]
             r == IF s.repeat < Options[c].count
                  THEN [s EXCEPT !.pc = "connect", !.repeat = @ + 1, !.file = 1, !.begun = now]
                  ELSE [s EXCEPT !.pc = "due", !.request = @ + 1]
  <1>2. client' \in [Clients -> ClientType]
    <2>1. client' = [client EXCEPT ![c] = r]
      BY DEF HandleRepeatedRequest
    <2>2. [s EXCEPT !.pc = "connect", !.repeat = @ + 1, !.file = 1, !.begun = now] \in ClientType
      BY <1>1, FieldTypes DEF ClientType, Apart
    <2>3. [s EXCEPT !.pc = "due", !.request = @ + 1] \in ClientType
      BY <1>1, FieldTypes DEF ClientType, Apart
    <2>4. r \in ClientType
      BY <2>2, <2>3
    <2> HIDE DEF r
    <2> QED
      BY <2>1, <2>4, ClientUpdate DEF IInv
  <1> QED
    BY <1>2 DEF IInv, TypeOK, HandleRepeatedRequest

\* Ending early keeps the types.
LEMMA EndsType ==
    ASSUME IInv, NEW c \in Clients, NEW pc \in Gone, Ends(c, pc) PROVE TypeOK'
  <1>1. client[c] \in ClientType /\ connection[c] \in ConnectionType
    BY DEF IInv, TypeOK
  <1>2. client' \in [Clients -> ClientType]
    BY <1>1 DEF IInv, TypeOK, Ends, ClientType
  <1>3. connection' = [connection EXCEPT ![c] = ClosedByClient(connection[c])]
    BY DEF Ends
  <1>4. connection' \in [Clients -> ConnectionType]
    BY <1>1, <1>3, ClosedType, ConnectionUpdate DEF IInv
  <1> QED
    BY <1>2, <1>4 DEF IInv, TypeOK, Ends

\* Ending with everything keeps the types.
LEMMA FinishType ==
    ASSUME IInv, NEW c \in Clients, Finish(c) PROVE TypeOK'
  <1>1. client' \in [Clients -> ClientType]
    BY ZenonT(60) DEF IInv, TypeOK, Finish, ClientType, Apart
  <1> QED
    BY <1>1 DEF IInv, TypeOK, Finish

\* Connecting keeps the types.
LEMMA ConnectType ==
    ASSUME IInv, NEW c \in Clients, Connect(c) PROVE TypeOK'
  <1>1. client' \in [Clients -> ClientType]
    BY ZenonT(60) DEF IInv, TypeOK, Connect, ClientType, InTouch
  <1>2. connection' \in [Clients -> ConnectionType]
    <2>1. connection[c] \in ConnectionType /\ connection' = [connection EXCEPT ![c] = NewConnection]
      BY DEF IInv, TypeOK, Connect
    <2> QED
      BY <2>1, ClosedType, ConnectionUpdate DEF IInv
  <1>3. backlog' \in Seq(Clients)
    BY AppendProperties DEF IInv, TypeOK, Connect
  <1> QED
    BY <1>1, <1>2, <1>3 DEF IInv, TypeOK, Connect

\* Asking for a file keeps the types.
LEMMA RequestFileType ==
    ASSUME IInv, NEW c \in Clients, RequestFile(c) PROVE TypeOK'
  <1>1. client' \in [Clients -> ClientType]
    <2>1. <<>> \in Seq(Cells) /\ "info" \in Apart \cup InTouch \cup Gone
      BY EmptySeq DEF InTouch
    <2> QED
      BY <2>1, BufferUpdate DEF IInv, RequestFile
  <1>2. connection[c] \in ConnectionType
    BY DEF IInv, TypeOK
  <1>3. connection' \in [Clients -> ConnectionType]
    <2>1. CASE connection[c].serverOpen
      <3> DEFINE cells == RequestCells(FileOf(c), Options[c])
      <3>1. cells \in Seq(OrderCells) /\ FileOf(c) = Requests[c][client[c].request].files[client[c].file]
        BY FileIs, RequestCellsAre DEF IInv, RequestFile, Asking, InTouch
      <3>2. connection' = [connection EXCEPT ![c].up = cells]
        BY <2>1, <3>1 DEF RequestFile
      <3> HIDE DEF cells
      <3> QED
        BY <1>2, <3>1, <3>2 DEF IInv, TypeOK, ConnectionType
    <2>2. CASE ~connection[c].serverOpen
      <3>1. PICK seen \in BOOLEAN : connection' = [connection EXCEPT ![c].reset = @ \/ seen]
        BY <2>2 DEF RequestFile
      <3>2. (connection[c].reset \/ seen) \in BOOLEAN
        OBVIOUS
      <3> QED
        BY <1>2, <3>1, <3>2 DEF IInv, TypeOK, ConnectionType
    <2> QED
      BY <2>1, <2>2
  <1> QED
    BY <1>1, <1>3 DEF IInv, TypeOK, RequestFile

\* Receiving keeps the types.
LEMMA ReceiveType ==
    ASSUME IInv, NEW c \in Clients, Receive(c) PROVE TypeOK'
  <1> DEFINE down == connection[c].down
             buffer == client[c].buffer
  <1>1. /\ client[c] \in ClientType /\ connection[c] \in ConnectionType
        /\ down \in Seq(Cells) /\ buffer \in Seq(Cells)
    BY DEF IInv, TypeOK, ClientType, ConnectionType
  <1>2. PICK n \in 1 .. Len(down) :
          /\ client' = [client EXCEPT ![c].buffer = @ \o SubSeq(down, 1, n)]
          /\ connection' = [connection EXCEPT ![c].down = SubSeq(down, n + 1, Len(down))]
    BY ReceivedIs
  <1>4. SubSeq(down, 1, n) \in Seq(Cells) /\ SubSeq(down, n + 1, Len(down)) \in Seq(Cells)
    BY <1>1, <1>2, PartType
  <1>5. buffer \o SubSeq(down, 1, n) \in Seq(Cells)
    BY <1>1, <1>4, ConcatProperties
  <1>6. client' \in [Clients -> ClientType]
    BY <1>1, <1>2, <1>5 DEF IInv, TypeOK, ClientType
  <1>7. connection' \in [Clients -> ConnectionType]
    BY <1>1, <1>2, <1>4 DEF IInv, TypeOK, ConnectionType
  <1> QED
    BY <1>6, <1>7 DEF IInv, TypeOK, Receive

\* Planning the next repetition keeps the types.
LEMMA AfterRequestType ==
    ASSUME TypeOK, NEW c \in Clients PROVE AfterRequest(c) \in ClientType
  <1>1. client[c] \in ClientType /\ now \in Nat
    BY DEF TypeOK
  <1>2. client[c].repeatWait \in Nat /\ client[c].begun \in Nat
    BY <1>1 DEF ClientType
  <1>3. now + Larger(client[c].repeatWait - (now - client[c].begun), 0) \in Nat
    BY <1>1, <1>2 DEF Larger
  <1> QED
    BY <1>1, <1>3 DEF AfterRequest, ClientType, Apart

\* Looking at the information on a chunk keeps the types.
LEMMA UseInfoType ==
    ASSUME IInv, NEW c \in Clients, UseInfo(c) PROVE TypeOK'
  <1> DEFINE s == client[c]
             next == IF s.file < Len(Requests[c][s.request].files)
                     THEN [s EXCEPT !.pc = "connect", !.file = @ + 1]
                     ELSE AfterRequest(c)
  <1>1. s \in ClientType /\ connection[c] \in ConnectionType /\ TypeOK
    BY DEF IInv, TypeOK
  <1>2. CASE s.buffer[1][2] > 0
    <2>1. client' \in [Clients -> ClientType]
      <3> DEFINE r == [s EXCEPT !.pc = "chunk", !.info = s.buffer, !.buffer = <<>>]
      <3>1. client' = [client EXCEPT ![c] = r]
        BY <1>2 DEF UseInfo
      <3>2. r \in ClientType
        BY <1>1, FieldTypes, EmptySeq DEF ClientType, InTouch
      <3> HIDE DEF r
      <3> QED
        BY <1>1, <3>1, <3>2, ClientUpdate
    <2> QED
      BY <1>1, <1>2, <2>1 DEF TypeOK, UseInfo
  <1>3. CASE ~(s.buffer[1][2] > 0)
    <2>1. next \in ClientType
      <3>1. [s EXCEPT !.pc = "connect", !.file = @ + 1] \in ClientType
        BY <1>1, FieldTypes DEF ClientType, Apart
      <3> QED
        BY <1>1, <3>1, AfterRequestType
    <2>2. client' = [client EXCEPT ![c] = next]
      BY <1>3 DEF UseInfo
    <2> HIDE DEF next
    <2>3. client' \in [Clients -> ClientType]
      BY <1>1, <2>1, <2>2, ClientUpdate
    <2>4. connection' \in [Clients -> ConnectionType]
      <3>1. connection' = [connection EXCEPT ![c] = NoConnection] /\ NoConnection \in ConnectionType
        BY <1>3 DEF UseInfo, ConnectionType, NoConnection
      <3> QED
        BY <1>1, <3>1, ConnectionUpdate
    <2>5. delivered' \in [Clients -> Seq(Cells)]
      <3>1. delivered' = [delivered EXCEPT ![c] = Append(@, <<FileOf(c), 0>>)]
            /\ FileOf(c) \in DOMAIN Size
        BY <1>3, FileIs DEF IInv, UseInfo, Asking, InTouch
      <3>2. <<FileOf(c), 0>> \in Cells
        BY <3>1 DEF Cells, Payload
      <3>3. delivered[c] \in Seq(Cells)
        BY <1>1 DEF TypeOK
      <3>4. Append(delivered[c], <<FileOf(c), 0>>) \in Seq(Cells)
        BY <3>2, <3>3, AppendProperties
      <3> QED
        BY <1>1, <3>1, <3>4 DEF TypeOK
    <2> QED
      BY <1>1, <2>3, <2>4, <2>5 DEF TypeOK, UseInfo
  <1> QED
    BY <1>2, <1>3

\* Using a chunk keeps the types.
LEMMA UseChunkType ==
    ASSUME IInv, NEW c \in Clients, UseChunk(c) PROVE TypeOK'
  <1>1. client[c] \in ClientType /\ connection[c] \in ConnectionType /\ TypeOK
    BY DEF IInv, TypeOK
  <1>2. client' \in [Clients -> ClientType]
    <2>1. CASE Verified(c)
      <3>1. client' = [client EXCEPT ![c].pc = "info", ![c].buffer = <<>>]
        BY <2>1 DEF UseChunk
      <3>2. <<>> \in Seq(Cells) /\ "info" \in Apart \cup InTouch \cup Gone
        BY EmptySeq DEF InTouch
      <3> QED
        BY <1>1, <3>1, <3>2, BufferUpdate
    <2>2. CASE ~Verified(c)
      <3>1. client' = [client EXCEPT ![c].pc = "corrupt"]
        BY <2>2 DEF UseChunk
      <3> QED
        BY <1>1, <3>1 DEF TypeOK, ClientType, Gone
    <2> QED
      BY <2>1, <2>2
  <1>3. connection' \in [Clients -> ConnectionType]
    <2>1. CASE Verified(c)
      BY <1>1, <2>1 DEF TypeOK, UseChunk
    <2>2. CASE ~Verified(c)
      <3>1. connection' = [connection EXCEPT ![c] = ClosedByClient(connection[c])]
        BY <2>2 DEF UseChunk
      <3> QED
        BY <1>1, <3>1, ClosedType, ConnectionUpdate
    <2> QED
      BY <2>1, <2>2
  <1>4. delivered' \in [Clients -> Seq(Cells)]
    <2>1. delivered[c] \in Seq(Cells) /\ client[c].buffer \in Seq(Cells)
      BY <1>1 DEF TypeOK, ClientType
    <2>2. delivered[c] \o client[c].buffer \in Seq(Cells)
      BY <2>1, ConcatProperties
    <2> QED
      BY <1>1, <2>2 DEF TypeOK, UseChunk
  <1> QED
    BY <1>1, <1>2, <1>3, <1>4 DEF TypeOK, UseChunk

\* The fields of the server
LEMMA ServerTypes ==
    ASSUME TypeOK
    PROVE  /\ server \in ServerType
           /\ server.pc \in AtServer \cup {"accept", "failed", "interrupted"}
           /\ server.client \in Clients \cup {"none"} /\ server.buffer \in Seq(OrderCells)
           /\ server.offset \in Nat /\ server.eof \in BOOLEAN /\ server.last \in BOOLEAN
           /\ server.held \in Seq(Payload) /\ server.chunk \in Seq(Payload)
           /\ Len(server.held) \in Nat /\ Len(server.chunk) \in Nat /\ Len(server.buffer) \in Nat
  <1>1. /\ server \in ServerType
        /\ server.pc \in AtServer \cup {"accept", "failed", "interrupted"}
        /\ server.client \in Clients \cup {"none"} /\ server.buffer \in Seq(OrderCells)
        /\ server.offset \in Nat /\ server.eof \in BOOLEAN /\ server.last \in BOOLEAN
        /\ server.held \in Seq(Payload) /\ server.chunk \in Seq(Payload)
    BY DEF TypeOK, ServerType
  <1> QED
    BY <1>1, LenProperties

\* The server's own steps keep the types.
LEMMA ServerEndsType ==
    ASSUME IInv, NEW pc \in {"failed", "interrupted"}, ServerEnds(pc) PROVE TypeOK'
  <1>1. server' \in ServerType
    <2>1. server' = [server EXCEPT !.pc = pc] /\ server \in ServerType
      BY DEF IInv, TypeOK, ServerEnds
    <2> QED
      BY <2>1 DEF ServerType
  <1>2. connection' \in [Clients -> ConnectionType]
    <2> DEFINE R(c) == connection[c].reset \/ (connection[c].serverOpen
                          /\ (connection[c].up # <<>> \/ \E i \in DOMAIN backlog : backlog[i] = c))
               N(c) == [connection[c] EXCEPT !.serverOpen = FALSE, !.up = <<>>, !.reset = R(c)]
    <2>1. connection' = [c \in Clients |-> N(c)]
      BY DEF ServerEnds
    <2>2. ASSUME NEW c \in Clients PROVE N(c) \in ConnectionType
      <3>1. R(c) \in BOOLEAN /\ <<>> \in Seq(OrderCells)
        BY EmptySeq
      <3>2. connection[c] \in ConnectionType
        BY DEF IInv, TypeOK
      <3> HIDE DEF R
      <3> QED
        BY <3>1, <3>2 DEF ConnectionType
    <2> HIDE DEF N
    <2> QED
      BY <2>1, <2>2
  <1>3. backlog' \in Seq(Clients)
    BY EmptySeq DEF ServerEnds
  <1> QED
    BY <1>1, <1>2, <1>3 DEF IInv, TypeOK, ServerEnds

\* Taking a connection keeps the types.
LEMMA AcceptType == ASSUME IInv, Accept PROVE TypeOK'
  <1>1. backlog \in Seq(Clients) /\ backlog # <<>> /\ server \in ServerType
    BY DEF IInv, TypeOK, Accept
  <1>2. Head(backlog) \in Clients /\ backlog' \in Seq(Clients)
    BY <1>1, HeadTailProperties DEF Accept
  <1>3. server' \in ServerType
    BY <1>1, <1>2, EmptySeq DEF Accept, ServerType, AtServer
  <1> QED
    BY <1>2, <1>3 DEF IInv, TypeOK, Accept

\* How much of a request the server receives at once
LEMMA RequestReceivedIs ==
    ASSUME TypeOK, Queue, ReceiveRequest
    PROVE  /\ server.client \in Clients
           /\ \E n \in 1 .. Len(connection[server.client].up) :
                /\ server' = [server EXCEPT !.buffer =
                                @ \o SubSeq(connection[server.client].up, 1, n)]
                /\ connection' = [connection EXCEPT ![server.client].up =
                     SubSeq(connection[server.client].up, n + 1, Len(connection[server.client].up))]
  <1> DEFINE c == server.client
             up == connection[c].up
  <1>1. c \in Clients
    BY DEF Queue, ReceiveRequest, AtServer
  <1>2. Len(up) \in Nat /\ Len(server.buffer) \in Nat
    <2>1. up \in Seq(OrderCells)
      BY <1>1 DEF TypeOK, ConnectionType
    <2> QED
      BY <2>1, ServerTypes, LenProperties
  <1>3. PICK n \in 1 .. Smaller(RequestSize - Len(server.buffer), Len(up)) :
          /\ server' = [server EXCEPT !.buffer = @ \o SubSeq(up, 1, n)]
          /\ connection' = [connection EXCEPT ![c].up = SubSeq(up, n + 1, Len(up))]
    BY DEF ReceiveRequest
  <1>4. n \in 1 .. Len(up)
    <2> DEFINE b == Len(server.buffer)
               d == Len(up)
               m == Smaller(RequestSize - b, d)
    <2>1. b \in Nat /\ d \in Nat
      BY <1>2
    <2> HIDE DEF b, d
    <2>2. m \in Int /\ m <= d
      BY <2>1 DEF Smaller, RequestSize
    <2>3. n \in 1 .. m
      BY <1>3 DEF b, d
    <2> HIDE DEF m
    <2>4. n \in 1 .. d
      BY <2>1, <2>2, <2>3
    <2> QED
      BY <2>4 DEF d
  <1> QED
    BY <1>1, <1>3, <1>4

\* Receiving a request keeps the types.
LEMMA ReceiveRequestType == ASSUME IInv, ReceiveRequest PROVE TypeOK'
  <1> DEFINE c == server.client
             up == connection[c].up
  <1>1. PICK n \in 1 .. Len(up) :
          /\ server' = [server EXCEPT !.buffer = @ \o SubSeq(up, 1, n)]
          /\ connection' = [connection EXCEPT ![c].up = SubSeq(up, n + 1, Len(up))]
    BY RequestReceivedIs DEF IInv, Data
  <1>2. c \in Clients /\ TypeOK
    BY RequestReceivedIs DEF IInv, Data
  <1>3. connection[c] \in ConnectionType /\ up \in Seq(OrderCells)
    BY <1>2 DEF TypeOK, ConnectionType
  <1>4. SubSeq(up, 1, n) \in Seq(OrderCells) /\ SubSeq(up, n + 1, Len(up)) \in Seq(OrderCells)
    BY <1>1, <1>3, PartType, SMTT(30)
  <1>5. server.buffer \o SubSeq(up, 1, n) \in Seq(OrderCells)
    BY <1>2, <1>4, ServerTypes, ConcatProperties
  <1>6. server' \in ServerType
    BY <1>1, <1>2, <1>5, ServerTypes DEF ServerType
  <1>7. connection' \in [Clients -> ConnectionType]
    BY <1>1, <1>2, <1>3, <1>4 DEF TypeOK, ConnectionType
  <1> QED
    BY <1>2, <1>6, <1>7 DEF TypeOK, ReceiveRequest

\* Opening a file keeps the types.
LEMMA OpenFileType == ASSUME IInv, OpenFile PROVE TypeOK'
  <1>1. server' \in ServerType
    BY ServerTypes, EmptySeq DEF IInv, OpenFile, Opened, ServerType, AtServer
  <1> QED
    BY <1>1 DEF IInv, TypeOK, OpenFile

\* What the server reads: as many pieces as it asks for, or all that are left
LEMMA ReadIs ==
    ASSUME TypeOK, Queue, Orders, Supplies, ReadFile
    PROVE  \E count \in Nat, n \in Nat :
             /\ count = Smaller(AskedOptions.chunkSize, Size[Asked] - server.offset)
             /\ server.offset + count <= Size[Asked]
             /\ count # AskedOptions.chunkSize => server.offset + count = Size[Asked]
             /\ n <= Len(server.held \o Pieces(Asked, server.offset, count))
             /\ server' = [server EXCEPT !.pc = IF n = 0 THEN "read" ELSE "info",
                  !.offset = @ + count, !.eof = (count # AskedOptions.chunkSize),
                  !.chunk = SubSeq(server.held \o Pieces(Asked, server.offset, count), 1, n),
                  !.held = SubSeq(server.held \o Pieces(Asked, server.offset, count), n + 1,
                                  Len(server.held \o Pieces(Asked, server.offset, count))),
                  !.last = FALSE]
  <1> DEFINE count == Smaller(AskedOptions.chunkSize, Size[Asked] - server.offset)
             data == server.held \o Pieces(Asked, server.offset, count)
  <1>1. /\ Asked \in DOMAIN Size /\ Size[Asked] \in Nat /\ server.offset \in Nat
        /\ server.offset <= Size[Asked] /\ AskedOptions.chunkSize \in Nat \ {0}
    <2>1. server.offset <= Size[Asked] /\ Len(server.buffer) = RequestSize /\ server.pc \in AtServer
      BY DEF Supplies, ReadFile, Supplying, AtServer
    <2> QED
      BY <2>1, AskedIs, ServerTypes, OptionsAre
  <1>2. /\ count \in Nat /\ server.offset + count <= Size[Asked]
        /\ count # AskedOptions.chunkSize => server.offset + count = Size[Asked]
    BY <1>1 DEF Smaller
  <1>3. Pieces(Asked, server.offset, count) \in Seq(Payload)
    <2>1. \A i \in 1 .. count : <<Asked, server.offset + i>> \in Payload
      <3> SUFFICES ASSUME NEW i \in 1 .. count PROVE <<Asked, server.offset + i>> \in Payload
        OBVIOUS
      <3>1. server.offset + i \in Nat
        BY <1>1, <1>2
      <3> QED
        BY <1>1, <3>1 DEF Payload
    <2> HIDE DEF count
    <2>2. Pieces(Asked, server.offset, count) \in [1 .. count -> Payload]
      BY <2>1 DEF Pieces
    <2> QED
      BY <1>2, <2>2, FunctionIsSeq
  <1>4. Len(data) \in Nat
    <2>1. data \in Seq(Payload)
      BY <1>3, ServerTypes, ConcatProperties
    <2> HIDE DEF data
    <2> QED
      BY <2>1, LenProperties
  <1>5. data = server.held \o [i \in 1 .. count |-> <<Asked, server.offset + i>>]
    BY DEF Pieces
  <1>6. \E n \in (IF AskedOptions.streaming THEN 0 ELSE Len(data)) .. Len(data) :
          server' = [server EXCEPT !.pc = IF n = 0 THEN "read" ELSE "info",
                       !.offset = @ + count, !.eof = (count # AskedOptions.chunkSize),
                       !.chunk = SubSeq(data, 1, n), !.held = SubSeq(data, n + 1, Len(data)),
                       !.last = FALSE]
    BY <1>5, ZenonT(60) DEF ReadFile, ReachedEnd
  <1>7. PICK n \in (IF AskedOptions.streaming THEN 0 ELSE Len(data)) .. Len(data) :
          server' = [server EXCEPT !.pc = IF n = 0 THEN "read" ELSE "info",
                       !.offset = @ + count, !.eof = (count # AskedOptions.chunkSize),
                       !.chunk = SubSeq(data, 1, n), !.held = SubSeq(data, n + 1, Len(data)),
                       !.last = FALSE]
    BY <1>6
  <1> HIDE DEF count, data
  <1>8. n \in Nat /\ n <= Len(data)
    BY <1>4
  <1>9. data = server.held \o Pieces(Asked, server.offset, count)
    BY DEF data
  <1> QED
    BY <1>2, <1>7, <1>8, <1>9, ZenonT(60) DEF count

\* Pieces of a file
LEMMA PiecesAre ==
    ASSUME NEW f \in DOMAIN Size, NEW from \in Nat, NEW n \in Nat
    PROVE  /\ Pieces(f, from, n) \in Seq(Payload) /\ Len(Pieces(f, from, n)) = n
           /\ \A i \in 1 .. n : Pieces(f, from, n)[i] = <<f, from + i>>
  <1>1. \A i \in 1 .. n : <<f, from + i>> \in Payload
    <2> SUFFICES ASSUME NEW i \in 1 .. n PROVE <<f, from + i>> \in Payload
      OBVIOUS
    <2>1. from + i \in Nat
      OBVIOUS
    <2> QED
      BY <2>1 DEF Payload
  <1>2. Pieces(f, from, n) \in [1 .. n -> Payload]
    BY <1>1 DEF Pieces
  <1>3. Pieces(f, from, n) \in Seq(Payload) /\ Len(Pieces(f, from, n)) = n
    BY <1>2, FunctionIsSeq
  <1> QED
    BY <1>3 DEF Pieces

\* Reading a file keeps the types.
LEMMA ReadFileType == ASSUME IInv, ReadFile PROVE TypeOK'
  <1> DEFINE data(count) == server.held \o Pieces(Asked, server.offset, count)
  <1>1. PICK count \in Nat, n \in Nat :
          /\ n <= Len(data(count))
          /\ server' = [server EXCEPT !.pc = IF n = 0 THEN "read" ELSE "info",
               !.offset = @ + count, !.eof = (count # AskedOptions.chunkSize),
               !.chunk = SubSeq(data(count), 1, n),
               !.held = SubSeq(data(count), n + 1, Len(data(count))), !.last = FALSE]
    BY ReadIs DEF IInv, Data
  <1>2. Asked \in DOMAIN Size
    <2>1. Len(server.buffer) = RequestSize /\ server.pc \in AtServer
      BY DEF IInv, Data, Supplies, ReadFile, Supplying, AtServer
    <2> QED
      BY <2>1, AskedIs DEF IInv, Data
  <1> DEFINE s == server.held \o Pieces(Asked, server.offset, count)
  <1>3. s \in Seq(Payload)
    <2>1. server.held \in Seq(Payload) /\ Pieces(Asked, server.offset, count) \in Seq(Payload)
      BY <1>2, PiecesAre, ServerTypes DEF IInv
    <2> QED
      BY <2>1, ConcatProperties
  <1>4. /\ n <= Len(s)
        /\ server' = [server EXCEPT !.pc = IF n = 0 THEN "read" ELSE "info",
             !.offset = @ + count, !.eof = (count # AskedOptions.chunkSize),
             !.chunk = SubSeq(s, 1, n), !.held = SubSeq(s, n + 1, Len(s)), !.last = FALSE]
    BY <1>1
  <1> HIDE DEF s
  <1>5. SubSeq(s, 1, n) \in Seq(Payload) /\ SubSeq(s, n + 1, Len(s)) \in Seq(Payload)
    <2>1. Len(s) \in Nat
      BY <1>3, LenProperties
    <2>2. n \in 0 .. Len(s)
      BY <1>4, <2>1
    <2> QED
      BY <1>3, <2>2, PartType
  <1>6. server' \in ServerType
    <2>1. server \in ServerType /\ server.offset + count \in Nat
      BY ServerTypes DEF IInv
    <2> QED
      BY <1>4, <1>5, <2>1, ZenonT(60) DEF ServerType, AtServer
  <1> QED
    BY <1>6 DEF IInv, TypeOK, ReadFile

\* Closing the compressor keeps the types.
LEMMA GetRemainingDataType == ASSUME IInv, GetRemainingData PROVE TypeOK'
  <1>1. server' \in ServerType
    BY ServerTypes, EmptySeq DEF IInv, GetRemainingData, ServerType, AtServer
  <1> QED
    BY <1>1 DEF IInv, TypeOK, GetRemainingData

\* The information on a chunk
LEMMA InfoCellsAre ==
    ASSUME NEW s \in Seq(Payload), NEW verify \in BOOLEAN
    PROVE  /\ InfoCells(s, verify) \in Seq(Cells) /\ Len(InfoCells(s, verify)) = InfoSize
           /\ InfoCells(s, verify)[1] = <<"size", Len(s)>> /\ Len(s) \in Nat
           /\ \E x \in Seq(Payload) : /\ InfoCells(s, verify)[2] = <<"sum", x>>
                                      /\ x = IF verify THEN s ELSE <<>>
           /\ s \in Seq(Cells)
  <1> DEFINE x == IF verify THEN s ELSE <<>>
  <1>1. x \in Seq(Payload) /\ Len(s) \in Nat
    BY EmptySeq, LenProperties
  <1>2. InfoCells(s, verify) = <<<<"size", Len(s)>>, <<"sum", x>>>>
    BY DEF InfoCells
  <1>3. s \in Seq(Cells)
    <2>1. s \in [1 .. Len(s) -> Payload]
      BY LenProperties
    <2>2. s \in [1 .. Len(s) -> Cells]
      BY <2>1 DEF Cells
    <2> QED
      BY <1>1, <2>2, FunctionIsSeq
  <1>5. x = IF verify THEN s ELSE <<>>
    OBVIOUS
  <1> HIDE DEF x
  <1>4. <<"size", Len(s)>> \in Cells /\ <<"sum", x>> \in Cells
    BY <1>1 DEF Cells
  <1>6. /\ InfoCells(s, verify) \in Seq(Cells) /\ Len(InfoCells(s, verify)) = 2
        /\ InfoCells(s, verify)[1] = <<"size", Len(s)>> /\ InfoCells(s, verify)[2] = <<"sum", x>>
    BY <1>2, <1>4
  <1>7. \E y \in Seq(Payload) : /\ InfoCells(s, verify)[2] = <<"sum", y>>
                               /\ y = IF verify THEN s ELSE <<>>
    <2>1. x \in Seq(Payload) /\ InfoCells(s, verify)[2] = <<"sum", x>>
      BY <1>1, <1>6
    <2> QED
      BY <1>5, <2>1, Zenon
  <1> QED
    BY <1>1, <1>3, <1>6, <1>7 DEF InfoSize

\* Sending keeps the types.
LEMMA SentType ==
    ASSUME TypeOK, server.client \in Clients, NEW cells \in Seq(Cells)
    PROVE  Sent(cells) \in [Clients -> ConnectionType]
  <1> DEFINE c == server.client
             n == [connection[c] EXCEPT !.down = @ \o cells]
  <1>1. connection[c] \in ConnectionType
    BY DEF TypeOK
  <1>2. connection[c].down \o cells \in Seq(Cells)
    <2>1. connection[c].down \in Seq(Cells)
      BY <1>1 DEF ConnectionType
    <2> QED
      BY <2>1, ConcatProperties
  <1>3. n \in ConnectionType
    BY <1>1, <1>2 DEF ConnectionType
  <1>4. Sent(cells) = IF connection[c].clientOpen THEN [connection EXCEPT ![c] = n] ELSE connection
    BY DEF Sent, TypeOK
  <1> HIDE DEF n
  <1> QED
    BY <1>3, <1>4 DEF TypeOK

\* Where the server may send: its client is one of the clients, who told it
\* what to do.
LEMMA ServedIs ==
    ASSUME IInv, server.pc \in Supplying
    PROVE  /\ server.client \in Clients /\ Serves(server.client) /\ ~Waits(server.client)
           /\ Len(server.buffer) = RequestSize
           /\ Asked \in DOMAIN Size /\ Size[Asked] \in Nat
           /\ AskedOptions = Options[server.client]
           /\ client[server.client].pc \in InTouch => Asked = FileOf(server.client)
           /\ client[server.client].pc # "request"
  <1>1. Len(server.buffer) = RequestSize /\ server.pc \in AtServer
    BY DEF IInv, Data, Supplies, Supplying, AtServer
  <1>2. /\ server.client \in Clients /\ Serves(server.client)
        /\ Asked \in DOMAIN Size /\ Size[Asked] \in Nat
        /\ AskedOptions = Options[server.client]
        /\ client[server.client].pc # "request"
        /\ client[server.client].pc \in InTouch => Asked = FileOf(server.client)
    BY <1>1, AskedIs DEF IInv, Data
  <1>3. ~Waits(server.client)
    BY <1>2 DEF IInv, Data, Queue
  <1> QED
    BY <1>1, <1>2, <1>3

\* Sending the information on a chunk, the chunk or the end keeps the types.
LEMMA SendType ==
    ASSUME IInv, SendInfo \/ SendChunk \/ SendEnd PROVE TypeOK'
  <1>1. server.pc \in Supplying
    BY DEF SendInfo, SendChunk, SendEnd, Supplying
  <1>2. server.client \in Clients /\ AskedOptions.verify \in BOOLEAN /\ server.chunk \in Seq(Payload)
        /\ TypeOK /\ <<>> \in Seq(Payload) /\ <<>> \in Seq(OrderCells)
    BY <1>1, ServedIs, ServerTypes, OptionsAre, EmptySeq DEF IInv
  <1>3. CASE SendInfo
    <2> DEFINE cells == InfoCells(server.chunk, AskedOptions.verify)
    <2>1. cells \in Seq(Cells)
      BY <1>2, InfoCellsAre
    <2>2. connection' = Sent(cells)
      BY <1>3 DEF SendInfo
    <2> HIDE DEF cells
    <2>3. connection' \in [Clients -> ConnectionType]
      BY <1>2, <2>1, <2>2, SentType
    <2>4. server' \in ServerType
      BY <1>2, <1>3, ServerTypes DEF SendInfo, ServerType, AtServer
    <2> QED
      BY <1>2, <1>3, <2>3, <2>4 DEF TypeOK, SendInfo
  <1>4. CASE SendChunk
    <2>1. server.chunk \in Seq(Cells)
      BY <1>2, InfoCellsAre
    <2>2. connection' = Sent(server.chunk)
      BY <1>4 DEF SendChunk
    <2>3. connection' \in [Clients -> ConnectionType]
      BY <1>2, <2>1, <2>2, SentType
    <2>4. server' \in ServerType
      BY <1>2, <1>4, ServerTypes DEF SendChunk, ServerType, AtServer
    <2> QED
      BY <1>2, <1>4, <2>3, <2>4 DEF TypeOK, SendChunk
  <1>5. CASE SendEnd
    <2> DEFINE cells == InfoCells(<<>>, FALSE)
    <2>1. cells \in Seq(Cells)
      BY <1>2, InfoCellsAre
    <2>2. connection' = [Sent(cells) EXCEPT ![server.client].serverOpen = FALSE]
      BY <1>5 DEF SendEnd
    <2> HIDE DEF cells
    <2>3. Sent(cells) \in [Clients -> ConnectionType]
      BY <1>2, <2>1, SentType
    <2>4. connection' \in [Clients -> ConnectionType]
      BY <1>2, <2>2, <2>3 DEF ConnectionType
    <2>5. server' \in ServerType
      BY <1>2, <1>5, ServerTypes DEF SendEnd, ServerType, AtServer
    <2> QED
      BY <1>2, <1>5, <2>4, <2>5 DEF TypeOK, SendEnd
  <1> QED
    BY <1>3, <1>4, <1>5

\* Time passes.
LEMMA TickType == ASSUME TypeOK, Tick PROVE TypeOK'
  <1>1. now' \in Nat /\ delays' \in Nat
    BY DEF TypeOK, Tick
  <1>2. busy' \in [Clients -> Nat]
    <2>1. \A c \in Clients : busy[c] \in Nat /\ busy[c] + 1 \in Nat
      BY DEF TypeOK
    <2>2. busy' = [c \in Clients |-> IF AtWork(c) THEN busy[c] + 1 ELSE busy[c]]
      BY DEF Tick
    <2> QED
      BY <2>1, <2>2
  <1> QED
    BY <1>1, <1>2 DEF TypeOK, Tick
=============================================================================
