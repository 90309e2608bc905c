--------------------------- MODULE SequenceLemmas ---------------------------
(***************************************************************************)
(* Facts about numbers and sequences that the proofs about several modules *)
(* need. Where an induction is needed, it is one on the least              *)
(* counterexample.                                                         *)
(***************************************************************************)
EXTENDS Integers, Sequences, SequencesExt, WellFoundedInduction, SequenceTheorems, TLAPS

-----------------------------------------------------------------------------
(* Numbers *)

\* Less-than on the natural numbers is well founded, as a set of pairs.
LEMMA LessIsWellFounded ==
    \E R : IsWellFoundedOn(R, Nat) /\ \A x, y \in Nat : x < y => <<x, y>> \in R
  <1>1. IsWellFoundedOn(OpToRel(<, Nat), Nat)
    BY NatLessThanWellFounded
  <1>2. \A x, y \in Nat : x < y => <<x, y>> \in OpToRel(<, Nat)
    BY DEF OpToRel
  <1> QED
    BY <1>1, <1>2, Zenon

\* The least number of a set: what stands in for induction below, as the least
\* counterexample
LEMMA LeastExists ==
    ASSUME NEW T, T \subseteq Nat, T # {}
    PROVE  \E m \in T : \A n \in T : m <= n
  <1>1. PICK R : IsWellFoundedOn(R, Nat) /\ \A x, y \in Nat : x < y => <<x, y>> \in R
    BY LessIsWellFounded, Zenon
  <1>2. IsWellFoundedOn(R, Nat)
    BY <1>1
  <1>3. \A x, y \in Nat : x < y => <<x, y>> \in R
    BY <1>1
  <1>4. \E x \in T : \A y \in T : ~(<<y, x>> \in R)
    BY <1>2, WFMin
  <1>5. PICK m \in T : \A y \in T : ~(<<y, m>> \in R)
    BY <1>4
  <1>6. ASSUME NEW n \in T PROVE m <= n
    <2>1. m \in Nat /\ n \in Nat /\ ~(<<n, m>> \in R)
      BY <1>5
    <2>2. ~(n < m)
      BY <2>1, <1>3
    <2> QED
      BY <2>1, <2>2
  <1> QED
    BY <1>6

\* A set of numbers with a bound has a greatest one.
LEMMA GreatestExists ==
    ASSUME NEW S, S \subseteq Nat, S # {}, NEW bound \in Nat, \A n \in S : n <= bound
    PROVE  \E m \in S : \A n \in S : n <= m
  <1> DEFINE T == {bound - n : n \in S}
  <1>1. T \subseteq Nat /\ T # {}
    <2>1. \A n \in S : bound - n \in Nat
      OBVIOUS
    <2> QED
      BY <2>1
  <1>2. PICK x \in T : \A y \in T : x <= y
    <2> HIDE DEF T
    <2> QED
      BY <1>1, LeastExists
  <1>3. PICK m \in S : x = bound - m
    BY <1>2
  <1>4. ASSUME NEW n \in S PROVE n <= m
    <2>1. bound - n \in T /\ n \in Nat /\ m \in Nat
      OBVIOUS
    <2>2. x <= bound - n
      BY <2>1, <1>2
    <2> HIDE DEF T
    <2> QED
      BY <1>3, <2>1, <2>2
  <1> QED
    BY <1>4

\* Intervals from 1 tell where they end.
LEMMA SameInterval ==
    ASSUME NEW a \in Nat, NEW b \in Nat, 1 .. a = 1 .. b
    PROVE  a = b
  <1>1. ASSUME NEW x \in Nat, NEW y \in Nat, 1 .. x = 1 .. y PROVE x <= y
    <2>1. CASE x = 0
      BY <2>1
    <2>2. CASE x # 0
      <3>1. x \in 1 .. x
        BY <2>2
      <3>2. x \in 1 .. y
        BY <3>1, <1>1
      <3> QED
        BY <3>2
    <2> QED
      BY <2>1, <2>2
  <1>2. a <= b /\ b <= a
    BY <1>1
  <1> QED
    BY <1>2

-----------------------------------------------------------------------------
(* Sequences *)

\* A function on 1 .. n is a sequence of length n.
LEMMA FunctionIsSeq ==
    ASSUME NEW S, NEW n \in Nat, NEW f \in [1 .. n -> S]
    PROVE  f \in Seq(S) /\ Len(f) = n
  <1>1. f \in Seq(S)
    BY SeqDef
  <1>2. DOMAIN f = 1 .. n /\ DOMAIN f = 1 .. Len(f) /\ Len(f) \in Nat
    BY <1>1, LenProperties
  <1>3. Len(f) = n
    BY <1>2, SameInterval
  <1> QED
    BY <1>1, <1>3

\* Two sequences, one behind the other
LEMMA ConcatAt ==
    ASSUME NEW S, NEW s \in Seq(S), NEW t \in Seq(S)
    PROVE  /\ s \o t \in Seq(S) /\ Len(s \o t) = Len(s) + Len(t)
           /\ \A i \in 1 .. Len(s) : (s \o t)[i] = s[i]
           /\ \A i \in 1 .. Len(t) : (s \o t)[Len(s) + i] = t[i]
  <1>1. Len(s) \in Nat /\ Len(t) \in Nat
    BY LenProperties
  <1>2. /\ s \o t \in Seq(S) /\ Len(s \o t) = Len(s) + Len(t)
        /\ \A i \in 1 .. Len(s) + Len(t) : (s \o t)[i] = IF i <= Len(s) THEN s[i] ELSE t[i - Len(s)]
    BY ConcatProperties
  <1>3. ASSUME NEW i \in 1 .. Len(s) PROVE (s \o t)[i] = s[i]
    <2>1. i \in 1 .. Len(s) + Len(t) /\ i <= Len(s)
      BY <1>1
    <2> QED
      BY <1>2, <2>1
  <1>4. ASSUME NEW i \in 1 .. Len(t) PROVE (s \o t)[Len(s) + i] = t[i]
    <2>1. Len(s) + i \in 1 .. Len(s) + Len(t) /\ ~(Len(s) + i <= Len(s)) /\ (Len(s) + i) - Len(s) = i
      BY <1>1
    <2> QED
      BY <1>2, <2>1
  <1> QED
    BY <1>2, <1>3, <1>4

\* It makes no difference which of three sequences are joined first.
AnyOrder(a, b, c) == (a \o b) \o c = a \o (b \o c)

LEMMA Associative ==
    ASSUME NEW S, NEW a \in Seq(S), NEW b \in Seq(S), NEW c \in Seq(S)
    PROVE  AnyOrder(a, b, c)
  BY ConcatAssociative DEF AnyOrder

\* Two sequences of which one begins the other
Begins(s, t) == Len(s) <= Len(t) /\ \A i \in 1 .. Len(s) : s[i] = t[i]

\* Begins is transitive.
LEMMA BeginsOn ==
    ASSUME NEW S, NEW s \in Seq(S), NEW t \in Seq(S), NEW u \in Seq(S),
           Begins(s, t), Begins(t, u)
    PROVE  Begins(s, u)
  BY LenProperties DEF Begins

\* What is followed by something begins it, also behind the same.
LEMMA BeginsConcat ==
    ASSUME NEW S, NEW s \in Seq(S), NEW t \in Seq(S), NEW u \in Seq(S), Begins(t, u)
    PROVE  Begins(s, s \o t) /\ Begins(s \o t, s \o u)
  <1>1. /\ Len(s) \in Nat /\ Len(t) \in Nat /\ Len(u) \in Nat
        /\ Len(t) <= Len(u) /\ \A i \in 1 .. Len(t) : t[i] = u[i]
    BY LenProperties DEF Begins
  <1>2. /\ Len(s \o t) = Len(s) + Len(t) /\ Len(s \o u) = Len(s) + Len(u)
        /\ \A i \in 1 .. Len(s) + Len(t) :
             (s \o t)[i] = IF i <= Len(s) THEN s[i] ELSE t[i - Len(s)]
        /\ \A i \in 1 .. Len(s) + Len(u) :
             (s \o u)[i] = IF i <= Len(s) THEN s[i] ELSE u[i - Len(s)]
    BY ConcatProperties
  <1>3. Begins(s, s \o t)
    BY <1>1, <1>2 DEF Begins
  <1>4. ASSUME NEW i \in 1 .. Len(s) + Len(t) PROVE (s \o t)[i] = (s \o u)[i]
    <2>1. i \in 1 .. Len(s) + Len(u)
      BY <1>1
    <2>2. CASE i <= Len(s)
      BY <2>1, <2>2, <1>2
    <2>3. CASE ~(i <= Len(s))
      <3>1. i - Len(s) \in 1 .. Len(t)
        BY <1>1, <2>3
      <3> QED
        BY <2>1, <2>3, <3>1, <1>1, <1>2
    <2> QED
      BY <2>2, <2>3
  <1> QED
    BY <1>1, <1>2, <1>3, <1>4 DEF Begins

\* A sequence that begins another is what is left of it when it is cut.
LEMMA BeginningIsCut ==
    ASSUME NEW S, NEW s \in Seq(S), NEW t \in Seq(S), Begins(s, t)
    PROVE  s = SubSeq(t, 1, Len(s))
  <1>1. Len(s) \in Nat /\ Len(t) \in Nat /\ Len(s) <= Len(t) /\ \A i \in 1 .. Len(s) : s[i] = t[i]
    BY LenProperties DEF Begins
  <1>2. \A i \in 1 .. Len(s) : t[i] \in S
    BY <1>1, ElementOfSeq
  <1>3. /\ SubSeq(t, 1, Len(s)) \in Seq(S)
        /\ Len(SubSeq(t, 1, Len(s))) = Len(s)
        /\ \A i \in 1 .. Len(s) : SubSeq(t, 1, Len(s))[i] = t[i]
    <2>1. /\ SubSeq(t, 1, Len(s)) \in Seq(S)
          /\ Len(SubSeq(t, 1, Len(s))) = IF 1 <= Len(s) THEN Len(s) - 1 + 1 ELSE 0
          /\ \A i \in 1 .. Len(s) - 1 + 1 : SubSeq(t, 1, Len(s))[i] = t[1 + i - 1]
      BY <1>1, <1>2, SubSeqProperties
    <2> QED
      BY <1>1, <2>1
  <1> QED
    BY <1>1, <1>3, SeqEqual

\* The function behind FlattenSeq(): all up to the ith sequence
Upto(ss) ==
    LET flatten[i \in 1 .. Len(ss)] == IF i = 1 THEN ss[i] ELSE flatten[i - 1] \o ss[i]
    IN  flatten

UptoDefined(ss, n, f) ==
    f = [i \in 1 .. n |-> IF i = 1 THEN ss[i] ELSE f[i - 1] \o ss[i]]

\* The recursion has a solution.
LEMMA UptoExists ==
    ASSUME NEW ss, NEW len \in Nat
    PROVE  \E f : UptoDefined(ss, len, f)
  <1> DEFINE T == {n \in Nat : ~(\E f : UptoDefined(ss, n, f))}
  <1>1. SUFFICES ASSUME T # {} PROVE FALSE
    OBVIOUS
  <1>2. PICK m \in T : \A n \in T : m <= n
    BY <1>1, LeastExists
  <1>3. m # 0
    <2>1. UptoDefined(ss, 0, [i \in 1 .. 0 |-> ss])
      BY DEF UptoDefined
    <2> QED
      BY <2>1
  <1>4. m - 1 \in Nat /\ m - 1 \notin T
    BY <1>2, <1>3
  <1>5. PICK g : UptoDefined(ss, m - 1, g)
    BY <1>4
  <1> DEFINE last == IF m = 1 THEN ss[m] ELSE g[m - 1] \o ss[m]
             f == [i \in 1 .. m |-> IF i = m THEN last ELSE g[i]]
  <1>6. \A i \in 1 .. m : f[i] = IF i = 1 THEN ss[i] ELSE f[i - 1] \o ss[i]
    <2> SUFFICES ASSUME NEW i \in 1 .. m
                 PROVE  f[i] = IF i = 1 THEN ss[i] ELSE f[i - 1] \o ss[i]
      OBVIOUS
    <2>1. i # 1 => f[i - 1] = g[i - 1]
      BY <1>4
    <2>2. CASE i = m
      BY <2>1, <2>2
    <2>3. CASE i # m
      <3>1. i \in 1 .. m - 1 /\ f[i] = g[i]
        BY <2>3, <1>4
      <3>2. g[i] = IF i = 1 THEN ss[i] ELSE g[i - 1] \o ss[i]
        BY <3>1, <1>5 DEF UptoDefined
      <3> QED
        BY <2>1, <3>1, <3>2
    <2> QED
      BY <2>2, <2>3
  <1>7. f = [i \in 1 .. m |-> f[i]]
    OBVIOUS
  <1> HIDE DEF f
  <1>8. UptoDefined(ss, m, f)
    BY <1>6, <1>7 DEF UptoDefined
  <1> QED
    BY <1>8

\* All up to the nth sequence, none for 0
Flat(ss, n) == IF n = 0 THEN <<>> ELSE Upto(ss)[n]

\* Flat() adds one sequence after the other, and FlattenSeq() is the last of it.
LEMMA FlatIs ==
    ASSUME NEW S, NEW ss \in Seq(Seq(S))
    PROVE  /\ \A n \in 0 .. Len(ss) : Flat(ss, n) \in Seq(S)
           /\ \A n \in 1 .. Len(ss) : Flat(ss, n) = Flat(ss, n - 1) \o ss[n]
           /\ Flat(ss, 0) = <<>>
           /\ Flat(ss, Len(ss)) = FlattenSeq(ss) /\ FlattenSeq(ss) \in Seq(S)
  <1> DEFINE f == Upto(ss)
  <1>1. Len(ss) \in Nat /\ \A n \in 1 .. Len(ss) : ss[n] \in Seq(S)
    BY LenProperties, ElementOfSeq
  <1>2. UptoDefined(ss, Len(ss), f)
    BY <1>1, UptoExists DEF UptoDefined, Upto
  <1> HIDE DEF f
  <1>3. \A n \in 1 .. Len(ss) : f[n] = IF n = 1 THEN ss[n] ELSE f[n - 1] \o ss[n]
    BY <1>2 DEF UptoDefined
  <1>4. \A n \in 1 .. Len(ss) : f[n] \in Seq(S)
    <2> DEFINE T == {n \in 1 .. Len(ss) : f[n] \notin Seq(S)}
    <2>1. SUFFICES ASSUME T # {} PROVE FALSE
      OBVIOUS
    <2> T \subseteq Nat
      BY <1>1
    <2>2. PICK m \in T : \A n \in T : m <= n
      BY <2>1, LeastExists
    <2>3. m # 1 => m - 1 \in 1 .. Len(ss) /\ f[m - 1] \in Seq(S)
      BY <2>2, <1>1
    <2>4. f[m] \in Seq(S)
      BY <2>3, <1>1, <1>3, ConcatProperties, ZenonT(60)
    <2> QED
      BY <2>4
  <1>5. \A n \in 0 .. Len(ss) : Flat(ss, n) \in Seq(S)
    BY <1>1, <1>4, EmptySeq DEF Flat, f
  <1>6. ASSUME NEW n \in 1 .. Len(ss) PROVE Flat(ss, n) = Flat(ss, n - 1) \o ss[n]
    <2>1. Flat(ss, n) = f[n]
      BY DEF Flat, f
    <2>2. CASE n = 1
      BY <2>1, <2>2, <1>1, <1>3, ConcatEmptySeq DEF Flat
    <2>3. CASE n # 1
      <3>1. Flat(ss, n - 1) = f[n - 1]
        BY <2>3 DEF Flat, f
      <3> QED
        BY <2>1, <2>3, <3>1, <1>3
    <2> QED
      BY <2>2, <2>3
  <1>7. Flat(ss, Len(ss)) = FlattenSeq(ss)
    <2>1. CASE Len(ss) = 0
      BY <2>1, EmptySeq DEF FlattenSeq, Flat
    <2>2. CASE Len(ss) # 0
      BY <2>2 DEF FlattenSeq, Flat, Upto
    <2> QED
      BY <2>1, <2>2
  <1>8. FlattenSeq(ss) \in Seq(S)
    <2>1. Len(ss) \in 0 .. Len(ss)
      BY <1>1
    <2> QED
      BY <2>1, <1>5, <1>7
  <1> QED
    BY <1>5, <1>6, <1>7, <1>8 DEF Flat

\* Flat() only adds.
LEMMA FlatBegins ==
    ASSUME NEW S, NEW ss \in Seq(Seq(S)), NEW n \in 0 .. Len(ss)
    PROVE  Begins(Flat(ss, n), FlattenSeq(ss))
  <1> DEFINE T == {m \in n .. Len(ss) : ~Begins(Flat(ss, n), Flat(ss, m))}
  <1>1. Len(ss) \in Nat
    BY LenProperties
  <1>2. T = {}
    <2>1. SUFFICES ASSUME T # {} PROVE FALSE
      OBVIOUS
    <2>2. T \subseteq Nat
      BY <1>1
    <2>3. PICK m \in T : \A k \in T : m <= k
      BY <2>1, <2>2, LeastExists
    <2>4. CASE m = n
      BY <2>4, <2>3 DEF Begins
    <2>5. CASE m # n
      <3>1. m - 1 \in n .. Len(ss) /\ m \in 1 .. Len(ss) /\ m - 1 \in 0 .. Len(ss)
        BY <2>5, <1>1
      <3>2. m - 1 \notin T
        BY <2>3, <3>1
      <3>3. Begins(Flat(ss, n), Flat(ss, m - 1))
        BY <3>1, <3>2
      <3>4. /\ Flat(ss, n) \in Seq(S) /\ Flat(ss, m) \in Seq(S) /\ Flat(ss, m - 1) \in Seq(S)
            /\ Flat(ss, m) = Flat(ss, m - 1) \o ss[m] /\ ss[m] \in Seq(S)
        <4>1. ss[m] \in Seq(S)
          BY <3>1, ElementOfSeq
        <4>2. /\ \A i \in 0 .. Len(ss) : Flat(ss, i) \in Seq(S)
              /\ \A i \in 1 .. Len(ss) : Flat(ss, i) = Flat(ss, i - 1) \o ss[i]
          BY FlatIs
        <4>3. n \in 0 .. Len(ss) /\ m \in 0 .. Len(ss)
          BY <3>1, <1>1
        <4>4. Flat(ss, n) \in Seq(S) /\ Flat(ss, m) \in Seq(S) /\ Flat(ss, m - 1) \in Seq(S)
          BY <3>1, <4>2, <4>3
        <4>5. Flat(ss, m) = Flat(ss, m - 1) \o ss[m]
          BY <3>1, <4>2
        <4> QED
          BY <4>1, <4>4, <4>5
      <3>5. Begins(ss[m], ss[m])
        BY DEF Begins
      <3>6. Begins(Flat(ss, m - 1), Flat(ss, m))
        BY <3>4, <3>5, BeginsConcat
      <3>7. Begins(Flat(ss, n), Flat(ss, m))
        BY <3>3, <3>4, <3>6, BeginsOn
      <3> QED
        BY <3>7
    <2> QED
      BY <2>4, <2>5
  <1>3. Begins(Flat(ss, n), Flat(ss, Len(ss)))
    BY <1>1, <1>2
  <1> QED
    BY <1>3, FlatIs

-----------------------------------------------------------------------------
(* Joining the first of many sequences *)

Joined(f, k) == FlattenSeq([i \in 1 .. k |-> f[i]])

\* Sequences that begin alike are joined alike.
LEMMA FlatSame ==
    ASSUME NEW S, NEW ss \in Seq(Seq(S)), NEW tt \in Seq(Seq(S)), NEW n \in Nat,
           n <= Len(ss), n <= Len(tt), \A i \in 1 .. n : ss[i] = tt[i]
    PROVE  Flat(ss, n) = Flat(tt, n)
  <1> DEFINE T == {m \in 0 .. n : Flat(ss, m) # Flat(tt, m)}
  <1>1. SUFFICES ASSUME T # {} PROVE FALSE
    OBVIOUS
  <1>2. PICK m \in T : \A k \in T : m <= k
    <2>1. T \subseteq Nat
      OBVIOUS
    <2> QED
      BY <1>1, <2>1, LeastExists
  <1>3. Len(ss) \in Nat /\ Len(tt) \in Nat
    BY LenProperties
  <1>4. CASE m = 0
    BY <1>2, <1>4, FlatIs
  <1>5. CASE m # 0
    <2>1. m \in 1 .. Len(ss) /\ m \in 1 .. Len(tt) /\ m \in 1 .. n /\ m - 1 \in 0 .. n
      BY <1>2, <1>3, <1>5
    <2>2. m - 1 \notin T
      BY <1>2, <2>1
    <2>3. Flat(ss, m - 1) = Flat(tt, m - 1)
      BY <2>1, <2>2
    <2>4. Flat(ss, m) = Flat(ss, m - 1) \o ss[m] /\ Flat(tt, m) = Flat(tt, m - 1) \o tt[m]
      BY <2>1, FlatIs
    <2> QED
      BY <1>2, <2>1, <2>3, <2>4
  <1> QED
    BY <1>4, <1>5

\* Joining one more appends it, and only adds.
LEMMA JoinedIs ==
    ASSUME NEW S, NEW n \in Nat, NEW f \in [1 .. n -> Seq(S)]
    PROVE  /\ Joined(f, 0) = <<>>
           /\ \A k \in 0 .. n : Joined(f, k) \in Seq(S)
           /\ \A k \in 1 .. n : Joined(f, k) = Joined(f, k - 1) \o f[k]
           /\ \A j, k \in 0 .. n : j <= k => Begins(Joined(f, j), Joined(f, k))
  <1> DEFINE first(k) == [i \in 1 .. k |-> f[i]]
  <1>1. ASSUME NEW k \in 0 .. n
        PROVE  first(k) \in Seq(Seq(S)) /\ Len(first(k)) = k
    <2>1. first(k) \in [1 .. k -> Seq(S)] /\ k \in Nat
      OBVIOUS
    <2> HIDE DEF first
    <2> QED
      BY <2>1, FunctionIsSeq
  <1>2. ASSUME NEW j \in 0 .. n, NEW k \in 0 .. n, j <= k
        PROVE  Flat(first(k), j) = Joined(f, j)
    <2>1. first(j) \in Seq(Seq(S)) /\ Len(first(j)) = j /\ first(k) \in Seq(Seq(S)) /\ Len(first(k)) = k
      BY <1>1
    <2>2. \A i \in 1 .. j : first(k)[i] = first(j)[i]
      BY <1>2
    <2>3. j \in Nat /\ j <= Len(first(k)) /\ j <= Len(first(j))
      BY <1>2, <2>1
    <2>4. Flat(first(k), j) = Flat(first(j), j)
      <3> HIDE DEF first
      <3> QED
        BY <2>1, <2>2, <2>3, FlatSame
    <2>5. Flat(first(j), j) = FlattenSeq(first(j))
      <3> HIDE DEF first
      <3>1. Flat(first(j), Len(first(j))) = FlattenSeq(first(j))
        BY <2>1, FlatIs
      <3> QED
        BY <2>1, <3>1
    <2> QED
      BY <2>4, <2>5 DEF Joined
  <1>3. ASSUME NEW k \in 0 .. n PROVE Joined(f, k) \in Seq(S)
    <2>1. FlattenSeq(first(k)) \in Seq(S)
      <3> HIDE DEF first
      <3> QED
        BY <1>1, FlatIs
    <2> QED
      BY <2>1 DEF Joined
  <1>4. Joined(f, 0) = <<>>
    <2>1. 0 \in 0 .. n /\ 0 <= 0
      OBVIOUS
    <2>2. Flat(first(0), 0) = Joined(f, 0)
      <3> HIDE DEF first
      <3> QED
        BY <1>2, <2>1
    <2> QED
      BY <2>2 DEF Flat
  <1>5. ASSUME NEW k \in 1 .. n PROVE Joined(f, k) = Joined(f, k - 1) \o f[k]
    <2>1. k \in 0 .. n /\ k - 1 \in 0 .. n /\ k \in 1 .. k
      OBVIOUS
    <2>2. Flat(first(k), k) = Joined(f, k) /\ Flat(first(k), k - 1) = Joined(f, k - 1)
      BY <1>2, <2>1
    <2>3. Flat(first(k), k) = Flat(first(k), k - 1) \o first(k)[k]
      <3>1. first(k) \in Seq(Seq(S)) /\ Len(first(k)) = k
        BY <1>1, <2>1
      <3> HIDE DEF first
      <3>2. \A i \in 1 .. Len(first(k)) : Flat(first(k), i) = Flat(first(k), i - 1) \o first(k)[i]
        BY <3>1, FlatIs
      <3> QED
        BY <2>1, <3>1, <3>2
    <2>4. first(k)[k] = f[k]
      BY <2>1
    <2> QED
      BY <2>2, <2>3, <2>4
  <1>6. ASSUME NEW j \in 0 .. n, NEW k \in 0 .. n, j <= k
        PROVE  Begins(Joined(f, j), Joined(f, k))
    <2>1. first(k) \in Seq(Seq(S)) /\ Len(first(k)) = k /\ j \in 0 .. k
      BY <1>1, <1>6
    <2>2. Begins(Flat(first(k), j), FlattenSeq(first(k)))
      <3> HIDE DEF first
      <3> QED
        BY <2>1, FlatBegins
    <2>3. Flat(first(k), j) = Joined(f, j)
      BY <1>2, <1>6
    <2> QED
      BY <2>2, <2>3 DEF Joined
  <1> QED
    BY <1>3, <1>4, <1>5, <1>6

\* The kth of n sequences adds its elements to what they are joined to.
Adds(S, f, n, k) ==
    /\ Len(Joined(f, k - 1)) \in Nat /\ Len(f[k]) \in Nat
    /\ Len(Joined(f, k)) = Len(Joined(f, k - 1)) + Len(f[k])
    /\ Len(Joined(f, k)) <= Len(Joined(f, n))
    /\ \A i \in 1 .. Len(f[k]) : Joined(f, n)[Len(Joined(f, k - 1)) + i] = f[k][i]

\* Where the elements of joined sequences are
LEMMA JoinedAt ==
    ASSUME NEW S, NEW n \in Nat, NEW f \in [1 .. n -> Seq(S)], NEW k \in 1 .. n
    PROVE  Adds(S, f, n, k)
  <1>1. n \in 0 .. n /\ k \in 0 .. n /\ k - 1 \in 0 .. n /\ k <= n
    OBVIOUS
  <1> DEFINE before == Joined(f, k - 1)
             upto == Joined(f, k)
             all == Joined(f, n)
             own == f[k]
  <1>2. /\ before \in Seq(S) /\ upto \in Seq(S) /\ all \in Seq(S) /\ own \in Seq(S)
        /\ upto = before \o own /\ Begins(upto, all)
    <2>1. \A i \in 0 .. n : Joined(f, i) \in Seq(S)
      BY JoinedIs
    <2>2. Joined(f, k) = Joined(f, k - 1) \o f[k]
      BY JoinedIs
    <2>3. \A i, j \in 0 .. n : i <= j => Begins(Joined(f, i), Joined(f, j))
      BY JoinedIs
    <2> QED
      BY <1>1, <2>1, <2>2, <2>3
  <1> HIDE DEF before, upto, all, own
  <1>3. Len(before) \in Nat /\ Len(own) \in Nat /\ Len(upto) \in Nat
    BY <1>2, LenProperties
  <1>4. Len(before \o own) = Len(before) + Len(own)
    BY <1>2, ConcatAt
  <1>5. Len(upto) <= Len(all)
    BY <1>2 DEF Begins
  <1>6. ASSUME NEW i \in 1 .. Len(own)
        PROVE  all[Len(before) + i] = own[i]
    <2>1. \A m \in 1 .. Len(own) : (before \o own)[Len(before) + m] = own[m]
      BY <1>2, ConcatAt
    <2>2. Len(before) + i \in 1 .. Len(upto)
      BY <1>2, <1>3, <1>4
    <2>3. upto[Len(before) + i] = all[Len(before) + i]
      BY <1>2, <2>2 DEF Begins
    <2> QED
      BY <1>2, <2>1, <2>3
  <1>7. /\ Len(before) \in Nat /\ Len(own) \in Nat
        /\ Len(upto) = Len(before) + Len(own)
        /\ Len(upto) <= Len(all)
        /\ \A i \in 1 .. Len(own) : all[Len(before) + i] = own[i]
    BY <1>2, <1>3, <1>4, <1>5, <1>6
  <1> QED
    BY <1>7 DEF before, upto, all, own, Adds

\* What joined sequences have between two of them: nothing if those are empty.
LEMMA JoinedNothing ==
    ASSUME NEW S, NEW n \in Nat, NEW f \in [1 .. n -> Seq(S)], NEW u \in Nat, NEW m \in Nat,
           u + m <= n, \A i \in u + 1 .. u + m : f[i] = <<>>
    PROVE  Joined(f, u + m) = Joined(f, u)
  <1> DEFINE T == {k \in 0 .. m : Joined(f, u + k) # Joined(f, u)}
  <1>0. m \in 0 .. m
    OBVIOUS
  <1>1. SUFFICES ASSUME T # {} PROVE FALSE
    BY <1>0
  <1>2. PICK k \in T : \A j \in T : k <= j
    <2>1. T \subseteq Nat
      OBVIOUS
    <2> QED
      BY <1>1, <2>1, LeastExists
  <1>3. CASE k = 0
    BY <1>2, <1>3
  <1>4. CASE k # 0
    <2>1. k - 1 \in 0 .. m /\ u + k \in 1 .. n /\ u + k \in u + 1 .. u + m /\ u + (k - 1) \in 0 .. n
          /\ (u + k) - 1 = u + (k - 1)
      BY <1>2, <1>4
    <2>2. k - 1 \notin T
      <3>1. k \in Nat /\ ~(k <= k - 1)
        BY <1>2
      <3> HIDE DEF T
      <3> QED
        BY <1>2, <3>1
    <2>3. Joined(f, u + (k - 1)) = Joined(f, u)
      BY <2>1, <2>2
    <2>4. Joined(f, u + k) = Joined(f, u + (k - 1)) \o f[u + k] /\ Joined(f, u + (k - 1)) \in Seq(S)
      BY <2>1, JoinedIs, ZenonT(60)
    <2>5. Joined(f, u + (k - 1)) \o <<>> = Joined(f, u + (k - 1))
      BY <2>4, ConcatEmptySeq
    <2> QED
      BY <1>2, <2>1, <2>3, <2>4, <2>5
  <1> QED
    BY <1>3, <1>4

\* The first k elements of g
Initial(g, k) == [i \in 1 .. k |-> g[i]]

\* One more element, with the others before it
Follows(S, g, k) ==
    /\ Initial(g, k - 1) \in [1 .. k - 1 -> S] /\ Initial(g, k - 1) \in Seq(S)
    /\ Initial(g, k - 1) \o <<g[k]>> = Initial(g, k)

LEMMA OneByOne ==
    ASSUME NEW S, NEW m \in Nat, NEW g \in [1 .. m -> S], NEW k \in 1 .. m
    PROVE  Follows(S, g, k)
  <1>1. \A j \in 0 .. m : Initial(g, j) \in [1 .. j -> S] /\ Initial(g, j) \in Seq(S) /\ Len(Initial(g, j)) = j
    <2> SUFFICES ASSUME NEW j \in 0 .. m
                 PROVE  Initial(g, j) \in [1 .. j -> S] /\ Initial(g, j) \in Seq(S) /\ Len(Initial(g, j)) = j
      OBVIOUS
    <2>1. j \in Nat /\ Initial(g, j) \in [1 .. j -> S]
      BY DEF Initial
    <2> QED
      BY <2>1, FunctionIsSeq
  <1>2. k \in Nat /\ k - 1 \in 0 .. m /\ k \in 0 .. m /\ (k - 1) + 1 = k /\ g[k] \in S
    OBVIOUS
  <1> DEFINE a == Initial(g, k - 1)
             b == <<g[k]>>
             c == Initial(g, k)
  <1>3. /\ a \in Seq(S) /\ Len(a) = k - 1 /\ b \in Seq(S) /\ Len(b) = 1 /\ b[1] = g[k]
        /\ c \in Seq(S) /\ Len(c) = k
    BY <1>1, <1>2
  <1>4. /\ \A i \in 1 .. k - 1 : a[i] = g[i]
        /\ \A i \in 1 .. k : c[i] = g[i]
    BY <1>2 DEF Initial
  <1> HIDE DEF a, b, c
  <1>5. a \in Seq(S) /\ b \in Seq(S)
    BY <1>3
  <1>6. a \o b \in Seq(S) /\ Len(a \o b) = Len(a) + Len(b)
    BY <1>5, ConcatAt
  <1>7. /\ \A i \in 1 .. Len(a) : (a \o b)[i] = a[i]
        /\ \A i \in 1 .. Len(b) : (a \o b)[Len(a) + i] = b[i]
    BY <1>5, ConcatAt
  <1>8. ASSUME NEW i \in 1 .. k PROVE (a \o b)[i] = c[i]
    <2>1. CASE i = k
      <3>1. 1 \in 1 .. Len(b) /\ Len(a) + 1 = k
        BY <1>2, <1>3
      <3>2. (a \o b)[Len(a) + 1] = b[1]
        BY <1>7, <3>1
      <3> QED
        BY <1>3, <1>4, <2>1, <3>1, <3>2
    <2>2. CASE i # k
      <3>1. i \in 1 .. k - 1
        BY <1>2, <2>2
      <3> QED
        BY <1>3, <1>4, <1>7, <3>1
    <2> QED
      BY <2>1, <2>2
  <1>9. Len(a \o b) = k
    BY <1>2, <1>3, <1>6
  <1>10. a \o b = c
    BY <1>3, <1>6, <1>8, <1>9, SeqEqual
  <1> QED
    BY <1>1, <1>2, <1>10 DEF a, b, c, Follows

\* The elements of g, one sequence each
Singles(f, u, m, g) == \A i \in 1 .. m : f[u + i] = <<g[i]>>

\* The m sequences of f behind the first u add g to them.
Appends(f, u, m, g) == Joined(f, u + m) = Joined(f, u) \o g

\* And a sequence if those have one element each.
LEMMA JoinedSingles ==
    ASSUME NEW S, NEW n \in Nat, NEW f \in [1 .. n -> Seq(S)], NEW u \in Nat, NEW m \in Nat,
           NEW g \in [1 .. m -> S],
           u + m <= n, Singles(f, u, m, g)
    PROVE  Appends(f, u, m, g)
  <1> DEFINE part(k) == [i \in 1 .. k |-> g[i]]
             T == {k \in 0 .. m : Joined(f, u + k) # Joined(f, u) \o part(k)}
  <1>1. \A k \in 0 .. m : part(k) \in [1 .. k -> S] /\ part(k) \in Seq(S) /\ Len(part(k)) = k
    <2> SUFFICES ASSUME NEW k \in 0 .. m
                 PROVE  part(k) \in [1 .. k -> S] /\ part(k) \in Seq(S) /\ Len(part(k)) = k
      OBVIOUS
    <2>1. k \in Nat /\ part(k) \in [1 .. k -> S]
      OBVIOUS
    <2> HIDE DEF part
    <2> QED
      BY <2>1, FunctionIsSeq
  <1>2. T = {}
    <2>1. SUFFICES ASSUME T # {} PROVE FALSE
      OBVIOUS
    <2>2. PICK k \in T : \A j \in T : k <= j
      <3>1. T \subseteq Nat
        OBVIOUS
      <3> QED
        BY <2>1, <3>1, LeastExists
    <2>3. u \in 0 .. n /\ Joined(f, u) \in Seq(S)
      <3>1. u \in 0 .. n
        OBVIOUS
      <3>2. \A i \in 0 .. n : Joined(f, i) \in Seq(S)
        BY JoinedIs
      <3> QED
        BY <3>1, <3>2
    <2>4. CASE k = 0
      <3>1. part(0) = <<>>
        BY <1>1, EmptySeq
      <3> QED
        BY <2>2, <2>3, <2>4, <3>1, ConcatEmptySeq
    <2>5. CASE k # 0
      <3>1. k - 1 \in 0 .. m /\ k \in 1 .. m /\ u + k \in 1 .. n /\ u + (k - 1) \in 0 .. n
            /\ (u + k) - 1 = u + (k - 1)
        BY <2>2, <2>5
      <3>2. k - 1 \notin T
        <4>1. k \in Nat /\ ~(k <= k - 1)
          BY <2>2
        <4> HIDE DEF T
        <4> QED
          BY <2>2, <4>1
      <3>3. Joined(f, u + (k - 1)) = Joined(f, u) \o part(k - 1)
        BY <3>1, <3>2
      <3>4. Joined(f, u + k) = Joined(f, u + (k - 1)) \o f[u + k]
        BY <3>1, JoinedIs, ZenonT(60)
      <3>5. f[u + k] = <<g[k]>> /\ g[k] \in S /\ <<g[k]>> \in Seq(S)
        BY <3>1 DEF Singles
      <3>6. part(k - 1) \o <<g[k]>> = part(k)
        BY <3>1, OneByOne DEF Initial, Follows
      <3>7. (Joined(f, u) \o part(k - 1)) \o <<g[k]>> = Joined(f, u) \o (part(k - 1) \o <<g[k]>>)
        <4> DEFINE before == Joined(f, u)
                   some == part(k - 1)
                   one == <<g[k]>>
        <4>1. before \in Seq(S) /\ some \in Seq(S) /\ one \in Seq(S)
          BY <1>1, <2>3, <3>1, <3>5
        <4> HIDE DEF before, some, one, part, T
        <4>2. (before \o some) \o one = before \o (some \o one)
          BY <4>1, Associative, SMTT(30) DEF AnyOrder
        <4> QED
          BY <4>2 DEF before, some, one
      <3> QED
        BY <2>2, <3>3, <3>4, <3>5, <3>6, <3>7
    <2> QED
      BY <2>4, <2>5
  <1>3. m \in 0 .. m /\ part(m) = g
    OBVIOUS
  <1> QED
    BY <1>2, <1>3 DEF Appends

=============================================================================
