------------------------ MODULE HTTPListenersProofs ------------------------
(***************************************************************************)
(* Proofs about HTTPListeners and the codec below it (LZWDict and          *)
(* LZWDictCompress): for any number of bytes, any size of a dictionary and *)
(* any length of a word, any responses, payload and dictionaries, and      *)
(* whatever the compressors hold back.                                     *)
(***************************************************************************)
EXTENDS HTTPListeners, SequenceLemmas, FiniteSetTheorems, SequenceTheorems, TLAPS

-----------------------------------------------------------------------------
(* Words *)

\* What a byte makes of a word
LEMMA WordGrows ==
    ASSUME NEW w \in Seq(Bytes), NEW b \in Bytes
    PROVE  /\ Append(w, b) \in Seq(Bytes)
           /\ Append(<<>>, b) = <<b>>
           /\ <<b>> \in Seq(Bytes)
  <1>1. Append(w, b) \in Seq(Bytes)
    BY AppendProperties
  <1>2. Append(<<>>, b) = <<b>>
    OBVIOUS
  <1>3. <<b>> \in Seq(Bytes)
    OBVIOUS
  <1>4. QED
    BY <1>1, <1>2, <1>3

\* A dictionary and a word are a node, and the byte below a root a letter.
LEMMA IsNode ==
    ASSUME NEW d \in Dicts, NEW w \in Seq(Bytes)
    PROVE  <<d, w>> \in Dicts \X Seq(Bytes)
  OBVIOUS

\* A word of one byte is one.
LEMMA IsLetter ==
    ASSUME NEW d \in Dicts, NEW b \in Bytes
    PROVE  <<d, <<b>>>> \in Letters
  BY DEF Letters

\* What is given and what is held grow by the byte that is read.
LEMMA HeldGrows ==
    ASSUME NEW s \in Seq(Bytes), NEW w \in Seq(Bytes), NEW b \in Bytes
    PROVE  s \o Append(w, b) = Append(s \o w, b)
  <1>1. /\ <<b>> \in Seq(Bytes) /\ Append(w, b) = w \o <<b>>
        /\ s \o w \in Seq(Bytes)
    BY WordGrows, AppendIsConcat, ConcatProperties
  <1>2. s \o (w \o <<b>>) = (s \o w) \o <<b>>
    BY <1>1, ConcatAssociative
  <1>3. Append(s \o w, b) = (s \o w) \o <<b>>
    BY <1>1, AppendIsConcat
  <1>4. QED
    BY <1>1, <1>2, <1>3

-----------------------------------------------------------------------------
(* Types *)

\* The encoders stand on nodes, and every byte is a word.
Standing ==
    /\ Letters \subseteq DOMAIN encTree
    /\ \A d \in Dicts : /\ coder[d].node \in DOMAIN encTree \cup {Root(d)}
                       /\ coder[d].node[1] = d

Shape == DictTypeOK /\ PairTypeOK /\ Standing

\* The dictionaries at the start
LEMMA ShapeInit == LZWInit => Shape
  <1> SUFFICES ASSUME LZWInit PROVE Shape
    OBVIOUS
  <1> USE DEF LZWInit, DictInit, PairInit
  <1>1. \A b \in Bytes : <<b>> \in Seq(Bytes) /\ b \in 0 .. MaxIdx
    BY WordGrows, EmptySeq, LZWAssumption DEF Bytes
  <1>2. <<>> \in Seq(Bytes)
    BY EmptySeq
  <1>3. \A n \in Letters : n \in Dicts \X Seq(Bytes) /\ n[2][1] \in 0 .. MaxIdx
    <2> SUFFICES ASSUME NEW n \in Letters
                 PROVE  n \in Dicts \X Seq(Bytes) /\ n[2][1] \in 0 .. MaxIdx
      OBVIOUS
    <2>1. n[1] \in Dicts /\ n[2] \in {<<b>> : b \in Bytes} /\ n = <<n[1], n[2]>>
      BY DEF Letters
    <2>2. PICK b \in Bytes : n[2] = <<b>>
      BY <2>1
    <2>3. n[2] \in Seq(Bytes) /\ n[2][1] = b
      BY <1>1, <2>2
    <2>4. n \in Dicts \X Seq(Bytes)
      BY <2>1, <2>3, IsNode
    <2>5. QED
      BY <1>1, <2>3, <2>4
  <1>4. \A d \in Dicts : Root(d) \in Dicts \X Seq(Bytes)
    BY <1>2 DEF Root
  <1>5. encTree \in [DOMAIN encTree -> 0 .. MaxIdx] /\ DOMAIN encTree = Letters
    BY <1>3
  <1>6. DOMAIN encTree \subseteq Dicts \X Seq(Bytes)
    BY <1>3, <1>5
  <1>7. dec \in [Indices -> Seq(Bytes)]
    BY <1>1, <1>2
  <1>8. nextIdx \in [Dicts -> EOF + 1 .. MaxIdx + 1]
    BY LZWAssumption DEF EOF
  <1>9. curNode \in Dicts \X Seq(Bytes) /\ pending \in Seq(Bytes) /\ readers \subseteq Dicts
    BY <1>2, <1>4
  <1>10. PairTypeOK
    BY <1>2, <1>4, EmptySeq DEF PairTypeOK
  <1>11. Standing
    BY <1>5 DEF Standing, Root
  <1>12. QED
    BY <1>5, <1>6, <1>7, <1>8, <1>9, <1>10, <1>11 DEF Shape, DictTypeOK

\* Where a byte is looked up, and the word that it makes
LEMMA LookUp ==
    ASSUME DictTypeOK, NEW d \in Dicts, NEW b \in Bytes
    PROVE  /\ Start(d) \in Dicts \X Seq(Bytes)
           /\ Longer(b) \in Seq(Bytes)
           /\ Below(Start(d), b) \in Dicts \X Seq(Bytes)
           /\ Below(Start(d), b) = <<Start(d)[1], Append(Start(d)[2], b)>>
           /\ Below(Root(d), b) = <<d, <<b>>>>
           /\ Below(Root(d), b) \in Letters
           /\ Below(Root(d), b) \in Dicts \X Seq(Bytes)
  <1>1. Root(d) \in Dicts \X Seq(Bytes) /\ <<>> \in Seq(Bytes)
    BY EmptySeq DEF Root
  <1>2. Start(d) \in Dicts \X Seq(Bytes)
    BY <1>1 DEF Start, DictTypeOK
  <1>3. Longer(b) \in Seq(Bytes)
    BY <1>1, WordGrows DEF Longer, DictTypeOK
  <1>4. /\ Start(d)[1] \in Dicts
        /\ Append(Start(d)[2], b) \in Seq(Bytes)
    BY <1>2, WordGrows
  <1>5. Append(<<>>, b) = <<b>> /\ <<b>> \in Seq(Bytes)
    BY <1>1, WordGrows
  <1>6. Below(Root(d), b) = <<d, <<b>>>>
    BY <1>5 DEF Below, Root
  <1>7. Below(Start(d), b) = <<Start(d)[1], Append(Start(d)[2], b)>>
    BY DEF Below
  <1>8. Below(Start(d), b) \in Dicts \X Seq(Bytes)
    BY <1>4, <1>7, IsNode, Zenon
  <1>9. Below(Root(d), b) \in Letters /\ Below(Root(d), b) \in Dicts \X Seq(Bytes)
    BY <1>5, <1>6, IsNode, IsLetter, Zenon
  <1>10. QED
    BY <1>2, <1>3, <1>6, <1>7, <1>8, <1>9

\* What reading a byte does to the dictionary: nothing but moving the cursor,
\* or known words stay and the new word has the next index.
LEMMA ReadByte ==
    ASSUME DictTypeOK, NEW d \in Dicts, NEW b \in Bytes, AppendByte(d, b)
    PROVE  \/ /\ UNCHANGED <<encTree, dec, nextIdx, pending>>
              /\ curNode' = IF readers = {} THEN Root(d) ELSE curNode
           \/ /\ UNCHANGED <<encTree, dec, nextIdx>>
              /\ curNode' = Below(Start(d), b) /\ pending' = Longer(b)
           \/ /\ nextIdx[d] \in EOF + 1 .. MaxIdx
              /\ Below(Start(d), b) \notin DOMAIN encTree
              /\ DOMAIN encTree' = DOMAIN encTree \cup {Below(Start(d), b)}
              /\ encTree'[Below(Start(d), b)] = nextIdx[d]
              /\ \A n \in DOMAIN encTree : encTree'[n] = encTree[n]
              /\ encTree' \in [DOMAIN encTree' -> 0 .. MaxIdx]
              /\ dec' = [dec EXCEPT ![<<d, nextIdx[d]>>] = Longer(b)]
              /\ nextIdx' = [nextIdx EXCEPT ![d] = @ + 1]
              /\ curNode' = Below(Root(d), b) /\ pending' = <<b>>
  <1>1. CASE ~IsFull(d) /\ Hit(d, b)
    BY <1>1 DEF Hit
  <1>2. CASE ~IsFull(d) /\ Miss(d, b)
    <2> DEFINE new == Below(Start(d), b)
    <2>1. nextIdx[d] \in EOF + 1 .. MaxIdx + 1 /\ ~(nextIdx[d] > MaxIdx)
      BY <1>2 DEF DictTypeOK, IsFull
    <2>2. nextIdx[d] \in EOF + 1 .. MaxIdx /\ nextIdx[d] \in 0 .. MaxIdx
      BY <2>1, LZWAssumption DEF EOF
    <2>3. encTree \in [DOMAIN encTree -> 0 .. MaxIdx]
      BY DEF DictTypeOK
    <2>4. /\ new \notin DOMAIN encTree
          /\ encTree' = [n \in DOMAIN encTree \cup {new} |->
                            IF n = new THEN nextIdx[d] ELSE encTree[n]]
          /\ dec' = [dec EXCEPT ![<<d, nextIdx[d]>>] = Longer(b)]
          /\ nextIdx' = [nextIdx EXCEPT ![d] = @ + 1]
          /\ curNode' = Below(Root(d), b) /\ pending' = <<b>>
      BY <1>2, Zenon DEF Miss
    <2> HIDE DEF new
    <2>5. /\ DOMAIN encTree' = DOMAIN encTree \cup {new}
          /\ encTree'[new] = nextIdx[d]
          /\ \A n \in DOMAIN encTree : encTree'[n] = encTree[n]
      BY <2>4
    <2>6. encTree' \in [DOMAIN encTree' -> 0 .. MaxIdx]
      BY <2>2, <2>3, <2>4
    <2>7. QED
      BY <2>2, <2>4, <2>5, <2>6 DEF new
  <1>3. CASE IsFull(d)
    BY <1>3 DEF AppendByte, Return
  <1>4. QED
    BY <1>1, <1>2, <1>3 DEF AppendByte

\* A step of a dictionary keeps the types, and the encoders on their nodes.
LEMMA ShapeReads ==
    ASSUME Shape, NEW d \in Dicts, NEW b \in Bytes,
           AppendByte(d, b), UNCHANGED pairVars
    PROVE  Shape'
  <1> USE DEF Shape
  <1>1. UNCHANGED <<coder, taken, given>>
    BY DEF pairVars
  <1>2. PairTypeOK'
    BY <1>1 DEF PairTypeOK
  <1> DEFINE new == Below(Start(d), b)
  <1>3. /\ new \in Dicts \X Seq(Bytes) /\ Longer(b) \in Seq(Bytes)
        /\ Below(Root(d), b) \in Dicts \X Seq(Bytes) /\ <<b>> \in Seq(Bytes)
        /\ Root(d) \in Dicts \X Seq(Bytes) /\ readers' \subseteq Dicts
    BY LookUp, WordGrows, EmptySeq DEF Root, AppendByte, DictTypeOK
  <1> HIDE DEF new
  <1>0. CASE /\ UNCHANGED <<encTree, dec, nextIdx, pending>>
             /\ curNode' = IF readers = {} THEN Root(d) ELSE curNode
    <2>1. DictTypeOK'
      BY <1>3, <1>0 DEF DictTypeOK
    <2>2. Standing'
      BY <1>1, <1>0 DEF Standing, Root
    <2>3. QED
      BY <1>2, <2>1, <2>2
  <1>4. CASE /\ UNCHANGED <<encTree, dec, nextIdx>>
             /\ curNode' = new /\ pending' = Longer(b)
    <2>1. DictTypeOK'
      BY <1>3, <1>4 DEF DictTypeOK
    <2>2. Standing'
      BY <1>1, <1>4 DEF Standing, Root
    <2>3. QED
      BY <1>2, <2>1, <2>2
  <1>5. CASE /\ nextIdx[d] \in EOF + 1 .. MaxIdx
             /\ DOMAIN encTree' = DOMAIN encTree \cup {new}
             /\ encTree' \in [DOMAIN encTree' -> 0 .. MaxIdx]
             /\ dec' = [dec EXCEPT ![<<d, nextIdx[d]>>] = Longer(b)]
             /\ nextIdx' = [nextIdx EXCEPT ![d] = @ + 1]
             /\ curNode' = Below(Root(d), b) /\ pending' = <<b>>
    <2>1. DOMAIN encTree' \subseteq Dicts \X Seq(Bytes)
      BY <1>3, <1>5 DEF DictTypeOK
    <2>2. dec' \in [Indices -> Seq(Bytes)]
      BY <1>3, <1>5 DEF DictTypeOK
    <2>3. nextIdx[d] + 1 \in EOF + 1 .. MaxIdx + 1
      BY <1>5, LZWAssumption DEF EOF
    <2>4. nextIdx' \in [Dicts -> EOF + 1 .. MaxIdx + 1]
      BY <1>5, <2>3 DEF DictTypeOK
    <2>5. DictTypeOK'
      BY <1>3, <1>5, <2>1, <2>2, <2>4 DEF DictTypeOK
    <2>6. Standing'
      BY <1>1, <1>5 DEF Standing, Root
    <2>7. QED
      BY <1>2, <2>5, <2>6
  <1>6. QED
    BY <1>0, <1>4, <1>5, ReadByte DEF new

\* What the encoder of d makes of a byte: it goes down, or it gives the index
\* of the word it holds and holds the byte.
LEMMA EncodeByte ==
    ASSUME Shape, NEW d \in Dicts, NEW b \in Bytes, IsOpen(d)
    PROVE  \/ /\ Below(coder[d].node, b) \in DOMAIN encTree
              /\ Encoded(coder[d], d, b) = [node |-> Below(coder[d].node, b), out |-> <<>>]
           \/ /\ coder[d].node \in DOMAIN encTree
              /\ Encoded(coder[d], d, b) =
                    [node |-> Below(Root(d), b), out |-> <<encTree[coder[d].node]>>]
  <1>1. coder[d] \in [node : Dicts \X Seq(Bytes), out : Seq(0 .. MaxIdx)]
    BY DEF Shape, PairTypeOK
  <1>2. coder[d].out = <<>>
    BY DEF IsOpen
  <1>3. CASE Below(coder[d].node, b) \in DOMAIN encTree
    <2>1. Encoded(coder[d], d, b) = [coder[d] EXCEPT !.node = Below(coder[d].node, b)]
      BY <1>3 DEF Encoded
    <2>2. Encoded(coder[d], d, b) = [node |-> Below(coder[d].node, b), out |-> <<>>]
      BY <1>1, <1>2, <2>1
    <2>3. QED
      BY <1>3, <2>2
  <1>4. CASE Below(coder[d].node, b) \notin DOMAIN encTree
    <2>1. Below(Root(d), b) \in DOMAIN encTree
      BY LookUp DEF Shape, Standing
    <2>2. coder[d].node \in DOMAIN encTree
      BY <1>4, <2>1 DEF Shape, Standing
    <2>3. Append(<<>>, encTree[coder[d].node]) = <<encTree[coder[d].node]>>
      OBVIOUS
    <2>4. QED
      BY <1>2, <1>4, <2>2, <2>3 DEF Encoded
  <1>5. QED
    BY <1>3, <1>4

\* A step of a pair keeps the types, and its encoder on a node.
LEMMA ShapeCodes ==
    ASSUME Shape, NEW d \in Dicts, UNCHANGED dictVars,
           \/ Create(d)
           \/ Open(d)
           \/ IsOpen(d) /\ \E b \in Bytes : Compress(d, b)
           \/ IsOpen(d) /\ Close(d)
    PROVE  Shape'
  <1>1. /\ UNCHANGED <<encTree, dec, nextIdx, curNode, pending, readers>>
        /\ DictTypeOK'
    BY DEF Shape, DictTypeOK, dictVars
  <1>2. /\ coder[d] \in [node : Dicts \X Seq(Bytes), out : Seq(0 .. MaxIdx)]
        /\ coder[d].node \in DOMAIN encTree \cup {Root(d)} /\ coder[d].node[1] = d
        /\ taken[d] \in Seq(Bytes) /\ given[d] \in Seq(Bytes)
    BY DEF Shape, PairTypeOK, Standing
  <1>3. \A i \in 0 .. MaxIdx : dec[<<d, i>>] \in Seq(Bytes)
    BY DEF Shape, DictTypeOK, Indices
  <1>4. \A n \in DOMAIN encTree : encTree[n] \in 0 .. MaxIdx
    BY DEF Shape, DictTypeOK
  <1>5. <<>> \in Seq(0 .. MaxIdx) /\ <<>> \in Seq(Bytes) /\ Root(d) \in Dicts \X Seq(Bytes)
    BY EmptySeq DEF Root
  <1>6. \A i \in 0 .. MaxIdx : <<i>> \in Seq(0 .. MaxIdx) /\ <<i>>[1] = i /\ <<i>> # <<>>
    OBVIOUS
  <1>7. ASSUME NEW c \in [node : Dicts \X Seq(Bytes), out : Seq(0 .. MaxIdx)],
               c.node \in DOMAIN encTree \cup {Root(d)}, c.node[1] = d, coder' = [coder EXCEPT ![d] = c],
               NEW t \in Seq(Bytes), taken' = [taken EXCEPT ![d] = t],
               NEW g \in Seq(Bytes), given' = [given EXCEPT ![d] = g]
        PROVE  Shape'
    <2>1. PairTypeOK'
      BY <1>7 DEF Shape, PairTypeOK
    <2>2. Standing'
      BY <1>1, <1>7 DEF Shape, Standing, PairTypeOK, Root
    <2>3. QED
      BY <1>1, <2>1, <2>2 DEF Shape
  <1>8. CASE Open(d)
    <2> DEFINE c == [coder[d] EXCEPT !.out = <<>>]
    <2>1. c = [node |-> coder[d].node, out |-> <<>>]
      BY <1>2
    <2>2. c \in [node : Dicts \X Seq(Bytes), out : Seq(0 .. MaxIdx)] /\ c.node = coder[d].node
      BY <1>2, <1>5, <2>1
    <2>3. coder' = [coder EXCEPT ![d] = c]
      BY <1>8 DEF Open
    <2>4. coder[d].node[2] \in Seq(Bytes)
      BY <1>2
    <2> HIDE DEF c
    <2>5. QED
      BY <1>2, <1>5, <1>7, <1>8, <2>2, <2>3, <2>4 DEF Open
  <1>9. ASSUME NEW b \in Bytes, IsOpen(d), Compress(d, b)
        PROVE  Shape'
    <2> DEFINE e == Encoded(coder[d], d, b)
               c == [e EXCEPT !.out = <<>>]
    <2>0. \/ /\ Below(coder[d].node, b) \in DOMAIN encTree
             /\ e = [node |-> Below(coder[d].node, b), out |-> <<>>]
          \/ /\ coder[d].node \in DOMAIN encTree
             /\ e = [node |-> Below(Root(d), b), out |-> <<encTree[coder[d].node]>>]
      BY <1>9, EncodeByte
    <2> HIDE DEF e
    <2>1. \/ e.node = Below(coder[d].node, b) /\ e.node \in DOMAIN encTree /\ e.out = <<>>
          \/ e.node = Below(Root(d), b) /\ \E i \in 0 .. MaxIdx : e.out = <<i>>
      BY <1>4, <2>0
    <2>2. e.node \in DOMAIN encTree /\ Decoded(d, e.out) \in Seq(Bytes) /\ e.node[1] = d
      <3>1. /\ Below(coder[d].node, b)[1] = coder[d].node[1]
            /\ Below(Root(d), b)[1] = d /\ Below(Root(d), b) \in DOMAIN encTree
        BY LookUp DEF Below, Root, Shape, Standing
      <3>2. e.node \in DOMAIN encTree /\ e.node[1] = d
        BY <1>2, <2>1, <3>1
      <3>3. Decoded(d, e.out) \in Seq(Bytes)
        BY <1>3, <1>5, <1>6, <2>1 DEF Decoded
      <3>4. QED
        BY <3>2, <3>3
    <2>3. c = [node |-> e.node, out |-> <<>>]
      BY <2>0
    <2>4. e.node \in Dicts \X Seq(Bytes)
      BY <2>2 DEF Shape, DictTypeOK
    <2>5. c \in [node : Dicts \X Seq(Bytes), out : Seq(0 .. MaxIdx)] /\ c.node = e.node
      BY <1>5, <2>3, <2>4
    <2>6. /\ Append(taken[d], b) \in Seq(Bytes)
          /\ given[d] \o Decoded(d, e.out) \in Seq(Bytes)
      BY <1>2, <2>2, WordGrows, ConcatProperties
    <2>7. /\ coder' = [coder EXCEPT ![d] = c]
          /\ taken' = [taken EXCEPT ![d] = Append(taken[d], b)]
          /\ given' = [given EXCEPT ![d] = given[d] \o Decoded(d, e.out)]
      BY <1>9 DEF Compress, e
    <2> HIDE DEF c
    <2>8. QED
      BY <1>7, <2>2, <2>5, <2>6, <2>7
  <1>10. CASE IsOpen(d) /\ Close(d)
    <2> DEFINE c == Flushed(coder[d], d)
    <2>1. coder[d].out = <<>>
      BY <1>10 DEF IsOpen
    <2>2. \/ c = coder[d]
          \/ /\ coder[d].node \in DOMAIN encTree
             /\ c = [node |-> Root(d), out |-> <<encTree[coder[d].node]>>]
      <3>1. Append(<<>>, encTree[coder[d].node]) = <<encTree[coder[d].node]>>
        OBVIOUS
      <3>2. QED
        BY <1>2, <2>1, <3>1 DEF Flushed
    <2>3. /\ c \in [node : Dicts \X Seq(Bytes), out : Seq(0 .. MaxIdx)]
          /\ c.node \in DOMAIN encTree \cup {Root(d)} /\ c.node[1] = d
          /\ Decoded(d, c.out) \in Seq(Bytes)
      <3>1. CASE c = coder[d]
        BY <1>2, <1>5, <2>1, <3>1 DEF Decoded
      <3>2. CASE /\ coder[d].node \in DOMAIN encTree
                 /\ c = [node |-> Root(d), out |-> <<encTree[coder[d].node]>>]
        <4>1. PICK i \in 0 .. MaxIdx : c = [node |-> Root(d), out |-> <<i>>]
          BY <1>4, <3>2
        <4> HIDE DEF c
        <4>2. c \in [node : Dicts \X Seq(Bytes), out : Seq(0 .. MaxIdx)]
          BY <1>5, <1>6, <4>1
        <4>3. QED
          BY <1>3, <1>6, <4>1, <4>2 DEF Decoded, Root
      <3>3. QED
        BY <2>2, <3>1, <3>2
    <2>4. given[d] \o Decoded(d, c.out) \in Seq(Bytes)
      BY <1>2, <2>3, ConcatProperties
    <2>5. /\ coder' = [coder EXCEPT ![d] = c]
          /\ taken' = [taken EXCEPT ![d] = taken[d]]
          /\ given' = [given EXCEPT ![d] = given[d] \o Decoded(d, c.out)]
      BY <1>10 DEF Close, Shape, PairTypeOK
    <2> HIDE DEF c
    <2>6. QED
      BY <1>2, <1>7, <2>3, <2>4, <2>5
  <1>11. CASE Create(d)
    <2>1. Root(d)[1] = d /\ <<>> \in Seq(0 .. MaxIdx) /\ <<>> \in Seq(Bytes)
      BY <1>5 DEF Root
    <2>2. [node |-> Root(d), out |-> <<>>] \in [node : Dicts \X Seq(Bytes), out : Seq(0 .. MaxIdx)]
      BY <1>5
    <2>3. QED
      BY <1>7, <1>11, <2>1, <2>2 DEF Create
  <1>12. QED
    BY <1>8, <1>9, <1>10, <1>11

\* Every step keeps the types, and the encoders on their nodes.
LEMMA ShapeStep == Shape /\ [LZWNext]_lzwVars => Shape'
  <1> SUFFICES ASSUME Shape, [LZWNext]_lzwVars PROVE Shape'
    OBVIOUS
  <1>1. CASE \E d \in Dicts, b \in Bytes : AppendByte(d, b) /\ UNCHANGED pairVars
    BY <1>1, ShapeReads
  <1>2. CASE /\ UNCHANGED dictVars
             /\ \E d \in Dicts :
                  \/ Create(d)
                  \/ Open(d)
                  \/ IsOpen(d) /\ \E b \in Bytes : Compress(d, b)
                  \/ IsOpen(d) /\ Close(d)
    BY <1>2, ShapeCodes
  <1>3. CASE UNCHANGED lzwVars
    BY <1>3 DEF lzwVars, dictVars, pairVars, Shape, DictTypeOK, PairTypeOK, Standing
  <1>4. QED
    BY <1>1, <1>2, <1>3 DEF LZWNext

\* The dictionaries, the encoders and what they read and write have their
\* types, whatever is read and compressed.
THEOREM CodecTyped == LZWSpec => [](DictTypeOK /\ PairTypeOK)
  <1>1. QED
    BY ShapeStep, ShapeInit, PTL DEF LZWSpec, Shape

-----------------------------------------------------------------------------
(* One dictionary *)

\* While append() reads, the word it has read is the way to its node.
PendingIsPath ==
    /\ readers = {} => pending = <<>>
    /\ IsSingle /\ readers # {} => pending = curNode[2] /\ curNode[1] \in readers

\* What is known of the dictionaries while one reads: an inductive invariant
Sound == Shape /\ IndicesAreWords /\ PendingIsPath /\ RoundTrip

\* One that has read nothing knows no word.
LEMMA SoundInit == LZWInit => Sound
  <1> SUFFICES ASSUME LZWInit PROVE Sound
    OBVIOUS
  <1>1. Shape
    BY ShapeInit
  <1>2. ASSUME NEW n \in DOMAIN encTree
        PROVE  dec[<<n[1], encTree[n]>>] = n[2] /\ encTree[n] < nextIdx[n[1]]
    <2>1. n \in Letters /\ encTree[n] = n[2][1]
      BY <1>2 DEF LZWInit, DictInit
    <2>2. n[1] \in Dicts /\ n[2] \in {<<b>> : b \in Bytes}
      BY <2>1 DEF Letters
    <2>3. PICK b \in Bytes : n[2] = <<b>> /\ encTree[n] = b
      BY <2>1, <2>2
    <2>4. b \in 0 .. MaxIdx /\ b < EOF + 1
      BY LZWAssumption DEF Bytes, EOF
    <2>5. nextIdx[n[1]] = EOF + 1
      BY <2>2 DEF LZWInit, DictInit
    <2>6. dec[<<n[1], b>>] = <<b>>
      BY <2>2, <2>4 DEF LZWInit, DictInit, Indices
    <2>7. QED
      BY <2>3, <2>4, <2>5, <2>6
  <1>3. IndicesAreWords
    BY <1>2 DEF IndicesAreWords
  <1>4. PendingIsPath
    BY DEF PendingIsPath, LZWInit, DictInit, Root
  <1>5. RoundTrip
    <2>1. \A d \in Dicts : given[d] = <<>> /\ coder[d].node[2] = <<>> /\ taken[d] = <<>>
      BY DEF LZWInit, PairInit, Root
    <2>2. <<>> \o <<>> = <<>>
      BY EmptySeq, ConcatEmptySeq
    <2>3. QED
      BY <2>1, <2>2 DEF RoundTrip
  <1>6. QED
    BY <1>1, <1>3, <1>4, <1>5 DEF Sound

\* Reading a byte keeps indices and words together: the new word has an index
\* that no other word has, and it is the way to the new node.
LEMMA SoundReads ==
    ASSUME Sound, NEW d \in Dicts, NEW b \in Bytes,
           AppendByte(d, b), UNCHANGED pairVars
    PROVE  Sound'
  <1>1. Shape' /\ Shape
    BY ShapeReads DEF Sound
  <1>2. readers' = readers \cup {d}
    BY DEF AppendByte
  <1>3. CASE ~IsSingle'
    BY <1>1, <1>2, <1>3 DEF Sound, IndicesAreWords, PendingIsPath, RoundTrip
  <1>4. CASE IsSingle'
    <2> DEFINE new == Below(Start(d), b)
    <2>1. IsSingle /\ readers \subseteq {d} /\ readers' = {d} /\ DictTypeOK
      BY <1>1, <1>2, <1>4 DEF IsSingle, Shape
    <2>2. RoundTrip'
      BY <2>1 DEF Sound, RoundTrip, pairVars
    <2>3. \A n \in DOMAIN encTree :
             /\ n[1] \in Dicts /\ encTree[n] \in 0 .. MaxIdx
             /\ dec[<<n[1], encTree[n]>>] = n[2] /\ encTree[n] < nextIdx[n[1]]
      BY <2>1 DEF Sound, IndicesAreWords, DictTypeOK
    <2>4. new[1] = Start(d)[1] /\ new[2] = Append(Start(d)[2], b)
      BY <2>1, LookUp
    <2>5. Start(d)[1] = d /\ Longer(b) = new[2]
      <3>1. CASE readers = {}
        <4>1. pending = <<>> /\ Start(d) = <<d, <<>>>>
          BY <3>1 DEF Sound, PendingIsPath, Start, Root
        <4>2. QED
          BY <2>4, <4>1 DEF Longer
      <3>2. CASE readers = {d}
        <4>1. pending = curNode[2] /\ curNode[1] = d
          BY <2>1, <3>2 DEF Sound, PendingIsPath
        <4>2. QED
          BY <2>4, <3>2, <4>1 DEF Longer, Start, Root
      <3>3. QED
        BY <2>1, <3>1, <3>2
    <2>6. Below(Root(d), b)[1] = d /\ Below(Root(d), b)[2] = <<b>>
      BY <2>1, LookUp
    <2> HIDE DEF new
    <2>7. CASE /\ UNCHANGED <<encTree, dec, nextIdx, pending>>
               /\ curNode' = IF readers = {} THEN Root(d) ELSE curNode
      <3>1. IndicesAreWords'
        BY <2>1, <2>7 DEF Sound, IndicesAreWords
      <3>2. PendingIsPath'
        BY <2>1, <2>7 DEF Sound, PendingIsPath, Root
      <3>3. QED
        BY <1>1, <2>2, <3>1, <3>2 DEF Sound
    <2>8. CASE /\ UNCHANGED <<encTree, dec, nextIdx>>
               /\ curNode' = new /\ pending' = Longer(b)
      <3>1. IndicesAreWords'
        BY <2>1, <2>8 DEF Sound, IndicesAreWords
      <3>2. PendingIsPath'
        BY <2>1, <2>4, <2>5, <2>8 DEF PendingIsPath
      <3>3. QED
        BY <1>1, <2>2, <3>1, <3>2 DEF Sound
    <2>9. CASE /\ nextIdx[d] \in EOF + 1 .. MaxIdx
               /\ DOMAIN encTree' = DOMAIN encTree \cup {new}
               /\ encTree'[new] = nextIdx[d]
               /\ \A n \in DOMAIN encTree : encTree'[n] = encTree[n]
               /\ dec' = [dec EXCEPT ![<<d, nextIdx[d]>>] = Longer(b)]
               /\ nextIdx' = [nextIdx EXCEPT ![d] = @ + 1]
               /\ curNode' = Below(Root(d), b) /\ pending' = <<b>>
      <3>1. /\ nextIdx[d] \in 0 .. MaxIdx /\ nextIdx'[d] = nextIdx[d] + 1
            /\ \A e \in Dicts : e # d => nextIdx'[e] = nextIdx[e]
        BY <2>1, <2>9, LZWAssumption DEF DictTypeOK, EOF
      <3>2. /\ dec'[<<d, nextIdx[d]>>] = Longer(b)
            /\ \A e \in Dicts, i \in 0 .. MaxIdx :
                  e # d \/ i # nextIdx[d] => dec'[<<e, i>>] = dec[<<e, i>>]
        BY <2>1, <2>9, <3>1 DEF DictTypeOK, Indices
      <3>3. ASSUME NEW n \in DOMAIN encTree'
            PROVE  dec'[<<n[1], encTree'[n]>>] = n[2] /\ encTree'[n] < nextIdx'[n[1]]
        <4>1. CASE n = new
          <5>1. n[1] = d /\ n[2] = Longer(b) /\ encTree'[n] = nextIdx[d]
            BY <2>4, <2>5, <2>9, <4>1
          <5>2. dec'[<<n[1], encTree'[n]>>] = n[2]
            BY <3>2, <5>1, Zenon
          <5>3. encTree'[n] < nextIdx'[n[1]]
            BY <3>1, <5>1
          <5>4. QED
            BY <5>2, <5>3
        <4>2. CASE n \in DOMAIN encTree
          <5>1. /\ n[1] \in Dicts /\ encTree'[n] = encTree[n] /\ encTree[n] \in 0 .. MaxIdx
                /\ encTree[n] < nextIdx[n[1]] /\ dec[<<n[1], encTree[n]>>] = n[2]
            BY <2>3, <2>9, <4>2
          <5>2. /\ n[1] # d \/ encTree[n] # nextIdx[d]
                /\ encTree[n] < nextIdx'[n[1]]
            BY <3>1, <5>1
          <5>3. dec'[<<n[1], encTree[n]>>] = n[2]
            BY <3>2, <5>1, <5>2, Zenon
          <5>4. QED
            BY <5>1, <5>2, <5>3, Zenon
        <4>3. QED
          BY <2>9, <4>1, <4>2
      <3>4. IndicesAreWords'
        BY <3>3 DEF IndicesAreWords
      <3>5. PendingIsPath'
        BY <2>1, <2>6, <2>9 DEF PendingIsPath
      <3>6. QED
        BY <1>1, <2>2, <3>4, <3>5 DEF Sound
    <2>10. QED
      BY <2>1, <2>7, <2>8, <2>9, ReadByte DEF new
  <1>5. QED
    BY <1>3, <1>4

\* Compressing keeps what was given and what is held equal to what was taken.
LEMMA SoundCodes ==
    ASSUME Sound, NEW d \in Dicts, UNCHANGED dictVars,
           \/ Create(d)
           \/ Open(d)
           \/ IsOpen(d) /\ \E b \in Bytes : Compress(d, b)
           \/ IsOpen(d) /\ Close(d)
    PROVE  Sound'
  <1>1. Shape'
    BY ShapeCodes DEF Sound
  <1>2. UNCHANGED <<encTree, dec, nextIdx, curNode, pending, readers>>
    BY DEF dictVars
  <1>3. IndicesAreWords' /\ PendingIsPath'
    BY <1>2 DEF Sound, IndicesAreWords, PendingIsPath, IsSingle
  <1>4. CASE ~IsSingle
    BY <1>1, <1>2, <1>3, <1>4 DEF Sound, RoundTrip, IsSingle
  <1>5. CASE IsSingle
    <2>1. Shape
      BY DEF Sound
    <2>2. /\ given[d] \o coder[d].node[2] = taken[d]
          /\ coder \in [Dicts -> [node : Dicts \X Seq(Bytes), out : Seq(0 .. MaxIdx)]]
          /\ taken \in [Dicts -> Seq(Bytes)] /\ given \in [Dicts -> Seq(Bytes)]
      BY <1>5, <2>1 DEF Sound, RoundTrip, Shape, PairTypeOK
    <2>3. /\ coder[d].node[2] \in Seq(Bytes)
          /\ taken[d] \in Seq(Bytes) /\ given[d] \in Seq(Bytes)
      BY <2>2
    <2>4. coder[d].node \in DOMAIN encTree =>
             dec[<<d, encTree[coder[d].node]>>] = coder[d].node[2]
      <3>1. coder[d].node[1] = d
        BY <2>1 DEF Shape, Standing
      <3>2. QED
        BY <1>5, <3>1 DEF Sound, IndicesAreWords
    <2>5. ASSUME given'[d] \o coder'[d].node[2] = taken'[d]
          PROVE  Sound'
      <3>1. ASSUME NEW e \in Dicts, e # d
            PROVE  /\ given'[e] = given[e] /\ coder'[e] = coder[e] /\ taken'[e] = taken[e]
                   /\ given[e] \o coder[e].node[2] = taken[e]
        BY <1>5, <2>2, <3>1, ZenonT(60) DEF Sound, RoundTrip, Create, Open, Compress, Close
      <3>2. RoundTrip'
        BY <2>5, <3>1 DEF RoundTrip
      <3>3. QED
        BY <1>1, <1>3, <3>2 DEF Sound
    <2>6. CASE Open(d)
      <3>1. /\ coder'[d].node = coder[d].node /\ given'[d] = <<>>
            /\ taken'[d] = coder[d].node[2]
        BY <2>2, <2>6 DEF Open
      <3>2. <<>> \o coder[d].node[2] = coder[d].node[2]
        BY <2>3, ConcatEmptySeq
      <3>3. QED
        BY <2>5, <3>1, <3>2
    <2>7. ASSUME NEW b \in Bytes, IsOpen(d), Compress(d, b)
          PROVE  Sound'
      <3> DEFINE e == Encoded(coder[d], d, b)
      <3>1. \/ e = [node |-> Below(coder[d].node, b), out |-> <<>>]
            \/ /\ coder[d].node \in DOMAIN encTree
               /\ e = [node |-> Below(Root(d), b), out |-> <<encTree[coder[d].node]>>]
        BY <2>1, <2>7, EncodeByte
      <3>2. /\ coder' = [coder EXCEPT ![d] = [e EXCEPT !.out = <<>>]]
            /\ taken'[d] = Append(taken[d], b)
            /\ given'[d] = given[d] \o Decoded(d, e.out)
        BY <2>2, <2>7 DEF Compress
      <3> HIDE DEF e
      <3>3. coder'[d].node = e.node
        BY <2>2, <3>1, <3>2
      <3>4. CASE e = [node |-> Below(coder[d].node, b), out |-> <<>>]
        <4>1. coder'[d].node[2] = Append(coder[d].node[2], b)
          BY <3>3, <3>4 DEF Below
        <4>2. given'[d] = given[d] \o <<>>
          BY <3>2, <3>4 DEF Decoded
        <4>3. given[d] \o <<>> = given[d]
          BY <2>3, ConcatEmptySeq
        <4>4. given[d] \o Append(coder[d].node[2], b) = Append(given[d] \o coder[d].node[2], b)
          BY <2>3, HeldGrows
        <4>5. QED
          BY <2>2, <2>5, <3>2, <4>1, <4>2, <4>3, <4>4
      <3>5. CASE /\ coder[d].node \in DOMAIN encTree
                 /\ e = [node |-> Below(Root(d), b), out |-> <<encTree[coder[d].node]>>]
        <4>1. Decoded(d, e.out) = dec[<<d, encTree[coder[d].node]>>]
          BY <3>5 DEF Decoded
        <4>2. given'[d] = taken[d]
          BY <2>2, <2>4, <3>2, <3>5, <4>1
        <4>3. Below(Root(d), b)[2] = <<b>>
          BY <2>1, LookUp DEF Shape
        <4>4. coder'[d].node[2] = <<b>>
          BY <3>3, <3>5, <4>3
        <4>5. Append(taken[d], b) = taken[d] \o <<b>>
          BY <2>3, AppendIsConcat
        <4>6. QED
          BY <2>5, <3>2, <4>2, <4>4, <4>5
      <3>6. QED
        BY <3>1, <3>4, <3>5
    <2>8. CASE IsOpen(d) /\ Close(d)
      <3> DEFINE c == Flushed(coder[d], d)
      <3>1. /\ coder'[d] = c /\ taken'[d] = taken[d]
            /\ given'[d] = given[d] \o Decoded(d, c.out)
        BY <2>2, <2>8 DEF Close
      <3>2. coder[d].out = <<>>
        BY <2>8 DEF IsOpen
      <3>3. given[d] \o <<>> = given[d] /\ taken[d] \o <<>> = taken[d]
        BY <2>3, ConcatEmptySeq
      <3>4. CASE coder[d].node = Root(d)
        <4>1. c = coder[d]
          BY <3>4 DEF Flushed
        <4>2. Decoded(d, c.out) = <<>>
          BY <3>2, <4>1 DEF Decoded
        <4>3. QED
          BY <2>2, <2>5, <3>1, <3>3, <4>1, <4>2
      <3>5. CASE coder[d].node # Root(d)
        <4>1. coder[d].node \in DOMAIN encTree
          BY <2>1, <3>5 DEF Shape, Standing
        <4>2. Append(<<>>, encTree[coder[d].node]) = <<encTree[coder[d].node]>>
          OBVIOUS
        <4>3. c = [node |-> Root(d), out |-> <<encTree[coder[d].node]>>]
          BY <3>2, <3>5, <4>2 DEF Flushed
        <4> HIDE DEF c
        <4>4. Decoded(d, c.out) = coder[d].node[2] /\ c.node[2] = <<>>
          BY <2>4, <4>1, <4>3 DEF Decoded, Root
        <4>5. QED
          BY <2>2, <2>5, <3>1, <3>3, <4>4
      <3>6. QED
        BY <3>4, <3>5
    <2>9. CASE Create(d)
      <3>1. given'[d] = <<>> /\ coder'[d].node[2] = <<>> /\ taken'[d] = <<>>
        BY <2>2, <2>9 DEF Create, Root
      <3>2. <<>> \o <<>> = <<>>
        BY EmptySeq, ConcatEmptySeq
      <3>3. QED
        BY <2>5, <3>1, <3>2
    <2>10. QED
      BY <2>6, <2>7, <2>8, <2>9
  <1>6. QED
    BY <1>4, <1>5

\* No step of LZWDictCompress changes that.
LEMMA SoundAlways == LZWSpec => []Sound
  <1>1. Sound /\ [LZWNext]_lzwVars => Sound'
    <2> SUFFICES ASSUME Sound, [LZWNext]_lzwVars PROVE Sound'
      OBVIOUS
    <2>1. CASE \E d \in Dicts, b \in Bytes : AppendByte(d, b) /\ UNCHANGED pairVars
      BY <2>1, SoundReads
    <2>2. CASE /\ UNCHANGED dictVars
               /\ \E d \in Dicts :
                    \/ Create(d)
                    \/ Open(d)
                    \/ IsOpen(d) /\ \E b \in Bytes : Compress(d, b)
                    \/ IsOpen(d) /\ Close(d)
      BY <2>2, SoundCodes
    <2>3. CASE UNCHANGED lzwVars
      BY <2>3 DEF lzwVars, dictVars, pairVars, Sound, Shape, DictTypeOK, PairTypeOK, Standing,
                  IndicesAreWords, PendingIsPath, RoundTrip, IsSingle
    <2>4. QED
      BY <2>1, <2>2, <2>3 DEF LZWNext
  <1>2. QED
    BY <1>1, SoundInit, PTL DEF LZWSpec

\* As long as one dictionary reads, the index of a word decodes to that word,
\* also when the dictionary is full and when long words are given up.
THEOREM WordsDecode == LZWSpec => []IndicesAreWords
  <1>1. Sound => IndicesAreWords
    BY DEF Sound
  <1>2. QED
    BY <1>1, SoundAlways, PTL

\* As long as one dictionary reads, compressed payload comes back as it was.
THEOREM NothingLost == LZWSpec => []RoundTrip
  <1>1. Sound => RoundTrip
    BY DEF Sound
  <1>2. QED
    BY <1>1, SoundAlways, PTL

-----------------------------------------------------------------------------
(* The sources *)

Telling == [response : Responses, bytes : Seq(Bytes), interrupted : BOOLEAN,
            state : {"on", "done", "never done", "cut"}]

\* What a source knows, and what its dictionaries have yet to read
Sources ==
    /\ pair \in Dicts
    /\ unread \in Seq(Dicts \X Bytes)
    /\ told \in Seq(Telling)
    /\ connected \in 0 .. Len(told)

\* The sources at the start
LEMMA SourcesInit == Init => Sources
  <1> SUFFICES ASSUME Init PROVE Sources
    OBVIOUS
  <1>1. PICK c \in Configs : pair = c.pair /\ unread = ToRead(c.texts)
    BY DEF Init
  <1>2. pair \in Dicts /\ unread \in Seq(Dicts \X Bytes)
    BY <1>1, ListenersAssumption, TextsAssumption
  <1>3. told \in Seq(Telling) /\ connected = 0 /\ Len(told) = 0
    BY EmptySeq DEF Init
  <1>4. QED
    BY <1>2, <1>3 DEF Sources

\* What a step makes of the responses: one more, or the latest is another.
LEMMA LatestChanges ==
    ASSUME told \in Seq(Telling), Len(told) # 0, NEW t \in Telling,
           told' = [told EXCEPT ![Len(told)] = t]
    PROVE  /\ told' \in Seq(Telling)
           /\ Len(told') = Len(told)
           /\ Latest' = t
  <1>1. Len(told) \in 1 .. Len(told)
    BY LenProperties
  <1>2. QED
    BY <1>1, ExceptSeq DEF Latest

\* While there is a connection, there is a response.
LEMMA LatestIsTold ==
    ASSUME Sources, IsConnected
    PROVE  Latest \in Telling /\ Len(told) # 0 /\ Len(told) \in 1 .. Len(told)
  <1>1. Len(told) \in Nat /\ Len(told) > connected /\ connected \in Nat
    BY LenProperties DEF Sources, IsConnected
  <1>2. Len(told) \in 1 .. Len(told)
    BY <1>1
  <1>3. QED
    BY <1>1, <1>2, ElementOfSeq DEF Sources, Latest

\* A response is told: what is known of it is what is known of the latest.
LEMMA SourcesRespond ==
    ASSUME Sources, NEW r \in Responses, Respond(r)
    PROVE  /\ Sources' /\ IsConnected' /\ ~IsOn
           /\ Latest'.response = r
           /\ Latest'.state \in {"on", "never done"}
  <1> DEFINE t == [response |-> r, bytes |-> <<>>, interrupted |-> FALSE,
                   state |-> IF r.framing = "none" THEN "never done" ELSE "on"]
  <1>1. told' = Append(told, t) /\ UNCHANGED <<pair, unread, connected>>
    BY DEF Respond, configVars
  <1>2. <<>> \in Seq(Bytes)
    BY EmptySeq
  <1>3. t \in Telling
    BY <1>2 DEF Telling
  <1>4. t.response = r /\ t.state \in {"on", "never done"}
    OBVIOUS
  <1> HIDE DEF t
  <1>5. /\ told' \in Seq(Telling) /\ Len(told') = Len(told) + 1
        /\ told'[Len(told')] = t
    BY <1>1, <1>3, AppendProperties DEF Sources
  <1>6. Len(told) \in Nat
    BY LenProperties DEF Sources
  <1>7. connected' \in 0 .. Len(told') /\ Len(told') > connected'
    BY <1>1, <1>5, <1>6 DEF Sources
  <1>8. Latest' = t
    BY <1>5 DEF Latest
  <1>9. QED
    BY <1>1, <1>4, <1>5, <1>7, <1>8 DEF Sources, IsConnected, Respond, MayRespond

\* Payload is told of a response that is on, and leaves it on.
LEMMA SourcesTraffic ==
    ASSUME Sources, NEW b \in Bytes, Traffic(b)
    PROVE  /\ Sources' /\ IsOn /\ IsOn'
  <1> DEFINE t == [Latest EXCEPT !.bytes = Append(Latest.bytes, b)]
  <1>1. Latest \in Telling /\ Len(told) # 0 /\ Len(told) \in 1 .. Len(told) /\ IsOn
    BY LatestIsTold DEF Traffic, IsOn
  <1>2. told' = [told EXCEPT ![Len(told)] = t] /\ UNCHANGED <<pair, unread, connected>>
    BY DEF Traffic, configVars, Latest
  <1>3. Append(Latest.bytes, b) \in Seq(Bytes)
    BY <1>1, AppendProperties DEF Telling
  <1>4. t \in Telling /\ t.state = Latest.state
    BY <1>1, <1>3 DEF Telling
  <1> HIDE DEF t
  <1>5. told' \in Seq(Telling) /\ Len(told') = Len(told) /\ Latest' = t
    BY <1>1, <1>2, <1>4, LatestChanges DEF Sources
  <1>6. QED
    BY <1>1, <1>2, <1>4, <1>5 DEF Sources, IsOn, IsConnected

\* A response is told done.
LEMMA SourcesDone ==
    ASSUME Sources, Done
    PROVE  /\ Sources' /\ IsOn /\ IsConnected'
           /\ Latest'.state = "done" /\ Latest'.response = Latest.response
  <1> DEFINE t == [Latest EXCEPT !.state = "done"]
  <1>1. Latest \in Telling /\ Len(told) # 0 /\ IsOn
    BY LatestIsTold DEF Done, IsOn
  <1>2. told' = [told EXCEPT ![Len(told)] = t] /\ UNCHANGED <<pair, unread, connected>>
    BY DEF Done, configVars, Latest
  <1>3. t \in Telling /\ t.state = "done" /\ t.response = Latest.response
    BY <1>1 DEF Telling
  <1> HIDE DEF t
  <1>4. told' \in Seq(Telling) /\ Len(told') = Len(told) /\ Latest' = t
    BY <1>1, <1>2, <1>3, LatestChanges DEF Sources
  <1>5. QED
    BY <1>1, <1>2, <1>3, <1>4 DEF Sources, IsOn, IsConnected

\* That a request is done says nothing of the response but that it was interrupted.
LEMMA SourcesRequestDone ==
    ASSUME Sources, RequestDone
    PROVE  /\ Sources' /\ IsConnected /\ IsConnected'
           /\ Latest'.state = Latest.state /\ Latest'.response = Latest.response
  <1> DEFINE t == [Latest EXCEPT !.interrupted = Latest.interrupted \/ IsOn]
  <1>1. Latest \in Telling /\ Len(told) # 0 /\ IsConnected
    BY LatestIsTold DEF RequestDone
  <1>2. told' = [told EXCEPT ![Len(told)] = t] /\ UNCHANGED <<pair, unread, connected>>
    BY DEF RequestDone, configVars, Latest
  <1>3. (Latest.interrupted \/ IsOn) \in BOOLEAN
    OBVIOUS
  <1>4. t \in Telling /\ t.state = Latest.state /\ t.response = Latest.response
    BY <1>1, <1>3 DEF Telling
  <1> HIDE DEF t
  <1>5. told' \in Seq(Telling) /\ Len(told') = Len(told) /\ Latest' = t
    BY <1>1, <1>2, <1>4, LatestChanges DEF Sources
  <1>6. QED
    BY <1>1, <1>2, <1>4, <1>5 DEF Sources, IsConnected

\* A connection ends.
LEMMA SourcesDisconnect ==
    ASSUME Sources, Disconnect
    PROVE  Sources' /\ ~IsConnected'
  <1> DEFINE t == [Latest EXCEPT !.state = IF Latest.state = "on" THEN "cut" ELSE Latest.state]
  <1>1. Latest \in Telling /\ Len(told) # 0
    BY LatestIsTold DEF Disconnect
  <1>2. /\ told' = [told EXCEPT ![Len(told)] = t] /\ UNCHANGED <<pair, unread>>
        /\ connected' = Len(told)
    BY DEF Disconnect, configVars, Latest
  <1>3. t \in Telling
    BY <1>1 DEF Telling
  <1> HIDE DEF t
  <1>4. told' \in Seq(Telling) /\ Len(told') = Len(told)
    BY <1>1, <1>2, <1>3, LatestChanges DEF Sources
  <1>5. Len(told) \in Nat
    BY LenProperties DEF Sources
  <1>6. QED
    BY <1>2, <1>4, <1>5 DEF Sources, IsConnected

\* A byte of a text is read.
LEMMA SourcesLoad ==
    ASSUME Sources, Load
    PROVE  /\ Sources' /\ (IsOn' <=> IsOn) /\ (IsConnected' <=> IsConnected) /\ Latest' = Latest
           /\ \E d \in Dicts, b \in Bytes : AppendByte(d, b)
  <1>1. unread # <<>> /\ unread' = Tail(unread) /\ UNCHANGED <<pair, told, connected>>
    BY DEF Load, configVars
  <1>2. unread' \in Seq(Dicts \X Bytes) /\ unread[1] \in Dicts \X Bytes
    BY <1>1, HeadTailProperties DEF Sources
  <1>3. AppendByte(unread[1][1], unread[1][2])
    BY DEF Load
  <1>4. unread[1][1] \in Dicts /\ unread[1][2] \in Bytes
    BY <1>2
  <1>5. QED
    BY <1>1, <1>2, <1>3, <1>4 DEF Sources, IsOn, IsConnected, Latest

-----------------------------------------------------------------------------
(* LZWDict *)

\* While a response is on, the stream of the pair is open.
Chain == Sources /\ Shape /\ (IsOn => IsOpen(pair))

\* Each step is one of LZWDictCompress, or none of its variables changes.
LEMMA LZWStep ==
    ASSUME Chain, Next
    PROVE  Chain' /\ [LZWNext]_lzwVars
  <1>1. ASSUME [LZWNext]_lzwVars PROVE Shape'
    BY <1>1, ShapeStep DEF Chain
  <1> USE DEF Chain
  <1>2. CASE Load
    <2>1. PICK d \in Dicts, b \in Bytes : AppendByte(d, b)
      BY <1>2, SourcesLoad
    <2>2. UNCHANGED <<pairVars, configVars>>
      BY <1>2 DEF Load
    <2>3. LZWNext
      BY <2>1, <2>2 DEF LZWNext
    <2>4. IsOn' => IsOpen(pair)'
      BY <1>2, <2>2, SourcesLoad DEF IsOpen, pairVars, configVars
    <2>5. QED
      BY <1>1, <1>2, <2>3, <2>4, SourcesLoad
  <1>3. ASSUME NEW r \in Responses, Respond(r) PROVE Chain' /\ [LZWNext]_lzwVars
    <2>1. Open(pair) /\ UNCHANGED dictVars /\ UNCHANGED pair
      BY <1>3 DEF Respond, OnHttpResponse, OpenCompressors, configVars
    <2>2. LZWNext
      BY <2>1 DEF LZWNext, Sources
    <2>3. IsOpen(pair)'
      BY <2>1 DEF Open, IsOpen, Sources, Shape, PairTypeOK
    <2>4. QED
      BY <1>1, <1>3, <2>2, <2>3, SourcesRespond
  <1>4. ASSUME NEW b \in Bytes, Traffic(b) PROVE Chain' /\ [LZWNext]_lzwVars
    <2>1. Compress(pair, b) /\ UNCHANGED dictVars /\ UNCHANGED pair
      BY <1>4 DEF Traffic, OnHttpResponseTraffic, AppendToCompressors, configVars
    <2>2. IsOpen(pair)
      BY <1>4, SourcesTraffic
    <2>3. LZWNext
      BY <1>4, <2>1, <2>2 DEF LZWNext, Sources
    <2>4. IsOpen(pair)'
      <3> DEFINE e == Encoded(coder[pair], pair, b)
                 c == [e EXCEPT !.out = <<>>]
      <3>1. \/ e = [node |-> Below(coder[pair].node, b), out |-> <<>>]
            \/ e = [node |-> Below(Root(pair), b), out |-> <<encTree[coder[pair].node]>>]
        BY <1>4, <2>2, EncodeByte DEF Sources
      <3> HIDE DEF e
      <3>2. c.out = <<>>
        BY <3>1
      <3>3. coder' = [coder EXCEPT ![pair] = c]
        BY <2>1 DEF Compress, e
      <3> HIDE DEF c
      <3>4. coder'[pair] = c
        BY <3>3 DEF Sources, Shape, PairTypeOK
      <3>5. QED
        BY <2>1, <3>2, <3>4 DEF IsOpen
    <2>5. QED
      BY <1>1, <1>4, <2>3, <2>4, SourcesTraffic
  <1>5. CASE Done
    <2>1. /\ \/ UNCHANGED pairVars
             \/ Close(pair)
          /\ UNCHANGED dictVars /\ UNCHANGED pair
      BY <1>5 DEF Done, OnHttpDone, CloseCompressors, configVars
    <2>2. IsOpen(pair) /\ ~IsOn'
      BY <1>5, SourcesDone DEF IsOn
    <2>3. [LZWNext]_lzwVars
      BY <2>1, <2>2 DEF LZWNext, Sources, lzwVars
    <2>4. QED
      BY <1>1, <1>5, <2>2, <2>3, SourcesDone
  <1>6. CASE RequestDone
    <2>1. UNCHANGED lzwVars /\ UNCHANGED <<pairVars, configVars>>
      BY <1>6 DEF RequestDone, lzwVars
    <2>2. IsOn' <=> IsOn
      BY <1>6, SourcesRequestDone DEF IsOn
    <2>3. IsOn' => IsOpen(pair)'
      BY <2>1, <2>2 DEF IsOpen, pairVars, configVars
    <2>4. QED
      BY <1>1, <1>6, <2>1, <2>3, SourcesRequestDone
  <1>7. CASE Disconnect
    <2>1. Create(pair) /\ UNCHANGED dictVars
      BY <1>7 DEF Disconnect, OnHttpClose
    <2>2. LZWNext
      BY <2>1 DEF LZWNext, Sources
    <2>3. QED
      BY <1>1, <1>7, <2>2, SourcesDisconnect DEF IsOn
  <1>8. QED
    BY <1>2, <1>3, <1>4, <1>5, <1>6, <1>7 DEF Next

\* Nothing changes if no variable does.
LEMMA ChainStutters == Chain /\ UNCHANGED vars => Chain' /\ UNCHANGED lzwVars
  <1> SUFFICES ASSUME Chain, UNCHANGED vars PROVE Chain' /\ UNCHANGED lzwVars
    OBVIOUS
  <1>1. /\ UNCHANGED <<encTree, dec, nextIdx, curNode, pending, readers, coder, taken, given>>
        /\ UNCHANGED <<pair, unread, told, connected>> /\ UNCHANGED lzwVars
    BY DEF vars, dictVars, pairVars, configVars, sourceVars, lzwVars
  <1>2. Sources'
    BY <1>1 DEF Chain, Sources
  <1>3. Shape'
    BY <1>1 DEF Chain, Shape, DictTypeOK, PairTypeOK, Standing
  <1>4. IsOn' => IsOpen(pair)'
    BY <1>1 DEF Chain, IsOn, IsConnected, Latest, IsOpen
  <1>5. QED
    BY <1>1, <1>2, <1>3, <1>4 DEF Chain

\* The start is one of LZWDictCompress.
LEMMA ChainInit == Init => Chain /\ LZWInit
  <1> SUFFICES ASSUME Init PROVE Chain /\ LZWInit
    OBVIOUS
  <1>1. LZWInit
    BY DEF Init, LZWInit, AnalyzerInit
  <1>2. ~IsOn
    <2>1. Len(told) = 0 /\ connected = 0
      BY EmptySeq DEF Init
    <2>2. QED
      BY <2>1 DEF IsOn, IsConnected
  <1>3. QED
    BY <1>1, <1>2, ShapeInit, SourcesInit DEF Chain

\* Whatever the sources tell the analyzer, it uses LZWDictCompress as that
\* module says: no byte is compressed, and nothing closed, in a stream that was
\* not opened, and each connection begins with a new pair.
THEOREM UsesLZWDict == Spec => LZWSpec
  <1>1. Chain /\ [Next]_vars => Chain' /\ [LZWNext]_lzwVars
    BY LZWStep, ChainStutters
  <1>2. QED
    BY <1>1, ChainInit, PTL DEF Spec, LZWSpec

-----------------------------------------------------------------------------
(* The other codecs *)

\* A word begins with each word it was put together from first.
LEMMA BeginsWith ==
    ASSUME NEW s \in Seq(Bytes), NEW t \in Seq(Bytes)
    PROVE  IsPrefix(s, s \o t)
  <1>1. Len(s) \in Nat /\ Len(t) \in Nat /\ Len(s \o t) = Len(s) + Len(t)
    BY LenProperties, ConcatProperties
  <1>2. CASE Len(s) = 0
    BY <1>1, <1>2, SubSeqEmpty DEF IsPrefix
  <1>3. CASE Len(s) # 0
    <2>1. 1 \in 1 .. Len(s) /\ Len(s) \in 1 .. Len(s)
      BY <1>1, <1>3
    <2>2. SubSeq(s \o t, 1, Len(s)) = SubSeq(s, 1, Len(s))
      BY <2>1, SubSeqOfConcat1
    <2>3. QED
      BY <1>1, <2>2 DEF IsPrefix
  <1>4. QED
    BY <1>2, <1>3

\* A word is cut anywhere into two.
LEMMA Cut ==
    ASSUME NEW s \in Seq(Bytes), NEW n \in 0 .. Len(s)
    PROVE  /\ SubSeq(s, 1, n) \in Seq(Bytes) /\ SubSeq(s, n + 1, Len(s)) \in Seq(Bytes)
           /\ Len(SubSeq(s, 1, n)) = n
           /\ SubSeq(s, 1, n) \o SubSeq(s, n + 1, Len(s)) = s
  <1>1. Len(s) \in Nat /\ n \in Int /\ \A i \in 1 .. Len(s) : s[i] \in Bytes
    BY LenProperties, ElementOfSeq
  <1>2. SubSeq(s, 1, n) \in Seq(Bytes) /\ Len(SubSeq(s, 1, n)) = n
    BY <1>1, SubSeqProperties
  <1>3. SubSeq(s, n + 1, Len(s)) \in Seq(Bytes)
    BY <1>1, SubSeqProperties
  <1>4. 1 \in 1 .. Len(s) + 1 /\ n \in 1 - 1 .. Len(s) /\ Len(s) \in n .. Len(s)
    BY <1>1
  <1>5. SubSeq(s, 1, n) \o SubSeq(s, n + 1, Len(s)) = SubSeq(s, 1, Len(s))
    BY <1>4, ConcatAdjacentSubSeq
  <1>6. QED
    BY <1>2, <1>3, <1>5, SubSeqFull

\* Words in a row are one, however they are grouped.
LEMMA Regrouped ==
    ASSUME NEW s \in Seq(Bytes), NEW t \in Seq(Bytes), NEW u \in Seq(Bytes)
    PROVE  (s \o t) \o u = s \o (t \o u)
  BY ConcatAssociative

CompType == [isOpen : BOOLEAN, at : Nat, held : Seq(Bytes), empty : BOOLEAN]

CodecTypes ==
    /\ comp \in [Kinds -> CompType]
    /\ decompAt \in [Kinds -> Nat]
    /\ back \in [Kinds -> Seq(Bytes)]
    /\ payload \in Seq(Bytes)

\* What is given and what is held is the payload, and the decompressor goes on
\* where the compressor does.
Streams(k) ==
    /\ comp[k].isOpen
    /\ comp[k].at = decompAt[k]
    /\ comp[k].empty => comp[k].held = <<>>
    /\ back[k] \o comp[k].held = payload

Streaming ==
    /\ CodecTypes
    /\ IsComplete => \A k \in Kinds : back[k] = payload
    /\ IsConnected /\ ~IsComplete => \A k \in Kinds : Streams(k)
    /\ ~IsConnected => payload = <<>> /\ \A k \in Kinds : back[k] = <<>>

\* One byte for the compressor of k, and its result for the decompressor
LEMMA AppendStreams ==
    ASSUME NEW k \in Kinds, NEW b \in Bytes, CodecTypes, Streams(k),
           NEW r, r \in Appended(k, comp[k], b)
    PROVE  LET bytes == Decompressed(k, decompAt[k], r)
           IN  /\ bytes \in Seq(Bytes) /\ r.comp \in CompType
               /\ r.comp.isOpen /\ ~r.comp.empty
               /\ r.comp.at = decompAt[k] + Len(bytes)
               /\ (back[k] \o bytes) \o r.comp.held = Append(payload, b)
  <1> DEFINE all == Append(comp[k].held, b)
  <1> DEFINE s == back[k]
  <1>1. comp[k] \in CompType /\ decompAt[k] \in Nat /\ s \in Seq(Bytes)
    BY DEF CodecTypes
  <1> HIDE DEF s
  <1>2. all \in Seq(Bytes) /\ comp[k].held \in Seq(Bytes) /\ Len(all) \in Nat
    BY <1>1, AppendProperties, LenProperties DEF CompType
  <1>3. PICK n \in Writes(k, Len(all)) :
           r = Result([isOpen |-> TRUE, at |-> comp[k].at + n, empty |-> FALSE,
                       held |-> SubSeq(all, n + 1, Len(all))], SubSeq(all, 1, n))
    BY DEF Appended, Streams
  <1>4. n \in 0 .. Len(all)
    BY <1>2 DEF Writes
  <1> HIDE DEF all
  <1>5. /\ SubSeq(all, 1, n) \in Seq(Bytes) /\ SubSeq(all, n + 1, Len(all)) \in Seq(Bytes)
        /\ Len(SubSeq(all, 1, n)) = n
        /\ SubSeq(all, 1, n) \o SubSeq(all, n + 1, Len(all)) = all
    BY <1>2, <1>4, Cut
  <1> DEFINE c == [isOpen |-> TRUE, at |-> comp[k].at + n, empty |-> FALSE,
                   held |-> SubSeq(all, n + 1, Len(all))]
  <1>6. /\ c \in CompType /\ c.isOpen /\ ~c.empty
        /\ c.at = comp[k].at + n /\ c.held = SubSeq(all, n + 1, Len(all))
    <2>1. comp[k].at + n \in Nat
      BY <1>1, <1>2, <1>4 DEF CompType
    <2>2. QED
      BY <1>5, <2>1, Zenon DEF CompType
  <1> HIDE DEF c
  <1>7. r.comp = c /\ r.bytes = SubSeq(all, 1, n) /\ r.from = c.at - n
    BY <1>3, <1>5 DEF Result, c
  <1>8. r.from = decompAt[k]
    BY <1>1, <1>4, <1>6, <1>7 DEF Streams, CompType
  <1>9. Decompressed(k, decompAt[k], r) = SubSeq(all, 1, n)
    BY <1>7, <1>8 DEF Decompressed
  <1>10. (back[k] \o SubSeq(all, 1, n)) \o SubSeq(all, n + 1, Len(all)) = back[k] \o all
    <2>1. (s \o SubSeq(all, 1, n)) \o SubSeq(all, n + 1, Len(all))
             = s \o (SubSeq(all, 1, n) \o SubSeq(all, n + 1, Len(all)))
      BY <1>1, <1>5, Regrouped
    <2>2. QED
      BY <1>5, <2>1 DEF s
  <1>11. back[k] \o all = Append(back[k] \o comp[k].held, b)
    BY <1>1, <1>2, HeldGrows DEF all, s
  <1>12. QED
    BY <1>1, <1>5, <1>6, <1>7, <1>9, <1>10, <1>11 DEF Streams

\* close(): the rest of the payload
LEMMA CloseStreams ==
    ASSUME NEW k \in Kinds, CodecTypes, Streams(k)
    PROVE  LET bytes == Decompressed(k, decompAt[k], Closed(comp[k]))
           IN  /\ bytes \in Seq(Bytes) /\ Closed(comp[k]).comp \in CompType
               /\ back[k] \o bytes = payload
  <1>1. comp[k] \in CompType /\ back[k] \in Seq(Bytes) /\ comp[k].held \in Seq(Bytes)
    BY DEF CodecTypes, CompType
  <1>2. <<>> \in Seq(Bytes) /\ ClosedCompressor \in CompType
    BY EmptySeq DEF ClosedCompressor, CompType
  <1>3. CASE comp[k].empty
    <2>1. Closed(comp[k]).comp = ClosedCompressor /\ Closed(comp[k]).bytes = <<>>
      BY <1>3 DEF Closed, Result, Reset
    <2>2. Decompressed(k, decompAt[k], Closed(comp[k])) = <<>>
      BY <2>1 DEF Decompressed
    <2>3. QED
      BY <1>1, <1>2, <1>3, <2>1, <2>2 DEF Streams
  <1>4. CASE ~comp[k].empty
    <2>1. /\ Closed(comp[k]).comp = ClosedCompressor /\ Closed(comp[k]).bytes = comp[k].held
          /\ Closed(comp[k]).from = comp[k].at
      BY <1>4 DEF Closed, Reset
    <2>2. Decompressed(k, decompAt[k], Closed(comp[k])) = comp[k].held
      BY <2>1 DEF Decompressed, Streams
    <2>3. QED
      BY <1>1, <1>2, <2>1, <2>2 DEF Streams
  <1>5. QED
    BY <1>3, <1>4

-----------------------------------------------------------------------------
(* What comes back *)

\* The encoder of LZWDict has read the payload, after what it held before.
Carried ==
    /\ \E kept \in Seq(Bytes) : taken[pair] = kept \o payload
    /\ IsComplete => coder[pair].node[2] = <<>>

Coming == Streaming /\ Carried

\* A step that changes nothing of the analyzer, nor whether it is complete
LEMMA ComingStays ==
    ASSUME Coming, UNCHANGED <<analyzerVars, pairVars, pair>>,
           IsConnected' <=> IsConnected, IsComplete' <=> IsComplete
    PROVE  Coming'
  <1>1. UNCHANGED <<comp, decompAt, back, payload, coder, taken, pair>>
    BY DEF analyzerVars, pairVars
  <1>2. CodecTypes' /\ \A k \in Kinds : Streams(k)' <=> Streams(k)
    BY <1>1 DEF Coming, Streaming, CodecTypes, Streams
  <1>3. Streaming'
    BY <1>1, <1>2 DEF Coming, Streaming
  <1>4. Carried'
    BY <1>1 DEF Coming, Carried
  <1>5. QED
    BY <1>3, <1>4 DEF Coming

\* The compressors are opened for a response.
LEMMA ComingRespond ==
    ASSUME Chain, Coming, NEW r \in Responses, Respond(r)
    PROVE  Coming'
  <1>1. IsConnected' /\ ~IsComplete'
    BY SourcesRespond DEF Chain, IsComplete
  <1>2. /\ comp' = [k \in Kinds |-> Opened(Reset(comp[k]))]
        /\ decompAt' = [k \in Kinds |-> 0] /\ back' = [k \in Kinds |-> <<>>]
        /\ Open(pair) /\ payload' = <<>> /\ UNCHANGED pair
    BY DEF Respond, OnHttpResponse, OpenCompressors, configVars
  <1>3. <<>> \in Seq(Bytes) /\ <<>> \o <<>> = <<>>
    BY EmptySeq
  <1> DEFINE c == [ClosedCompressor EXCEPT !.isOpen = TRUE]
  <1>4. c \in CompType /\ c.isOpen /\ c.at = 0 /\ c.held = <<>>
    BY <1>3 DEF ClosedCompressor, CompType
  <1>5. comp' = [k \in Kinds |-> c]
    BY <1>2 DEF Opened, Reset, ClosedCompressor
  <1> HIDE DEF c
  <1>6. CodecTypes'
    BY <1>2, <1>3, <1>4, <1>5 DEF CodecTypes
  <1>7. ASSUME NEW k \in Kinds PROVE Streams(k)'
    BY <1>2, <1>3, <1>4, <1>5 DEF Streams
  <1>8. Streaming'
    BY <1>1, <1>6, <1>7 DEF Streaming
  <1>9. coder[pair].node[2] \in Seq(Bytes) /\ taken'[pair] = coder[pair].node[2]
    BY <1>2 DEF Chain, Sources, Shape, PairTypeOK, Open
  <1>10. coder[pair].node[2] \o <<>> = coder[pair].node[2]
    BY <1>9, ConcatEmptySeq
  <1>11. Carried'
    BY <1>1, <1>2, <1>9, <1>10 DEF Carried
  <1>12. QED
    BY <1>8, <1>11 DEF Coming

\* Each takes a byte, and gives what it lets go of.
LEMMA ComingTraffic ==
    ASSUME Chain, Coming, NEW b \in Bytes, Traffic(b)
    PROVE  Coming'
  <1>1. IsOn /\ IsConnected' /\ ~IsComplete' /\ IsConnected /\ ~IsComplete
    BY SourcesTraffic DEF Chain, IsComplete, IsOn
  <1>2. PICK results \in [Kinds -> UNION {Appended(k, comp[k], b) : k \in Kinds}] :
           (\A k \in Kinds : results[k] \in Appended(k, comp[k], b)) /\ Passed(results)
    BY DEF Traffic, OnHttpResponseTraffic, AppendToCompressors
  <1>3. Compress(pair, b) /\ payload' = Append(payload, b) /\ UNCHANGED pair
    BY DEF Traffic, OnHttpResponseTraffic, AppendToCompressors, configVars
  <1> DEFINE bytes(k) == Decompressed(k, decompAt[k], results[k])
  <1>4. /\ comp' = [k \in Kinds |-> results[k].comp]
        /\ decompAt' = [k \in Kinds |-> decompAt[k] + Len(bytes(k))]
        /\ back' = [k \in Kinds |-> back[k] \o bytes(k)]
    BY <1>2 DEF Passed
  <1>5. CodecTypes /\ \A k \in Kinds : Streams(k)
    BY <1>1 DEF Coming, Streaming
  <1>6. ASSUME NEW k \in Kinds
        PROVE  /\ bytes(k) \in Seq(Bytes) /\ results[k].comp \in CompType
               /\ results[k].comp.isOpen /\ ~results[k].comp.empty
               /\ results[k].comp.at = decompAt[k] + Len(bytes(k))
               /\ (back[k] \o bytes(k)) \o results[k].comp.held = Append(payload, b)
    BY <1>2, <1>5, AppendStreams, ZenonT(60)
  <1> HIDE DEF bytes
  <1>7. payload \in Seq(Bytes) /\ payload' \in Seq(Bytes)
    BY <1>3, <1>5, AppendProperties DEF CodecTypes
  <1>8. ASSUME NEW k \in Kinds
        PROVE  decompAt[k] + Len(bytes(k)) \in Nat /\ back[k] \o bytes(k) \in Seq(Bytes)
    <2>1. decompAt[k] \in Nat /\ back[k] \in Seq(Bytes) /\ Len(bytes(k)) \in Nat
      BY <1>5, <1>6, LenProperties DEF CodecTypes
    <2>2. decompAt[k] + Len(bytes(k)) \in Nat
      BY <2>1
    <2> DEFINE s == back[k]
               t == bytes(k)
    <2>3. s \in Seq(Bytes) /\ t \in Seq(Bytes)
      BY <1>6, <2>1
    <2> HIDE DEF s, t
    <2>4. s \o t \in Seq(Bytes)
      BY <2>3, ConcatProperties
    <2>5. QED
      BY <2>2, <2>4 DEF s, t
  <1>9. CodecTypes'
    BY <1>4, <1>6, <1>7, <1>8 DEF CodecTypes
  <1>10. ASSUME NEW k \in Kinds PROVE Streams(k)'
    BY <1>3, <1>4, <1>6 DEF Streams
  <1>11. Streaming'
    BY <1>1, <1>9, <1>10 DEF Streaming
  <1>12. PICK kept \in Seq(Bytes) : taken[pair] = kept \o payload
    BY DEF Coming, Carried
  <1>13. taken'[pair] = Append(taken[pair], b)
    BY <1>3 DEF Chain, Sources, Shape, PairTypeOK, Compress
  <1>14. kept \o Append(payload, b) = Append(kept \o payload, b)
    BY <1>7, HeldGrows
  <1>15. Carried'
    BY <1>1, <1>3, <1>12, <1>13, <1>14 DEF Carried
  <1>16. QED
    BY <1>11, <1>15 DEF Coming

\* Each gives what it held back.
LEMMA ComingDone ==
    ASSUME Chain, Coming, Done
    PROVE  Coming'
  <1>1. /\ IsOn /\ IsConnected /\ IsConnected' /\ ~IsComplete
        /\ Latest'.state = "done" /\ Latest'.response = Latest.response
    BY SourcesDone DEF Chain, IsComplete, IsOn
  <1>2. UNCHANGED pair
    BY DEF Done, configVars
  <1>3. CASE Latest.response.type = Unknown
    <2>1. ~IsComplete'
      BY <1>1, <1>3 DEF IsComplete
    <2>2. UNCHANGED <<analyzerVars, pairVars, pair>>
      BY <1>2, <1>3 DEF Done, OnHttpDone
    <2>3. QED
      BY <1>1, <2>1, <2>2, ComingStays
  <1>4. CASE Latest.response.type # Unknown
    <2>1. CloseCompressors /\ UNCHANGED payload
      BY <1>4 DEF Done, OnHttpDone
    <2>2. Passed([k \in Kinds |-> Closed(comp[k])]) /\ Close(pair)
      BY <2>1 DEF CloseCompressors
    <2> DEFINE bytes(k) == Decompressed(k, decompAt[k], Closed(comp[k]))
    <2>3. /\ comp' = [k \in Kinds |-> Closed(comp[k]).comp]
          /\ decompAt' = [k \in Kinds |-> decompAt[k] + Len(bytes(k))]
          /\ back' = [k \in Kinds |-> back[k] \o bytes(k)]
      BY <2>2 DEF Passed
    <2>4. CodecTypes /\ \A k \in Kinds : Streams(k)
      BY <1>1 DEF Coming, Streaming
    <2>5. ASSUME NEW k \in Kinds
          PROVE  /\ bytes(k) \in Seq(Bytes) /\ Closed(comp[k]).comp \in CompType
                 /\ back[k] \o bytes(k) = payload
      BY <2>4, CloseStreams
    <2> HIDE DEF bytes
    <2>6. payload \in Seq(Bytes)
      BY <2>4 DEF CodecTypes
    <2>7. ASSUME NEW k \in Kinds PROVE decompAt[k] + Len(bytes(k)) \in Nat
      <3>1. decompAt[k] \in Nat /\ Len(bytes(k)) \in Nat
        BY <2>4, <2>5, LenProperties DEF CodecTypes
      <3>2. QED
        BY <3>1
    <2>8. CodecTypes'
      BY <2>1, <2>3, <2>5, <2>6, <2>7 DEF CodecTypes
    <2>9. \A k \in Kinds : back'[k] = payload'
      BY <2>1, <2>3, <2>5
    <2>10. IsComplete'
      BY <1>1, <1>4 DEF IsComplete
    <2>11. Streaming'
      BY <1>1, <2>8, <2>9, <2>10 DEF Streaming
    <2>12. coder'[pair].node[2] = <<>>
      <3> DEFINE c == Flushed(coder[pair], pair)
      <3>1. coder' = [coder EXCEPT ![pair] = c] /\ coder'[pair] = c
        BY <2>2 DEF Close, Chain, Sources, Shape, PairTypeOK
      <3>2. c.node = Root(pair)
        BY DEF Flushed
      <3>3. QED
        BY <3>1, <3>2 DEF Root
    <2>13. UNCHANGED taken
      BY <2>2 DEF Close
    <2>14. Carried'
      BY <1>2, <2>1, <2>12, <2>13 DEF Coming, Carried
    <2>15. QED
      BY <2>11, <2>14 DEF Coming
  <1>5. QED
    BY <1>3, <1>4

\* There are new ones for the next connection.
LEMMA ComingDisconnect ==
    ASSUME Chain, Coming, Disconnect
    PROVE  Coming'
  <1>1. ~IsConnected' /\ ~IsComplete' /\ UNCHANGED pair
    BY SourcesDisconnect DEF Chain, IsComplete, Disconnect, configVars
  <1>2. /\ comp' = [k \in Kinds |-> ClosedCompressor]
        /\ decompAt' = [k \in Kinds |-> 0] /\ back' = [k \in Kinds |-> <<>>]
        /\ Create(pair) /\ payload' = <<>>
    BY DEF Disconnect, OnHttpClose
  <1>3. <<>> \in Seq(Bytes) /\ <<>> \o <<>> = <<>>
    BY EmptySeq
  <1>4. CodecTypes'
    BY <1>2, <1>3 DEF CodecTypes, CompType, ClosedCompressor
  <1>5. Streaming'
    BY <1>1, <1>2, <1>4 DEF Streaming
  <1>6. taken'[pair] = <<>>
    BY <1>2 DEF Create, Chain, Sources, Shape, PairTypeOK
  <1>7. Carried'
    BY <1>1, <1>2, <1>3, <1>6 DEF Carried
  <1>8. QED
    BY <1>5, <1>7 DEF Coming

\* The other steps change nothing of this.
LEMMA ComingStep == Chain /\ Coming /\ [Next]_vars => Coming'
  <1> SUFFICES ASSUME Chain, Coming, [Next]_vars PROVE Coming'
    OBVIOUS
  <1>1. CASE Load
    <2>1. UNCHANGED <<analyzerVars, pairVars, pair>>
      BY <1>1 DEF Load, configVars
    <2>2. (IsConnected' <=> IsConnected) /\ (IsComplete' <=> IsComplete)
      BY <1>1, SourcesLoad DEF Chain, IsComplete
    <2>3. QED
      BY <2>1, <2>2, ComingStays
  <1>2. CASE RequestDone
    <2>1. UNCHANGED <<analyzerVars, pairVars, pair>>
      BY <1>2 DEF RequestDone, configVars
    <2>2. (IsConnected' <=> IsConnected) /\ (IsComplete' <=> IsComplete)
      BY <1>2, SourcesRequestDone DEF Chain, IsComplete
    <2>3. QED
      BY <2>1, <2>2, ComingStays
  <1>3. CASE UNCHANGED vars
    <2>1. UNCHANGED <<analyzerVars, pairVars, pair>> /\ UNCHANGED <<told, connected>>
      BY <1>3 DEF vars, configVars, sourceVars
    <2>2. (IsConnected' <=> IsConnected) /\ (IsComplete' <=> IsComplete)
      BY <2>1 DEF IsConnected, IsComplete, Latest
    <2>3. QED
      BY <2>1, <2>2, ComingStays
  <1>4. QED
    BY <1>1, <1>2, <1>3, ComingRespond, ComingTraffic, ComingDone, ComingDisconnect DEF Next

\* None has read anything.
LEMMA ComingInit == Init => Coming
  <1> SUFFICES ASSUME Init PROVE Coming
    OBVIOUS
  <1>1. <<>> \in Seq(Bytes) /\ <<>> \o <<>> = <<>>
    BY EmptySeq
  <1>2. ~IsConnected /\ ~IsComplete
    <2>1. Len(told) = 0 /\ connected = 0
      BY EmptySeq DEF Init
    <2>2. QED
      BY <2>1 DEF IsComplete, IsConnected
  <1>3. /\ comp = [k \in Kinds |-> ClosedCompressor] /\ decompAt = [k \in Kinds |-> 0]
        /\ back = [k \in Kinds |-> <<>>] /\ payload = <<>>
    BY DEF Init, AnalyzerInit
  <1>4. Streaming
    BY <1>1, <1>2, <1>3 DEF Streaming, CodecTypes, CompType, ClosedCompressor
  <1>5. pair \in Dicts /\ taken = [d \in Dicts |-> <<>>]
    BY SourcesInit DEF Sources, Init, AnalyzerInit, PairInit
  <1>6. Carried
    BY <1>1, <1>2, <1>3, <1>5 DEF Carried
  <1>7. QED
    BY <1>4, <1>6 DEF Coming

-----------------------------------------------------------------------------
(* What LZWDict has kept *)

\* A word ends with each word it was put together from last.
LEMMA EndsWith ==
    ASSUME NEW s \in Seq(Bytes), NEW w \in Seq(Bytes)
    PROVE  w \in Suffixes(s \o w)
  <1>1. Len(s) \in Nat /\ Len(w) \in Nat /\ Len(s \o w) = Len(s) + Len(w)
    BY LenProperties, ConcatProperties
  <1>2. CASE Len(w) = 0
    BY <1>2, EmptySeq DEF Suffixes
  <1>3. CASE Len(w) # 0
    <2>1. /\ Len(s) + 1 \in 1 .. Len(s \o w)
          /\ Len(s) + 1 \in Len(s) + 1 .. Len(s) + Len(w)
          /\ Len(s \o w) \in Len(s) + 1 .. Len(s) + Len(w)
          /\ (Len(s) + 1) - Len(s) = 1 /\ Len(s \o w) - Len(s) = Len(w)
      BY <1>1, <1>3
    <2>2. SubSeq(s \o w, Len(s) + 1, Len(s \o w)) = SubSeq(w, 1, Len(w))
      BY <2>1, SubSeqOfConcat2
    <2>3. SubSeq(s \o w, Len(s) + 1, Len(s \o w)) = w
      BY <2>2, SubSeqFull
    <2>4. QED
      BY <2>1, <2>3 DEF Suffixes
  <1>4. QED
    BY <1>2, <1>3

\* What a word ends with is behind something.
LEMMA IsBehind ==
    ASSUME NEW s \in Seq(Bytes), NEW w \in Suffixes(s)
    PROVE  w \in Seq(Bytes) /\ \E front \in Seq(Bytes) : front \o w = s
  <1>1. CASE w = <<>>
    BY <1>1, EmptySeq, ConcatEmptySeq
  <1>2. CASE w # <<>>
    <2>1. PICK l \in 1 .. Len(s) : w = SubSeq(s, l, Len(s))
      BY <1>2 DEF Suffixes
    <2>2. l - 1 \in 0 .. Len(s) /\ (l - 1) + 1 = l
      BY LenProperties
    <2>3. QED
      BY <2>1, <2>2, Cut
  <1>3. QED
    BY <1>1, <1>2

\* What was left open is left open, as long as no response is told of.
LEMMA UnclosedStays ==
    ASSUME Sources, NEW t \in Telling, IsConnected, UNCHANGED connected,
           told' = [told EXCEPT ![Len(told)] = t]
    PROVE  Unclosed' = Unclosed
  <1>1. Len(told) \in 1 .. Len(told) /\ told \in Seq(Telling)
    BY LatestIsTold DEF Sources
  <1>2. /\ Len(told') = Len(told)
        /\ \A i \in 1 .. Len(told) : told'[i] = IF i = Len(told) THEN t ELSE told[i]
    BY <1>1, ExceptSeq
  <1>3. ASSUME NEW i \in 1 .. Len(told) - 1 PROVE told'[i] = told[i]
    <2>1. i \in 1 .. Len(told) /\ i # Len(told)
      BY <1>1
    <2>2. QED
      BY <1>2, <2>1
  <1>4. \A i \in 1 .. Len(told) - 1 : LeftOpen(i)' = LeftOpen(i)
    BY <1>3 DEF LeftOpen
  <1>5. QED
    BY <1>2, <1>4 DEF Unclosed

\* A response that is told of leaves open what the one before it did.
LEMMA UnclosedGrows ==
    ASSUME Sources, IsConnected, NEW t \in Telling, UNCHANGED connected,
           told' = Append(told, t)
    PROVE  /\ Unclosed \in Seq(Bytes)
           /\ Unclosed' = Unclosed \o (IF Latest.response.type = Unknown THEN Latest.bytes ELSE <<>>)
  <1> DEFINE n == Len(told)
             f == [i \in 1 .. n |-> LeftOpen(i)]
  <1>1. /\ n \in 1 .. n /\ n \in Nat /\ n - 1 \in 0 .. n /\ told \in Seq(Telling)
        /\ \A i \in 1 .. n : told[i] \in Telling
    BY LatestIsTold, LenProperties, ElementOfSeq DEF Sources
  <1>2. \A i \in 1 .. n : LeftOpen(i) \in Seq(Bytes)
    BY <1>1, EmptySeq DEF LeftOpen, Telling
  <1>3. f \in [1 .. n -> Seq(Bytes)] /\ f[n] = LeftOpen(n)
    BY <1>1, <1>2
  <1>4. LeftOpen(n) = IF Latest.response.type = Unknown THEN Latest.bytes ELSE <<>>
    BY <1>1 DEF LeftOpen, Latest, IsConnected
  <1>5. [i \in 1 .. n - 1 |-> f[i]] = [i \in 1 .. n - 1 |-> LeftOpen(i)]
    BY <1>1
  <1>6. Unclosed = Joined(f, n - 1)
    BY <1>5 DEF Unclosed, Joined
  <1>7. Len(told') = n + 1 /\ \A i \in 1 .. n : told'[i] = told[i]
    BY <1>1, AppendProperties
  <1>8. \A i \in 1 .. n : LeftOpen(i)' = f[i]
    BY <1>7 DEF LeftOpen
  <1>9. Unclosed' = Joined(f, n)
    <2>1. Len(told') - 1 = n
      BY <1>1, <1>7
    <2>2. QED
      BY <1>8, <2>1 DEF Unclosed, Joined
  <1> HIDE DEF f, n
  <1>10. Joined(f, n - 1) \in Seq(Bytes) /\ Joined(f, n) = Joined(f, n - 1) \o f[n]
    BY <1>1, <1>3, JoinedIs, ZenonT(60)
  <1>11. QED
    BY <1>3, <1>4, <1>6, <1>9, <1>10 DEF n

\* The encoder has read the payload behind one word it was left with, and the
\* payload is what came with the latest response.
HeldInv ==
    /\ IsSingle => \E kept \in HeldOver : taken[pair] = kept \o payload
    /\ ~IsConnected => taken[pair] = <<>>
    /\ IsConnected =>
          /\ payload = Latest.bytes /\ Latest.state # "cut"
          /\ Latest.state = "never done" => payload = <<>>

\* There is always the empty word.
LEMMA NothingIsHeld == <<>> \in HeldOver
  BY DEF HeldOver, Suffixes

\* What is held over is a word.
LEMMA KeptIsWord ==
    ASSUME Chain, NEW kept \in HeldOver
    PROVE  kept \in Seq(Bytes)
  <1>1. CASE kept = <<>>
    BY <1>1, EmptySeq
  <1>2. CASE kept # <<>>
    <2>1. <<pair, kept>> \in Dicts \X Seq(Bytes)
      BY <1>2 DEF HeldOver, Chain, Shape, DictTypeOK
    <2>2. QED
      BY <2>1
  <1>3. QED
    BY <1>1, <1>2

\* None has read anything.
LEMMA HeldInit == Init => HeldInv
  <1> SUFFICES ASSUME Init PROVE HeldInv
    OBVIOUS
  <1>1. Len(told) = 0 /\ connected = 0 /\ payload = <<>> /\ pair \in Dicts
    BY EmptySeq, SourcesInit DEF Init, AnalyzerInit, Sources
  <1>2. taken[pair] = <<>> /\ <<>> \o <<>> = <<>>
    BY <1>1, EmptySeq DEF Init, AnalyzerInit, PairInit
  <1>3. QED
    BY <1>1, <1>2, NothingIsHeld DEF HeldInv, IsConnected

\* The word the encoder is left with ends what was left open, if there was more
\* than one response: for a response with a content type nothing is left.
LEMMA LeftWith ==
    ASSUME Chain, Coming, RoundTrip, HeldInv, IsSingle, IsConnected, ~IsOn,
           NEW t \in Telling, UNCHANGED connected, told' = Append(told, t)
    PROVE  coder[pair].node[2] \in Suffixes(Unclosed')
  <1> DEFINE w == coder[pair].node[2]
             g == given[pair]
  <1>1. w \in Seq(Bytes) /\ g \in Seq(Bytes) /\ payload \in Seq(Bytes) /\ g \o w = taken[pair]
    BY DEF Chain, Sources, Shape, PairTypeOK, Coming, Streaming, CodecTypes, RoundTrip
  <1>2. Unclosed \in Seq(Bytes)
        /\ Unclosed' = Unclosed \o (IF Latest.response.type = Unknown THEN Latest.bytes ELSE <<>>)
    BY UnclosedGrows DEF Chain
  <1>3. CASE IsComplete
    BY <1>3 DEF Coming, Carried, Suffixes
  <1>4. CASE ~IsComplete
    <2>1. Latest \in Telling /\ payload = Latest.bytes
          /\ (Latest.response.type # Unknown => payload = <<>>)
      <3>1. Latest \in Telling
        BY LatestIsTold DEF Chain
      <3>2. Latest.state \in {"done", "never done"}
        BY <3>1 DEF HeldInv, IsOn, Telling
      <3>3. QED
        BY <1>4, <3>1, <3>2 DEF IsComplete, HeldInv
    <2>2. Unclosed' = Unclosed \o payload
      BY <1>2, <2>1
    <2>3. PICK kept \in HeldOver : taken[pair] = kept \o payload
      BY DEF HeldInv
    <2>4. kept \in Seq(Bytes) /\ \E front \in Seq(Bytes) : front \o kept = Unclosed
      BY <1>2, IsBehind DEF HeldOver
    <2>5. PICK front \in Seq(Bytes) : front \o kept = Unclosed
      BY <2>4
    <2> HIDE DEF w, g
    <2>6. (front \o kept) \o payload = front \o (g \o w)
      <3>1. (front \o kept) \o payload = front \o (kept \o payload)
        BY <1>1, <2>4, Regrouped
      <3>2. kept \o payload = g \o w
        BY <1>1, <2>3
      <3>3. QED
        BY <3>1, <3>2
    <2>7. front \o (g \o w) = (front \o g) \o w /\ front \o g \in Seq(Bytes)
      BY <1>1, Regrouped, ConcatProperties
    <2>8. Unclosed' = (front \o g) \o w
      BY <2>2, <2>5, <2>6, <2>7
    <2>9. w \in Suffixes((front \o g) \o w)
      BY <1>1, <2>7, EndsWith
    <2>10. QED
      BY <2>8, <2>9 DEF w
  <1>5. QED
    BY <1>3, <1>4

\* The compressors are opened, and the encoder stays at its word.
LEMMA HeldRespond ==
    ASSUME Chain, Coming, RoundTrip, HeldInv, NEW r \in Responses, Respond(r)
    PROVE  HeldInv'
  <1> DEFINE t == [response |-> r, bytes |-> <<>>, interrupted |-> FALSE,
                   state |-> IF r.framing = "none" THEN "never done" ELSE "on"]
             w == coder[pair].node[2]
  <1>1. /\ told' = Append(told, t) /\ UNCHANGED <<connected, pair, encTree, readers>>
        /\ Open(pair) /\ payload' = <<>> /\ IsConnected' /\ ~IsOn
    BY SourcesRespond DEF Respond, OnHttpResponse, OpenCompressors, configVars, dictVars, Chain
  <1>2. t \in Telling /\ t.bytes = <<>> /\ t.state # "cut"
    BY EmptySeq DEF Telling
  <1> HIDE DEF t
  <1>3. Latest' = t
    BY <1>1, <1>2, AppendProperties DEF Latest, Chain, Sources
  <1>4. /\ pair \in Dicts /\ w \in Seq(Bytes) /\ taken'[pair] = w
        /\ w = <<>> \/ <<pair, w>> \in DOMAIN encTree
    <2>1. pair \in Dicts /\ coder[pair].node \in Dicts \X Seq(Bytes) /\ taken'[pair] = w
      BY <1>1 DEF Chain, Sources, Shape, PairTypeOK, Open
    <2>2. coder[pair].node \in DOMAIN encTree \cup {Root(pair)} /\ coder[pair].node[1] = pair
      BY <2>1 DEF Chain, Shape, Standing
    <2>3. coder[pair].node = <<pair, w>>
      BY <2>1, <2>2
    <2>4. QED
      BY <2>1, <2>2, <2>3 DEF Root
  <1>5. ASSUME IsSingle PROVE w \in HeldOver'
    <2>1. CASE IsConnected
      <3>1. w \in Suffixes(Unclosed')
        BY <1>1, <1>2, <1>5, <2>1, LeftWith
      <3>2. QED
        BY <1>1, <1>4, <3>1 DEF HeldOver
    <2>2. CASE ~IsConnected
      <3>1. given[pair] \o w = <<>> /\ given[pair] \in Seq(Bytes)
        BY <1>4, <1>5, <2>2 DEF HeldInv, RoundTrip, Chain, Shape, PairTypeOK
      <3>2. Len(given[pair] \o w) = Len(given[pair]) + Len(w) /\ Len(given[pair] \o w) = 0
            /\ Len(w) \in Nat /\ Len(given[pair]) \in Nat
        BY <1>4, <3>1, ConcatProperties, LenProperties, EmptySeq
      <3>3. w = <<>>
        <4> HIDE DEF w
        <4>1. Len(w) = 0
          BY <3>2
        <4>2. QED
          BY <1>4, <4>1, EmptySeq
      <3>4. QED
        BY <3>3 DEF HeldOver, Suffixes
    <2>3. QED
      BY <2>1, <2>2
  <1>6. w \o payload' = w
    BY <1>1, <1>4, ConcatEmptySeq
  <1> HIDE DEF w
  <1>7. QED
    BY <1>1, <1>2, <1>3, <1>4, <1>5, <1>6 DEF HeldInv, IsSingle

\* One byte more is read, and came.
LEMMA HeldTraffic ==
    ASSUME Chain, Coming, HeldInv, NEW b \in Bytes, Traffic(b)
    PROVE  HeldInv'
  <1> DEFINE t == [Latest EXCEPT !.bytes = Append(Latest.bytes, b)]
  <1>1. IsOn /\ IsConnected /\ IsConnected' /\ Latest \in Telling
    BY SourcesTraffic, LatestIsTold DEF Chain, IsOn
  <1>2. /\ told' = [told EXCEPT ![Len(told)] = t] /\ UNCHANGED <<connected, pair, encTree, readers>>
        /\ Compress(pair, b) /\ payload' = Append(payload, b)
    BY DEF Traffic, OnHttpResponseTraffic, AppendToCompressors, configVars, dictVars, Latest
  <1>3. Append(Latest.bytes, b) \in Seq(Bytes)
    BY <1>1, AppendProperties DEF Telling
  <1>4. t \in Telling /\ t.state = "on" /\ t.bytes = Append(Latest.bytes, b)
    BY <1>1, <1>3 DEF Telling, IsOn
  <1> HIDE DEF t
  <1>5. Latest' = t /\ Unclosed' = Unclosed
    <2>1. Len(told) # 0 /\ Sources
      BY <1>1, LatestIsTold DEF Chain
    <2>2. Latest' = t
      BY <1>2, <1>4, <2>1, LatestChanges DEF Sources
    <2>3. QED
      BY <1>1, <1>2, <1>4, <2>1, <2>2, UnclosedStays
  <1>6. HeldOver' = HeldOver
    BY <1>2, <1>5 DEF HeldOver
  <1>7. taken'[pair] = Append(taken[pair], b) /\ payload \in Seq(Bytes)
    BY <1>2 DEF Chain, Sources, Shape, PairTypeOK, Compress, Coming, Streaming, CodecTypes
  <1>8. ASSUME NEW kept \in HeldOver, IsSingle, taken[pair] = kept \o payload
        PROVE  taken'[pair] = kept \o payload'
    <2>1. \E s \in Seq(Bytes) : taken[pair] = s \o payload
      BY DEF Coming, Carried
    <2>2. kept \in Seq(Bytes)
      BY KeptIsWord
    <2>3. QED
      BY <1>2, <1>7, <1>8, <2>2, HeldGrows
  <1>9. IsSingle' => \E kept \in HeldOver' : taken'[pair'] = kept \o payload'
    BY <1>2, <1>6, <1>8 DEF HeldInv, IsSingle
  <1>10. QED
    BY <1>1, <1>2, <1>4, <1>5, <1>9 DEF HeldInv

\* What is told of the latest response may change, but not what came.
LEMMA HeldStays ==
    ASSUME Chain, HeldInv, IsConnected, IsConnected',
           NEW t \in Telling, t.bytes = Latest.bytes, t.state # "cut",
           t.state = "never done" => Latest.state = "never done",
           told' = [told EXCEPT ![Len(told)] = t],
           UNCHANGED <<connected, pair, encTree, readers, payload, taken>>
    PROVE  HeldInv'
  <1>1. Sources /\ Len(told) # 0
    BY LatestIsTold DEF Chain
  <1>2. Latest' = t
    BY <1>1, LatestChanges DEF Sources
  <1>3. Unclosed' = Unclosed
    BY <1>1, UnclosedStays
  <1>4. HeldOver' = HeldOver
    BY <1>3 DEF HeldOver
  <1>5. QED
    BY <1>2, <1>4 DEF HeldInv, IsSingle

\* The dictionaries read on, or nothing happens.
LEMMA HeldLoads ==
    ASSUME HeldInv, DOMAIN encTree \subseteq DOMAIN encTree', readers \subseteq readers',
           UNCHANGED <<told, connected, pair, payload, taken>>
    PROVE  HeldInv'
  <1>1. Unclosed' = Unclosed /\ Latest' = Latest /\ (IsConnected' <=> IsConnected)
    BY DEF Unclosed, LeftOpen, Latest, IsConnected
  <1>2. HeldOver \subseteq HeldOver'
    BY <1>1 DEF HeldOver
  <1>3. IsSingle' => IsSingle
    BY DEF IsSingle
  <1>4. QED
    BY <1>1, <1>2, <1>3 DEF HeldInv

\* Each step leaves LZWDict behind one word at most.
LEMMA HeldStep == Chain /\ Coming /\ RoundTrip /\ HeldInv /\ [Next]_vars => HeldInv'
  <1> SUFFICES ASSUME Chain, Coming, RoundTrip, HeldInv, [Next]_vars PROVE HeldInv'
    OBVIOUS
  <1>1. CASE Load
    <2>1. /\ UNCHANGED <<told, connected, pair, payload, taken>>
          /\ \E d \in Dicts, b \in Bytes : AppendByte(d, b)
      BY <1>1, SourcesLoad DEF Load, configVars, analyzerVars, pairVars, Chain
    <2>2. PICK d \in Dicts, b \in Bytes : AppendByte(d, b)
      BY <2>1
    <2>3. DOMAIN encTree \subseteq DOMAIN encTree'
      BY <2>2, ReadByte DEF Chain, Shape
    <2>4. readers \subseteq readers'
      BY <2>2 DEF AppendByte
    <2>5. QED
      BY <2>1, <2>3, <2>4, HeldLoads
  <1>2. CASE Done
    <2> DEFINE t == [Latest EXCEPT !.state = "done"]
    <2>1. IsConnected /\ IsConnected' /\ Latest \in Telling
      BY <1>2, SourcesDone, LatestIsTold DEF Chain, IsOn
    <2>2. /\ told' = [told EXCEPT ![Len(told)] = t]
          /\ UNCHANGED <<connected, pair, encTree, readers, payload, taken>>
      BY <1>2 DEF Done, OnHttpDone, CloseCompressors, Close, configVars, dictVars, analyzerVars, pairVars, Latest
    <2>3. t \in Telling /\ t.bytes = Latest.bytes /\ t.state = "done"
      BY <2>1 DEF Telling
    <2> HIDE DEF t
    <2>4. QED
      BY <2>1, <2>2, <2>3, HeldStays
  <1>3. CASE RequestDone
    <2> DEFINE int == Latest.interrupted \/ IsOn
               t == [Latest EXCEPT !.interrupted = int]
    <2>1. IsConnected /\ IsConnected' /\ Latest \in Telling
      BY <1>3, SourcesRequestDone, LatestIsTold DEF Chain
    <2>2. /\ told' = [told EXCEPT ![Len(told)] = t]
          /\ UNCHANGED <<connected, pair, encTree, readers, payload, taken>>
      BY <1>3 DEF RequestDone, configVars, dictVars, analyzerVars, pairVars, Latest
    <2>3. int \in BOOLEAN
      OBVIOUS
    <2> HIDE DEF int
    <2>4. t \in Telling /\ t.bytes = Latest.bytes /\ t.state = Latest.state
      BY <2>1, <2>3 DEF Telling
    <2>5. Latest.state # "cut"
      BY <2>1 DEF HeldInv
    <2> HIDE DEF t
    <2>6. QED
      BY <2>1, <2>2, <2>4, <2>5, HeldStays
  <1>4. CASE Disconnect
    <2>1. /\ ~IsConnected' /\ UNCHANGED pair /\ pair \in Dicts
          /\ Create(pair) /\ payload' = <<>>
      BY <1>4, SourcesDisconnect DEF Disconnect, OnHttpClose, configVars, Chain, Sources
    <2>2. taken'[pair'] = <<>> /\ <<>> \o <<>> = <<>>
      BY <2>1, EmptySeq DEF Create, Chain, Shape, PairTypeOK
    <2>3. <<>> \in HeldOver'
      BY DEF HeldOver, Suffixes
    <2>4. QED
      BY <2>1, <2>2, <2>3 DEF HeldInv
  <1>5. CASE UNCHANGED vars
    <2>1. UNCHANGED <<told, connected, pair, payload, taken, encTree, readers>>
      BY <1>5 DEF vars, configVars, sourceVars, analyzerVars, pairVars, dictVars
    <2>2. QED
      BY <2>1, HeldLoads
  <1>6. QED
    BY <1>1, <1>2, <1>3, <1>4, <1>5, HeldRespond, HeldTraffic DEF Next

\* What is given and held is the payload, behind a word in the case of LZWDict,
\* so what is given is the beginning of it.
LEMMA ComingGives == Chain /\ Coming /\ RoundTrip /\ HeldInv => PayloadComesBack
  <1> SUFFICES ASSUME Chain, Coming, RoundTrip, HeldInv PROVE PayloadComesBack
    OBVIOUS
  <1>1. CodecTypes /\ payload \in Seq(Bytes)
    BY DEF Coming, Streaming, CodecTypes
  <1>2. IsPrefix(payload, payload) /\ IsPrefix(<<>>, <<>>)
    <2>1. <<>> \in Seq(Bytes) /\ <<>> \o <<>> = <<>> /\ payload \o <<>> = payload
      BY <1>1, EmptySeq, ConcatEmptySeq
    <2>2. QED
      BY <1>1, <2>1, BeginsWith
  <1>3. ASSUME NEW k \in Kinds PROVE ComesBack(back[k], payload)
    <2>1. back[k] \in Seq(Bytes) /\ comp[k].held \in Seq(Bytes)
      BY <1>1 DEF CodecTypes, CompType
    <2>2. IsPrefix(back[k], back[k] \o comp[k].held)
      BY <2>1, BeginsWith
    <2>3. QED
      BY <1>2, <2>2 DEF ComesBack, Coming, Streaming, Streams, IsComplete
  <1>4. ASSUME IsSingle PROVE \E kept \in HeldOver : ComesBack(given[pair], kept \o payload)
    <2>1. PICK kept \in HeldOver : taken[pair] = kept \o payload
      BY <1>4 DEF HeldInv
    <2> DEFINE held == coder[pair].node[2]
               given1 == given[pair]
    <2>2. /\ given1 \in Seq(Bytes) /\ held \in Seq(Bytes)
          /\ given1 \o held = kept \o payload
      BY <1>4, <2>1 DEF Chain, Sources, Shape, PairTypeOK, RoundTrip
    <2>3. IsComplete => held = <<>>
      BY DEF Coming, Carried
    <2> HIDE DEF held, given1
    <2>4. IsPrefix(given1, given1 \o held) /\ given1 \o <<>> = given1
      BY <2>2, BeginsWith, ConcatEmptySeq
    <2>5. ComesBack(given1, kept \o payload)
      BY <2>2, <2>3, <2>4 DEF ComesBack
    <2>6. QED
      BY <2>5 DEF given1
  <1>5. QED
    BY <1>3, <1>4 DEF PayloadComesBack

\* Whatever is told of responses, connections and dictionaries, and whatever the
\* libraries hold back: each decompressor gives the payload of the response that
\* is on, as far as it got, and all of it once the compressors were closed. The
\* one of LZWDict gives it behind one word at most, that the encoder has kept of
\* responses of the connection that it was not closed for.
THEOREM NothingOfAnother == Spec => []PayloadComesBack
  <1>1. Chain /\ [Next]_vars => Chain'
    BY LZWStep, ChainStutters
  <1>2. Init => Chain /\ Coming /\ HeldInv
    BY ChainInit, ComingInit, HeldInit
  <1>3. Spec => []RoundTrip
    BY UsesLZWDict, NothingLost, PTL
  <1>4. QED
    BY <1>1, <1>2, <1>3, ComingStep, HeldStep, ComingGives, PTL DEF Spec

-----------------------------------------------------------------------------
(* The files *)

FileType == [response : Nat, cells : Seq(Nat \X Bytes)]

\* The file that is open is the last one. It is that of the response that is
\* on, or of one without payload, and nothing interrupted it.
OpenIsLatest ==
    openFile # 0 =>
        LET t == told[files[openFile].response]
        IN  /\ openFile = Len(files) /\ ~t.interrupted
            /\ t.response.framing # "none" => IsOn /\ files[openFile].response = Len(told)

\* A response that is on, exported and was not interrupted has its file open.
LatestIsOpen ==
    IsOn =>
        /\ Latest.response.framing # "none"
        /\ source = "net" /\ IsExported(Latest.response) /\ ~Latest.interrupted =>
              openFile # 0 /\ files[openFile].response = Len(told)

\* The inductive invariant of the files
FilesInv ==
    /\ files \in Seq(FileType) /\ openFile \in 0 .. Len(files)
    /\ source # "net" => files = <<>>
    /\ \A i \in DOMAIN files : files[i].response \in DOMAIN told
    /\ OpenIsLatest /\ LatestIsOpen /\ FilesTellPayload

\* Files stay as they are, and what is told of their responses does, too, but
\* for one that may be interrupted now.
LEMMA FilesStay ==
    ASSUME FilesInv, told \in Seq(Telling), told' \in Seq(Telling), UNCHANGED <<files, source>>,
           Len(told') = Len(told),
           \A k \in 1 .. Len(told) :
              /\ told'[k].response = told[k].response /\ told'[k].bytes = told[k].bytes
              /\ told[k].interrupted => told'[k].interrupted
    PROVE  FilesTellPayload' /\ \A i \in DOMAIN files' : files'[i].response \in DOMAIN told'
  <1>1. /\ DOMAIN told = 1 .. Len(told) /\ DOMAIN told' = 1 .. Len(told) /\ DOMAIN files' = DOMAIN files
        /\ \A i \in DOMAIN files : files[i].response \in DOMAIN told
    BY LenProperties DEF FilesInv
  <1>2. source' = "net" =>
          /\ {files'[i].response : i \in DOMAIN files'}
                = {k \in DOMAIN told' : IsExported(told'[k].response)}
          /\ \A i, j \in DOMAIN files' : i < j => files'[i].response < files'[j].response
    <2>1. \A k \in DOMAIN told : IsExported(told'[k].response) <=> IsExported(told[k].response)
      BY <1>1 DEF IsExported
    <2> QED
      BY <1>1, <2>1 DEF FilesInv, FilesTellPayload
  <1>3. ASSUME NEW i \in DOMAIN files'
        PROVE  LET f == files'[i]
                   t == told'[f.response]
               IN  /\ \A j \in Own(f) :
                         1 .. j \subseteq Own(f) /\ j \in DOMAIN t.bytes /\ f.cells[j][2] = t.bytes[j]
                   /\ ~t.interrupted => Own(f) = DOMAIN t.bytes
                   /\ t.response.framing # "none" => Own(f) = DOMAIN f.cells
    <2> DEFINE f == files[i]
               t == told[f.response]
               u == told'[f.response]
    <2>1. /\ \A j \in Own(f) :
                1 .. j \subseteq Own(f) /\ j \in DOMAIN t.bytes /\ f.cells[j][2] = t.bytes[j]
          /\ ~t.interrupted => Own(f) = DOMAIN t.bytes
          /\ t.response.framing # "none" => Own(f) = DOMAIN f.cells
      BY <1>1, Zenon DEF FilesInv, FilesTellPayload
    <2>2. u.bytes = t.bytes /\ u.response = t.response /\ (t.interrupted => u.interrupted)
      BY <1>1
    <2>3. files'[i] = f
      OBVIOUS
    <2> HIDE DEF f, t, u
    <2> QED
      BY <2>1, <2>2, <2>3 DEF f, t, u
  <1> QED
    BY <1>1, <1>2, <1>3, Zenon DEF FilesTellPayload

\* There is no file at the start.
LEMMA FilesInit == Init => FilesInv
  <1> SUFFICES ASSUME Init PROVE FilesInv
    OBVIOUS
  <1>1. openFile = 0 /\ files = <<>> /\ told = <<>> /\ connected = 0
    BY DEF Init, ExportInit
  <1>2. files \in Seq(FileType) /\ Len(files) = 0 /\ DOMAIN files = {} /\ DOMAIN told = {} /\ Len(told) = 0
    BY <1>1
  <1>3. ~IsOn
    BY <1>1, <1>2 DEF IsOn, IsConnected
  <1> QED
    BY <1>1, <1>2, <1>3 DEF FilesInv, OpenIsLatest, LatestIsOpen, FilesTellPayload

\* What a change of the latest response makes of each of them
LEMMA EachTold ==
    ASSUME told \in Seq(Telling), Len(told) # 0, NEW t \in Telling,
           told' = [told EXCEPT ![Len(told)] = t]
    PROVE  /\ told' \in Seq(Telling) /\ Len(told') = Len(told) /\ told'[Len(told)] = t
           /\ DOMAIN told = 1 .. Len(told) /\ DOMAIN told' = 1 .. Len(told)
           /\ \A k \in 1 .. Len(told) : k # Len(told) => told'[k] = told[k]
  <1>1. Len(told) \in 1 .. Len(told) /\ DOMAIN told = 1 .. Len(told)
    BY LenProperties
  <1>2. told' \in Seq(Telling) /\ Len(told') = Len(told)
    BY LatestChanges
  <1> QED
    BY <1>1, <1>2, LenProperties

\* The end of anything closes the file.
LEMMA FilesClose ==
    ASSUME FilesInv, Sources, IsConnected, UNCHANGED source,
           IF source = "net" THEN CloseFile ELSE UNCHANGED exportVars,
           NEW t \in Telling, t.response = Latest.response, t.bytes = Latest.bytes,
           Latest.interrupted => t.interrupted,
           told' = [told EXCEPT ![Len(told)] = t],
           IsOn' => IsOn /\ t.interrupted
    PROVE  FilesInv'
  <1>1. Latest \in Telling /\ Len(told) # 0 /\ Len(told) \in 1 .. Len(told) /\ told \in Seq(Telling)
    BY LatestIsTold DEF Sources
  <1>2. /\ told' \in Seq(Telling) /\ Len(told') = Len(told) /\ told'[Len(told)] = t
        /\ \A k \in 1 .. Len(told) : k # Len(told) => told'[k] = told[k]
    BY <1>1, EachTold
  <1>3. UNCHANGED files
    BY DEF CloseFile, exportVars
  <1>4. openFile' = 0
    <2>1. CASE source = "net"
      BY <2>1 DEF CloseFile
    <2>2. CASE source # "net"
      <3>1. files = <<>> /\ openFile \in 0 .. Len(files) /\ openFile' = openFile
        BY <2>2 DEF FilesInv, exportVars
      <3> QED
        BY <3>1
    <2> QED
      BY <2>1, <2>2
  <1>5. \A k \in 1 .. Len(told) :
              /\ told'[k].response = told[k].response /\ told'[k].bytes = told[k].bytes
              /\ told[k].interrupted => told'[k].interrupted
    BY <1>2 DEF Latest
  <1>6. FilesTellPayload' /\ \A i \in DOMAIN files' : files'[i].response \in DOMAIN told'
    BY <1>1, <1>2, <1>3, <1>5, FilesStay
  <1>7. Latest' = t
    BY <1>2 DEF Latest
  <1>8. LatestIsOpen'
    BY <1>7 DEF LatestIsOpen, FilesInv
  <1>9. 0 \in 0 .. Len(files)
    BY LenProperties DEF FilesInv
  <1> QED
    BY <1>3, <1>4, <1>6, <1>8, <1>9 DEF FilesInv, OpenIsLatest

\* A response begins, with a file of its own if it is exported.
LEMMA FilesRespond ==
    ASSUME FilesInv, Sources, NEW r \in Responses, Respond(r)
    PROVE  FilesInv'
  <1> DEFINE t == [response |-> r, bytes |-> <<>>, interrupted |-> FALSE,
                   state |-> IF r.framing = "none" THEN "never done" ELSE "on"]
             m == Len(told) + 1
             new == [response |-> m, cells |-> <<>>]
  <1>1. told' = Append(told, t) /\ UNCHANGED <<source, connected>> /\ ~IsOn
    BY DEF Respond, configVars, MayRespond
  <1>2. t \in Telling /\ t.response = r /\ t.bytes = <<>> /\ ~t.interrupted
    <2>1. <<>> \in Seq(Bytes)
      BY EmptySeq
    <2> QED
      BY <2>1 DEF Telling
  <1>3. t.state = "on" => r.framing # "none"
    OBVIOUS
  <1> HIDE DEF t
  <1>4. /\ told \in Seq(Telling) /\ Len(told) \in Nat /\ DOMAIN told = 1 .. Len(told)
        /\ Len(told') = m /\ DOMAIN told' = 1 .. m /\ told'[m] = t
        /\ \A k \in 1 .. Len(told) : told'[k] = told[k]
    BY <1>1, <1>2, AppendProperties, LenProperties DEF Sources
  <1>5. /\ files \in Seq(FileType) /\ Len(files) \in Nat /\ DOMAIN files = 1 .. Len(files)
        /\ \A i \in DOMAIN files : files[i].response \in 1 .. Len(told)
    BY <1>4, LenProperties DEF FilesInv
  <1>6. Latest' = t
    BY <1>4 DEF Latest
  <1>7. \A i \in DOMAIN files :
          LET f == files[i]
              u == told'[f.response]
          IN  /\ \A j \in Own(f) :
                    1 .. j \subseteq Own(f) /\ j \in DOMAIN u.bytes /\ f.cells[j][2] = u.bytes[j]
              /\ ~u.interrupted => Own(f) = DOMAIN u.bytes
              /\ u.response.framing # "none" => Own(f) = DOMAIN f.cells
    <2>1. \A i \in DOMAIN files : told'[files[i].response] = told[files[i].response]
      BY <1>4, <1>5
    <2> QED
      BY <2>1, Zenon DEF FilesInv, FilesTellPayload
  <1>8. openFile # 0 => /\ openFile = Len(files) /\ openFile \in DOMAIN files
                        /\ ~told'[files[openFile].response].interrupted
                        /\ told'[files[openFile].response].response.framing = "none"
    <2>1. openFile # 0 => openFile = Len(files) /\ openFile \in DOMAIN files
      BY <1>5 DEF FilesInv, OpenIsLatest
    <2>2. openFile # 0 => told'[files[openFile].response] = told[files[openFile].response]
      BY <1>4, <1>5, <2>1
    <2> QED
      BY <1>1, <2>1, <2>2 DEF FilesInv, OpenIsLatest
  <1>9. CASE source = "net" /\ IsExported(r)
    <2>1. openFile' = Len(files) + 1 /\ files' = Append(files, new)
      BY <1>9 DEF Respond, OpenFile, IsExported
    <2>2. new \in FileType /\ new.response = m /\ new.cells = <<>>
      BY <1>4, EmptySeq DEF FileType
    <2> HIDE DEF new
    <2>3. /\ files' \in Seq(FileType) /\ Len(files') = Len(files) + 1 /\ DOMAIN files' = 1 .. Len(files) + 1
          /\ files'[Len(files) + 1] = new /\ \A i \in 1 .. Len(files) : files'[i] = files[i]
      BY <1>5, <2>1, <2>2, AppendProperties
    <2>4. \A i \in DOMAIN files' : files'[i].response \in DOMAIN told'
      <3> SUFFICES ASSUME NEW i \in DOMAIN files' PROVE files'[i].response \in DOMAIN told'
        OBVIOUS
      <3>1. CASE i = Len(files) + 1
        BY <1>4, <2>2, <2>3, <3>1
      <3>2. CASE i \in DOMAIN files
        BY <1>4, <1>5, <2>3, <3>2
      <3> QED
        BY <1>5, <2>3, <3>1, <3>2
    <2>5. {files'[i].response : i \in DOMAIN files'} = {k \in DOMAIN told' : IsExported(told'[k].response)}
      <3>1. {files[i].response : i \in DOMAIN files} = {k \in DOMAIN told : IsExported(told[k].response)}
        BY <1>9 DEF FilesInv, FilesTellPayload
      <3>2. {files'[i].response : i \in DOMAIN files'} = {files[i].response : i \in DOMAIN files} \cup {m}
        BY <1>5, <2>2, <2>3
      <3>3. {k \in DOMAIN told' : IsExported(told'[k].response)}
              = {k \in DOMAIN told : IsExported(told[k].response)} \cup {m}
        <4>1. \A k \in DOMAIN told : IsExported(told'[k].response) <=> IsExported(told[k].response)
          BY <1>4 DEF IsExported
        <4>2. IsExported(told'[m].response)
          BY <1>2, <1>4, <1>9 DEF IsExported
        <4> QED
          BY <1>4, <4>1, <4>2
      <3> QED
        BY <3>1, <3>2, <3>3
    <2>6. \A i, j \in DOMAIN files' : i < j => files'[i].response < files'[j].response
      <3> SUFFICES ASSUME NEW i \in DOMAIN files', NEW j \in DOMAIN files', i < j
                   PROVE  files'[i].response < files'[j].response
        OBVIOUS
      <3>1. i \in DOMAIN files /\ files'[i] = files[i]
        BY <1>5, <2>3
      <3>2. CASE j = Len(files) + 1
        <4>1. files'[j].response = m
          BY <2>2, <2>3, <3>2
        <4> QED
          BY <1>4, <1>5, <3>1, <4>1
      <3>3. CASE j \in DOMAIN files
        <4>1. files'[j] = files[j]
          BY <1>5, <2>3, <3>3
        <4> QED
          BY <1>9, <3>1, <3>3, <4>1 DEF FilesInv, FilesTellPayload
      <3> QED
        BY <1>5, <2>3, <3>2, <3>3
    <2>7. \A i \in DOMAIN files' :
            LET f == files'[i]
                u == told'[f.response]
            IN  /\ \A j \in Own(f) :
                      1 .. j \subseteq Own(f) /\ j \in DOMAIN u.bytes /\ f.cells[j][2] = u.bytes[j]
                /\ ~u.interrupted => Own(f) = DOMAIN u.bytes
                /\ u.response.framing # "none" => Own(f) = DOMAIN f.cells
      <3>1. Own(new) = {} /\ DOMAIN new.cells = {} /\ DOMAIN t.bytes = {}
        BY <1>2, <2>2, EmptySeq DEF Own
      <3>2. files'[Len(files) + 1] = new /\ told'[new.response] = t
        BY <1>4, <2>2, <2>3
      <3> SUFFICES ASSUME NEW i \in DOMAIN files'
                   PROVE  LET f == files'[i]
                              u == told'[f.response]
                          IN  /\ \A j \in Own(f) :
                                    1 .. j \subseteq Own(f) /\ j \in DOMAIN u.bytes
                                    /\ f.cells[j][2] = u.bytes[j]
                              /\ ~u.interrupted => Own(f) = DOMAIN u.bytes
                              /\ u.response.framing # "none" => Own(f) = DOMAIN f.cells
        BY Zenon
      <3>3. CASE i = Len(files) + 1
        BY <3>1, <3>2, <3>3
      <3>4. CASE i \in DOMAIN files
        <4>1. files'[i] = files[i]
          BY <1>5, <2>3, <3>4
        <4> QED
          BY <1>7, <3>4, <4>1, ZenonT(60)
      <3> QED
        BY <1>5, <2>3, <3>3, <3>4
    <2>8. FilesTellPayload'
      BY <2>5, <2>6, <2>7, Zenon DEF FilesTellPayload
    <2>9. OpenIsLatest' /\ LatestIsOpen' /\ openFile' \in 0 .. Len(files')
      <3>1. files'[openFile'].response = m /\ told'[m] = t /\ openFile' = Len(files') /\ openFile' # 0
        BY <1>4, <1>5, <2>1, <2>2, <2>3
      <3>2. r.framing # "none" => t.state = "on" /\ IsConnected'
        <4>1. connected' \in 0 .. Len(told) /\ Len(told') > connected'
          BY <1>1, <1>4 DEF Sources
        <4> QED
          BY <4>1 DEF IsConnected, t
      <3>3. IsOn' => t.state = "on"
        BY <1>6 DEF IsOn
      <3>4. r.framing # "none" => IsOn'
        BY <1>6, <3>2 DEF IsOn
      <3> QED
        BY <1>2, <1>3, <1>4, <1>5, <1>6, <2>3, <3>1, <3>3, <3>4 DEF OpenIsLatest, LatestIsOpen
    <2> QED
      BY <1>1, <1>9, <2>3, <2>4, <2>8, <2>9 DEF FilesInv
  <1>10. CASE ~(source = "net" /\ IsExported(r))
    <2>1. UNCHANGED exportVars
      BY <1>10 DEF Respond, OpenFile, IsExported
    <2>2. files' = files /\ openFile' = openFile
      BY <2>1 DEF exportVars
    <2>3. source' = "net" =>
            /\ {files'[i].response : i \in DOMAIN files'}
                  = {k \in DOMAIN told' : IsExported(told'[k].response)}
            /\ \A i, j \in DOMAIN files' : i < j => files'[i].response < files'[j].response
      <3>1. CASE source # "net"
        BY <1>1, <3>1
      <3>2. CASE source = "net"
        <4>1. ~IsExported(told'[m].response)
          BY <1>2, <1>4, <1>10, <3>2
        <4>2. \A k \in DOMAIN told : IsExported(told'[k].response) <=> IsExported(told[k].response)
          BY <1>4 DEF IsExported
        <4>3. {k \in DOMAIN told' : IsExported(told'[k].response)}
                = {k \in DOMAIN told : IsExported(told[k].response)}
          BY <1>4, <4>1, <4>2
        <4> QED
          BY <2>2, <3>2, <4>3 DEF FilesInv, FilesTellPayload
      <3> QED
        BY <3>1, <3>2
    <2>4. FilesTellPayload'
      BY <1>7, <2>2, <2>3, Zenon DEF FilesTellPayload
    <2>5. OpenIsLatest'
      BY <1>8, <2>2 DEF OpenIsLatest
    <2>6. LatestIsOpen'
      <3>1. IsOn' => t.state = "on"
        BY <1>6 DEF IsOn
      <3> QED
        BY <1>1, <1>2, <1>3, <1>6, <1>10, <3>1 DEF LatestIsOpen
    <2>7. \A i \in DOMAIN files' : files'[i].response \in DOMAIN told'
      BY <1>4, <1>5, <2>2
    <2> QED
      BY <1>1, <2>2, <2>4, <2>5, <2>6, <2>7 DEF FilesInv
  <1> QED
    BY <1>9, <1>10

\* What Own finds in a file that grows
LEMMA OwnGrows ==
    ASSUME NEW f \in FileType, NEW c \in Nat \X Bytes,
           NEW g, g = [response |-> f.response, cells |-> Append(f.cells, c)]
    PROVE  /\ g \in FileType /\ DOMAIN f.cells = 1 .. Len(f.cells) /\ Len(f.cells) \in Nat
           /\ DOMAIN g.cells = 1 .. Len(f.cells) + 1
           /\ g.cells[Len(f.cells) + 1] = c
           /\ \A j \in DOMAIN f.cells : g.cells[j] = f.cells[j]
           /\ Own(g) = Own(f) \cup (IF c[1] = f.response THEN {Len(f.cells) + 1} ELSE {})
  <1>1. f.cells \in Seq(Nat \X Bytes) /\ f.response \in Nat
    BY DEF FileType
  <1>2. /\ DOMAIN f.cells = 1 .. Len(f.cells) /\ Len(f.cells) \in Nat
        /\ g.cells \in Seq(Nat \X Bytes) /\ DOMAIN g.cells = 1 .. Len(f.cells) + 1
        /\ g.cells[Len(f.cells) + 1] = c
        /\ \A j \in 1 .. Len(f.cells) : g.cells[j] = f.cells[j]
    BY <1>1, AppendProperties, LenProperties
  <1>3. g \in FileType /\ g.response = f.response
    BY <1>1, <1>2 DEF FileType
  <1>4. Own(g) = Own(f) \cup (IF c[1] = f.response THEN {Len(f.cells) + 1} ELSE {})
    BY <1>2, <1>3 DEF Own
  <1> QED
    BY <1>2, <1>3, <1>4

\* Payload goes into the file that is open, whose ever it is.
LEMMA FilesTraffic ==
    ASSUME FilesInv, Sources, NEW b \in Bytes, Traffic(b)
    PROVE  FilesInv'
  <1> DEFINE t == [Latest EXCEPT !.bytes = Append(Latest.bytes, b)]
             n == Len(told)
  <1>1. Latest \in Telling /\ Len(told) # 0 /\ n \in 1 .. n /\ IsOn /\ told \in Seq(Telling)
    BY LatestIsTold DEF Traffic, IsOn, Sources
  <1>2. told' = [told EXCEPT ![Len(told)] = t] /\ UNCHANGED <<source, connected>>
    BY DEF Traffic, configVars, Latest
  <1>3. /\ Latest.bytes \in Seq(Bytes) /\ Append(Latest.bytes, b) \in Seq(Bytes)
        /\ DOMAIN Latest.bytes = 1 .. Len(Latest.bytes) /\ Len(Latest.bytes) \in Nat
        /\ DOMAIN Append(Latest.bytes, b) = 1 .. Len(Latest.bytes) + 1
        /\ Append(Latest.bytes, b)[Len(Latest.bytes) + 1] = b
        /\ \A j \in 1 .. Len(Latest.bytes) : Append(Latest.bytes, b)[j] = Latest.bytes[j]
    <2>1. Latest.bytes \in Seq(Bytes)
      BY <1>1 DEF Telling
    <2> QED
      BY <2>1, AppendProperties, LenProperties
  <1>4. /\ t \in Telling /\ t.state = Latest.state /\ t.response = Latest.response
        /\ t.interrupted = Latest.interrupted /\ t.bytes = Append(Latest.bytes, b)
    BY <1>1, <1>3 DEF Telling
  <1> HIDE DEF t
  <1>5. /\ told' \in Seq(Telling) /\ Len(told') = n /\ told'[n] = t
        /\ DOMAIN told = 1 .. n /\ DOMAIN told' = 1 .. n
        /\ \A k \in 1 .. n : k # n => told'[k] = told[k]
    BY <1>1, <1>2, <1>4, EachTold
  <1>6. Latest' = t /\ IsOn'
    BY <1>1, <1>2, <1>4, <1>5 DEF Latest, IsOn, IsConnected
  <1>7. /\ files \in Seq(FileType) /\ Len(files) \in Nat /\ DOMAIN files = 1 .. Len(files)
        /\ \A i \in DOMAIN files : files[i] \in FileType /\ files[i].response \in 1 .. n
    BY <1>5, LenProperties, ElementOfSeq DEF FilesInv
  <1>8. \A k \in 1 .. n : /\ told'[k].response = told[k].response
                          /\ told'[k].interrupted = told[k].interrupted
    BY <1>4, <1>5 DEF Latest
  <1>9. Latest.response.framing # "none"
    BY <1>1 DEF FilesInv, LatestIsOpen
  <1> DEFINE Right(f, u) ==
        /\ \A j \in Own(f) :
              1 .. j \subseteq Own(f) /\ j \in DOMAIN u.bytes /\ f.cells[j][2] = u.bytes[j]
        /\ ~u.interrupted => Own(f) = DOMAIN u.bytes
        /\ u.response.framing # "none" => Own(f) = DOMAIN f.cells
  <1>10. \A i \in DOMAIN files : Right(files[i], told[files[i].response])
    BY Zenon DEF FilesInv, FilesTellPayload
  <1>11. ASSUME NEW i \in DOMAIN files, files[i].response # n \/ Latest.interrupted
         PROVE  Right(files[i], told'[files[i].response])
    <2>1. CASE files[i].response # n
      <3>1. told'[files[i].response] = told[files[i].response]
        BY <1>5, <1>7, <2>1
      <3> HIDE DEF Right
      <3> QED
        BY <1>10, <3>1
    <2>2. CASE files[i].response = n /\ Latest.interrupted
      <3>1. Right(files[i], Latest)
        BY <1>10, <2>2 DEF Latest
      <3>2. \A j \in DOMAIN Latest.bytes : j \in DOMAIN t.bytes /\ t.bytes[j] = Latest.bytes[j]
        BY <1>3, <1>4
      <3>3. Right(files[i], t)
        BY <1>4, <2>2, <3>1, <3>2
      <3> HIDE DEF Right
      <3> QED
        BY <1>5, <2>2, <3>3
    <2> QED
      BY <1>11, <2>1, <2>2
  <1>12. ASSUME Len(files') = Len(files), DOMAIN files' = DOMAIN files,
                \A i \in DOMAIN files : files'[i].response = files[i].response,
                \A i \in DOMAIN files : Right(files'[i], told'[files[i].response])
         PROVE  FilesTellPayload' /\ \A i \in DOMAIN files' : files'[i].response \in DOMAIN told'
    <2>1. source' = "net" =>
            /\ {files'[i].response : i \in DOMAIN files'}
                  = {k \in DOMAIN told' : IsExported(told'[k].response)}
            /\ \A i, j \in DOMAIN files' : i < j => files'[i].response < files'[j].response
      <3>1. \A k \in 1 .. n : IsExported(told'[k].response) <=> IsExported(told[k].response)
        BY <1>8 DEF IsExported
      <3>2. {k \in DOMAIN told' : IsExported(told'[k].response)}
              = {k \in DOMAIN told : IsExported(told[k].response)}
        BY <1>5, <3>1
      <3>3. {files'[i].response : i \in DOMAIN files'} = {files[i].response : i \in DOMAIN files}
        BY <1>12
      <3> QED
        BY <1>2, <1>12, <3>2, <3>3 DEF FilesInv, FilesTellPayload
    <2>2. \A i \in DOMAIN files' : Right(files'[i], told'[files'[i].response])
      <3> HIDE DEF Right
      <3> QED
        BY <1>12
    <2> QED
      BY <1>5, <1>7, <1>12, <2>1, <2>2, ZenonT(60) DEF FilesTellPayload
  <1>13. CASE source = "net" /\ openFile # 0
    <2> DEFINE o == openFile
               f == files[o]
               g == [response |-> f.response, cells |-> Append(f.cells, <<n, b>>)]
    <2>1. /\ o = Len(files) /\ o \in DOMAIN files /\ ~told[f.response].interrupted
          /\ told[f.response].response.framing # "none" => f.response = n
      BY <1>7, <1>13 DEF FilesInv, OpenIsLatest
    <2>2. openFile' = o /\ files' = [files EXCEPT ![o].cells = Append(@, <<n, b>>)]
      BY <1>13 DEF Traffic, WriteFile
    <2>3. f \in FileType
      BY <1>7, <2>1
    <2>4. files' = [files EXCEPT ![o] = g]
      <3>1. files' = [files EXCEPT ![o] = [f EXCEPT !.cells = Append(f.cells, <<n, b>>)]]
        BY <2>2
      <3> HIDE DEF f
      <3>2. f = [response |-> f.response, cells |-> f.cells]
        BY <2>3 DEF FileType
      <3>3. [f EXCEPT !.cells = Append(f.cells, <<n, b>>)] = g
        BY <3>2, SMTT(30)
      <3> QED
        BY <3>1, <3>3
    <2>5. <<n, b>> \in Nat \X Bytes /\ <<n, b>>[1] = n
      BY <1>1
    <2> HIDE DEF f
    <2>6. /\ g \in FileType /\ DOMAIN f.cells = 1 .. Len(f.cells) /\ Len(f.cells) \in Nat
          /\ DOMAIN g.cells = 1 .. Len(f.cells) + 1
          /\ g.cells[Len(f.cells) + 1] = <<n, b>>
          /\ \A j \in DOMAIN f.cells : g.cells[j] = f.cells[j]
          /\ Own(g) = Own(f) \cup (IF n = f.response THEN {Len(f.cells) + 1} ELSE {})
          /\ g.response = f.response
      <3> DEFINE c == <<n, b>>
      <3>1. c \in Nat \X Bytes /\ c[1] = n
        BY <2>5
      <3>2. g = [response |-> f.response, cells |-> Append(f.cells, c)]
        OBVIOUS
      <3> HIDE DEF c, g
      <3>3. /\ g \in FileType /\ DOMAIN f.cells = 1 .. Len(f.cells) /\ Len(f.cells) \in Nat
            /\ DOMAIN g.cells = 1 .. Len(f.cells) + 1
            /\ g.cells[Len(f.cells) + 1] = c
            /\ \A j \in DOMAIN f.cells : g.cells[j] = f.cells[j]
            /\ Own(g) = Own(f) \cup (IF c[1] = f.response THEN {Len(f.cells) + 1} ELSE {})
        BY <2>3, <3>1, <3>2, OwnGrows, SMTT(30)
      <3>4. g.response = f.response
        BY <3>2
      <3> QED
        BY <3>1, <3>3, <3>4 DEF c
    <2> HIDE DEF g, o
    <2>7. /\ files' \in Seq(FileType) /\ Len(files') = Len(files) /\ DOMAIN files' = DOMAIN files
          /\ files'[o] = g /\ \A i \in DOMAIN files : i # o => files'[i] = files[i]
      BY <1>7, <2>1, <2>4, <2>6, ExceptSeq
    <2>8. Right(g, told'[f.response])
      <3>1. CASE f.response = n
        <4>1. Right(f, Latest) /\ ~Latest.interrupted
          BY <1>10, <2>1, <3>1 DEF Latest, f
        <4>2. Own(f) = 1 .. Len(f.cells) /\ Own(f) = 1 .. Len(Latest.bytes)
          BY <1>3, <1>9, <2>6, <4>1
        <4>3. Len(f.cells) = Len(Latest.bytes)
          BY <1>3, <2>6, <4>2
        <4>4. Own(g) = 1 .. Len(f.cells) + 1
          BY <2>6, <3>1, <4>2
        <4>5. DOMAIN t.bytes = 1 .. Len(f.cells) + 1
          BY <1>3, <1>4, <4>3
        <4>6. ASSUME NEW j \in 1 .. Len(f.cells) + 1 PROVE g.cells[j][2] = t.bytes[j]
          <5>1. CASE j = Len(f.cells) + 1
            BY <1>3, <1>4, <2>6, <4>3, <5>1
          <5>2. CASE j \in 1 .. Len(f.cells)
            BY <1>3, <1>4, <2>6, <4>1, <4>2, <4>3, <5>2, SMTT(30)
          <5> QED
            BY <2>6, <5>1, <5>2
        <4>7. Right(g, t)
          BY <2>6, <4>4, <4>5, <4>6
        <4> HIDE DEF Right
        <4> QED
          BY <1>5, <3>1, <4>7
      <3>2. CASE f.response # n
        <4>1. told'[f.response] = told[f.response] /\ told[f.response].response.framing = "none"
          BY <1>5, <1>7, <2>1, <3>2 DEF f
        <4>2. Right(f, told[f.response])
          BY <1>10, <2>1 DEF f
        <4>3. Own(g) = Own(f)
          BY <2>6, <3>2
        <4>4. Own(f) \subseteq DOMAIN f.cells
          BY DEF Own
        <4>5. Right(g, told[f.response])
          BY <2>6, <4>1, <4>2, <4>3, <4>4
        <4> HIDE DEF Right
        <4> QED
          BY <4>1, <4>5
      <3> QED
        BY <3>1, <3>2
    <2>9. ASSUME NEW i \in DOMAIN files, i # o
          PROVE  files[i].response # n \/ Latest.interrupted
      <3> SUFFICES ASSUME files[i].response = n, ~Latest.interrupted PROVE FALSE
        OBVIOUS
      <3>1. n \in {files[j].response : j \in DOMAIN files}
        OBVIOUS
      <3>2. IsExported(told[n].response)
        BY <1>13, <3>1 DEF FilesInv, FilesTellPayload
      <3>3. files[o].response = n
        BY <1>1, <1>13, <3>2 DEF FilesInv, LatestIsOpen, Latest, o
      <3>4. files[i].response < files[o].response
        BY <1>7, <1>13, <2>1, <2>9 DEF FilesInv, FilesTellPayload
      <3> QED
        BY <1>1, <3>3, <3>4
    <2>10. \A i \in DOMAIN files : files'[i].response = files[i].response
      BY <2>6, <2>7 DEF f
    <2>11. \A i \in DOMAIN files : Right(files'[i], told'[files[i].response])
      <3> HIDE DEF Right
      <3> QED
        BY <1>11, <2>7, <2>8, <2>9 DEF f
    <2>12. FilesTellPayload' /\ \A i \in DOMAIN files' : files'[i].response \in DOMAIN told'
      <3> HIDE DEF Right
      <3> QED
        BY <1>12, <2>7, <2>10, <2>11
    <2>13. OpenIsLatest'
      <3>1. told'[f.response].interrupted = told[f.response].interrupted
            /\ told'[f.response].response = told[f.response].response
        BY <1>7, <1>8, <2>1 DEF f
      <3>2. files'[openFile'].response = f.response /\ openFile' = Len(files')
        BY <2>1, <2>2, <2>6, <2>7
      <3> QED
        BY <1>5, <1>6, <2>1, <3>1, <3>2 DEF OpenIsLatest
    <2>14. LatestIsOpen'
      <3>1. files'[openFile'].response = files[openFile].response /\ openFile' = openFile
        BY <2>1, <2>2, <2>10 DEF o
      <3>2. /\ Latest'.response = Latest.response /\ (Latest.interrupted <=> Latest'.interrupted)
            /\ Len(told') = Len(told)
        BY <1>4, <1>5, <1>6
      <3> QED
        BY <1>1, <1>2, <1>9, <3>1, <3>2 DEF FilesInv, LatestIsOpen
    <2>15. openFile' \in 0 .. Len(files')
      BY <1>7, <2>1, <2>2, <2>7
    <2> QED
      BY <1>2, <1>13, <2>7, <2>12, <2>13, <2>14, <2>15 DEF FilesInv
  <1>14. CASE ~(source = "net" /\ openFile # 0)
    <2>1. files' = files /\ openFile' = openFile
      BY <1>14 DEF Traffic, WriteFile, exportVars
    <2>2. \A i \in DOMAIN files : files[i].response # n \/ Latest.interrupted
      <3> SUFFICES ASSUME NEW i \in DOMAIN files, files[i].response = n, ~Latest.interrupted PROVE FALSE
        OBVIOUS
      <3>1. source = "net" /\ openFile = 0
        <4>1. CASE source # "net"
          <5>1. files = <<>>
            BY <4>1 DEF FilesInv
          <5> QED
            BY <1>7, <5>1
        <4> QED
          BY <1>14, <4>1
      <3>2. n \in {files[j].response : j \in DOMAIN files}
        OBVIOUS
      <3>3. IsExported(told[n].response)
        BY <3>1, <3>2 DEF FilesInv, FilesTellPayload
      <3> QED
        BY <1>1, <3>1, <3>3 DEF FilesInv, LatestIsOpen, Latest
    <2>3. FilesTellPayload' /\ \A i \in DOMAIN files' : files'[i].response \in DOMAIN told'
      <3> HIDE DEF Right
      <3> QED
        BY <1>11, <1>12, <2>1, <2>2
    <2>4. OpenIsLatest'
      <3>1. CASE openFile # 0
        <4>1. source # "net"
          BY <1>14, <3>1
        <4>2. files = <<>> /\ openFile \in 0 .. Len(files)
          BY <4>1 DEF FilesInv
        <4> QED
          BY <3>1, <4>2
      <3> QED
        BY <2>1, <3>1 DEF OpenIsLatest
    <2>5. LatestIsOpen'
      <3>1. /\ Latest'.response = Latest.response /\ (Latest.interrupted <=> Latest'.interrupted)
            /\ Len(told') = Len(told)
        BY <1>4, <1>5, <1>6
      <3> QED
        BY <1>1, <1>2, <1>9, <2>1, <3>1 DEF FilesInv, LatestIsOpen
    <2> QED
      BY <1>2, <2>1, <2>3, <2>4, <2>5 DEF FilesInv
  <1> QED
    BY <1>13, <1>14

\* Every step keeps the files what they are.
LEMMA FilesStep ==
    ASSUME FilesInv, Sources, [Next]_vars
    PROVE  FilesInv'
  <1>1. ASSUME UNCHANGED <<told, connected, source, exportVars>> PROVE FilesInv'
    <2>1. UNCHANGED <<told, connected, source, openFile, files>>
      BY <1>1 DEF exportVars
    <2> QED
      BY <2>1 DEF FilesInv, OpenIsLatest, LatestIsOpen, FilesTellPayload, IsOn, IsConnected, Latest
  <1>2. CASE Load
    BY <1>1, <1>2 DEF Load
  <1>3. CASE UNCHANGED vars
    BY <1>1, <1>3 DEF vars, sourceVars
  <1>4. CASE Done
    <2> DEFINE t == [Latest EXCEPT !.state = "done"]
    <2>1. Latest \in Telling /\ Len(told) # 0 /\ IsConnected
      BY <1>4, LatestIsTold DEF Done, IsOn
    <2>2. /\ told' = [told EXCEPT ![Len(told)] = t] /\ UNCHANGED source
          /\ IF source = "net" THEN CloseFile ELSE UNCHANGED exportVars
      BY <1>4 DEF Done, Latest
    <2>3. t \in Telling /\ t.state = "done" /\ t.response = Latest.response /\ t.bytes = Latest.bytes
          /\ t.interrupted = Latest.interrupted
      BY <2>1 DEF Telling
    <2> HIDE DEF t
    <2>4. ~IsOn'
      <3>1. Latest' = t
        BY <2>1, <2>2, <2>3, LatestChanges DEF Sources
      <3> QED
        BY <2>3, <3>1 DEF IsOn
    <2> QED
      BY <2>1, <2>2, <2>3, <2>4, FilesClose
  <1>5. CASE RequestDone
    <2> DEFINE t == [Latest EXCEPT !.interrupted = Latest.interrupted \/ IsOn]
    <2>1. Latest \in Telling /\ Len(told) # 0 /\ IsConnected
      BY <1>5, LatestIsTold DEF RequestDone
    <2>2. /\ told' = [told EXCEPT ![Len(told)] = t] /\ UNCHANGED <<source, connected>>
          /\ source = "net" /\ CloseFile
      BY <1>5 DEF RequestDone, Latest
    <2>3. (Latest.interrupted \/ IsOn) \in BOOLEAN
      OBVIOUS
    <2>4. t \in Telling /\ t.state = Latest.state /\ t.response = Latest.response /\ t.bytes = Latest.bytes
          /\ t.interrupted = (Latest.interrupted \/ IsOn)
      BY <2>1, <2>3 DEF Telling
    <2> HIDE DEF t
    <2>5. IsOn' => IsOn
      <3>1. Latest' = t /\ Len(told') = Len(told)
        BY <2>1, <2>2, <2>4, LatestChanges DEF Sources
      <3> QED
        BY <2>1, <2>4, <3>1 DEF IsOn
    <2>6. /\ Latest.interrupted => t.interrupted
          /\ IsOn => t.interrupted
      BY <2>4
    <2> QED
      BY <2>1, <2>2, <2>4, <2>5, <2>6, FilesClose
  <1>6. CASE Disconnect
    <2> DEFINE t == [Latest EXCEPT !.state = IF Latest.state = "on" THEN "cut" ELSE Latest.state]
    <2>1. Latest \in Telling /\ Len(told) # 0 /\ IsConnected
      BY <1>6, LatestIsTold DEF Disconnect
    <2>2. /\ told' = [told EXCEPT ![Len(told)] = t] /\ UNCHANGED source
          /\ IF source = "net" THEN CloseFile ELSE UNCHANGED exportVars
      BY <1>6 DEF Disconnect, Latest
    <2>3. t \in Telling /\ t.response = Latest.response /\ t.bytes = Latest.bytes
          /\ t.interrupted = Latest.interrupted
      BY <2>1 DEF Telling
    <2> HIDE DEF t
    <2>4. ~IsOn'
      BY <1>6, SourcesDisconnect DEF IsOn
    <2> QED
      BY <2>1, <2>2, <2>3, <2>4, FilesClose
  <1> QED
    BY <1>2, <1>3, <1>4, <1>5, <1>6, FilesRespond, FilesTraffic DEF Next

\* Whatever is told in whatever order: each response that is exported has a file
\* of its own, which begins with its payload, all of it unless a request was done
\* meanwhile.
THEOREM FilesAreRight == Spec => []FilesTellPayload
  <1>1. Chain /\ [Next]_vars => Chain'
    BY LZWStep, ChainStutters
  <1>2. Chain => Sources
    BY DEF Chain
  <1>3. FilesInv /\ Sources /\ [Next]_vars => FilesInv'
    BY FilesStep
  <1>4. Init => Chain /\ FilesInv
    BY ChainInit, FilesInit
  <1>5. FilesInv => FilesTellPayload
    BY DEF FilesInv
  <1> QED
    BY <1>1, <1>2, <1>3, <1>4, <1>5, PTL DEF Spec

-----------------------------------------------------------------------------
(* More than one dictionary *)

\* The words that do not come back, of all dictionaries
AllWrong == UNION {Wrong(d) : d \in Dicts}

\* The index of node n decodes to its word.
IsRight(n) == dec[<<n[1], encTree[n]>>] = n[2] /\ encTree[n] < nextIdx[n[1]]

\* Dictionary d reads: it and those that have not read yet are right, and of
\* the others each but one has spoiled a word, or is about to.
Reads(d) ==
    /\ \A i \in DOMAIN unread : unread[i][1] \in readers => \A j \in 1 .. i : unread[j][1] = d
    /\ \A n \in DOMAIN encTree : n[1] = d \/ n[1] \notin readers => IsRight(n)
    /\ curNode[1] \in readers
    /\ Cardinality(AllWrong) + (IF curNode[1] = d THEN 0 ELSE 1) < Cardinality(readers)

\* The inductive invariant of what dictionaries spoil
DamageInv ==
    /\ InOneGo(unread)
    /\ IsFiniteSet(readers) /\ IsFiniteSet(AllWrong)
    /\ readers = {} => AllWrong = {} /\ pending = <<>> /\ \A n \in DOMAIN encTree : IsRight(n)
    /\ readers # {} => pending = curNode[2] /\ \E d \in readers : Reads(d)

\* A node is wrong, or its index decodes to it.
LEMMA WrongIs ==
    ASSUME DictTypeOK
    PROVE  AllWrong = {n \in DOMAIN encTree : dec[<<n[1], encTree[n]>>] # n[2]}
  <1>1. \A n \in DOMAIN encTree : n[1] \in Dicts
    BY DEF DictTypeOK
  <1>2. ASSUME NEW n PROVE n \in AllWrong <=> n \in DOMAIN encTree /\ dec[<<n[1], encTree[n]>>] # n[2]
    <2>1. n \in AllWrong <=> \E d \in Dicts : n \in Wrong(d)
      BY Zenon DEF AllWrong
    <2> QED
      BY <1>1, <2>1 DEF Wrong
  <1> QED
    BY <1>2

\* Nothing is spoiled at the start.
LEMMA DamageInit == Init => DamageInv
  <1> SUFFICES ASSUME Init PROVE DamageInv
    OBVIOUS
  <1>1. readers = {} /\ pending = <<>>
    BY DEF Init, DictInit
  <1>2. Chain /\ LZWInit
    BY ChainInit
  <1>3. Sound
    BY <1>2, SoundInit
  <1>4. IndicesAreWords /\ IsSingle
    BY <1>1, <1>3 DEF Sound, IsSingle
  <1>5. \A n \in DOMAIN encTree : IsRight(n)
    BY <1>4 DEF IndicesAreWords, IsRight
  <1>6. AllWrong = {}
    BY <1>2, <1>5, WrongIs DEF IsRight, Chain, Shape
  <1>7. InOneGo(unread)
    BY OneByOneAssumption DEF Init
  <1> QED
    BY <1>1, <1>5, <1>6, <1>7, FS_EmptySet DEF DamageInv

\* Where e looks its bytes up, and what it makes of them
LEMMA StartIs ==
    ASSUME DictTypeOK, DamageInv, NEW e \in Dicts, NEW b \in Bytes
    PROVE  /\ Start(e)[1] = e \/ (readers # {} /\ Start(e)[1] = curNode[1])
           /\ Longer(b) = Below(Start(e), b)[2] /\ Below(Start(e), b)[1] = Start(e)[1]
           /\ Below(Root(e), b)[1] = e /\ Below(Root(e), b)[2] = <<b>>
  <1>1. /\ Below(Start(e), b) = <<Start(e)[1], Append(Start(e)[2], b)>>
        /\ Below(Root(e), b) = <<e, <<b>>>>
    BY LookUp
  <1>2. Root(e)[1] = e /\ Root(e)[2] = <<>>
    BY DEF Root
  <1>3. Start(e)[1] = e \/ (readers # {} /\ Start(e)[1] = curNode[1])
    BY <1>2 DEF Start
  <1>4. Longer(b) = Append(Start(e)[2], b)
    BY <1>2 DEF Longer, Start, DamageInv
  <1> QED
    BY <1>1, <1>3, <1>4

\* A byte that is read by dictionary e spoils at most one word, and only if
\* the cursor is in the tree of another dictionary.
LEMMA DamageReads ==
    ASSUME DictTypeOK, DictTypeOK', DamageInv, NEW e \in Dicts, NEW b \in Bytes, AppendByte(e, b),
           \A n \in DOMAIN encTree : n[1] = e => IsRight(n)
    PROVE  /\ readers' # {} => pending' = curNode'[2]
           /\ \A n \in DOMAIN encTree' : n[1] = e \/ n[1] \notin readers' => IsRight(n)'
           /\ curNode'[1] = e \/ (readers # {} /\ curNode'[1] = curNode[1])
           /\ \/ AllWrong' = AllWrong
              \/ /\ curNode'[1] = e
                 /\ \E n : AllWrong' \subseteq AllWrong \cup {n}
                 /\ AllWrong' \subseteq AllWrong \/ (readers # {} /\ curNode[1] # e)
  <1> DEFINE new == Below(Start(e), b)
  <1>1. /\ Start(e)[1] = e \/ (readers # {} /\ Start(e)[1] = curNode[1])
        /\ Longer(b) = new[2] /\ new[1] = Start(e)[1]
        /\ Below(Root(e), b)[1] = e /\ Below(Root(e), b)[2] = <<b>>
    BY StartIs
  <1>2. /\ Root(e)[1] = e /\ Root(e)[2] = <<>> /\ readers' = readers \cup {e}
    BY DEF Root, AppendByte
  <1>3. \A n \in DOMAIN encTree : n[1] = e \/ n[1] \notin readers => IsRight(n)
    <2>1. CASE readers = {}
      BY <2>1 DEF DamageInv
    <2>2. CASE readers # {}
      <3>1. PICK d \in readers : Reads(d)
        BY <2>2 DEF DamageInv
      <3> QED
        BY <3>1 DEF Reads
    <2> QED
      BY <2>1, <2>2
  <1>4. readers # {} => pending = curNode[2] /\ curNode[1] \in readers
    BY DEF DamageInv, Reads
  <1> HIDE DEF new
  <1>5. CASE UNCHANGED <<encTree, dec, nextIdx>>
    <2>1. AllWrong' = AllWrong /\ \A n : IsRight(n)' <=> IsRight(n)
      BY <1>5 DEF AllWrong, Wrong, IsRight
    <2>2. \A n \in DOMAIN encTree' : n[1] = e \/ n[1] \notin readers' => IsRight(n)'
      BY <1>2, <1>3, <1>5, <2>1
    <2>3. CASE UNCHANGED pending /\ curNode' = IF readers = {} THEN Root(e) ELSE curNode
      BY <1>2, <1>4, <2>1, <2>2, <2>3 DEF DamageInv
    <2>4. CASE curNode' = new /\ pending' = Longer(b)
      BY <1>1, <2>1, <2>2, <2>4
    <2>5. CASE curNode' = Below(Root(e), b) /\ pending' = <<b>>
      BY <1>1, <2>1, <2>2, <2>5
    <2> QED
      BY <1>5, <2>3, <2>4, <2>5, ReadByte DEF new
  <1>6. CASE /\ nextIdx[e] \in EOF + 1 .. MaxIdx
             /\ new \notin DOMAIN encTree
             /\ DOMAIN encTree' = DOMAIN encTree \cup {new}
             /\ encTree'[new] = nextIdx[e]
             /\ \A n \in DOMAIN encTree : encTree'[n] = encTree[n]
             /\ dec' = [dec EXCEPT ![<<e, nextIdx[e]>>] = Longer(b)]
             /\ nextIdx' = [nextIdx EXCEPT ![e] = @ + 1]
             /\ curNode' = Below(Root(e), b) /\ pending' = <<b>>
    <2>1. /\ nextIdx[e] \in 0 .. MaxIdx /\ nextIdx'[e] = nextIdx[e] + 1
          /\ \A d \in Dicts : d # e => nextIdx'[d] = nextIdx[d]
      BY <1>6, LZWAssumption DEF DictTypeOK, EOF
    <2>2. /\ dec'[<<e, nextIdx[e]>>] = Longer(b)
          /\ \A d \in Dicts, i \in 0 .. MaxIdx :
                d # e \/ i # nextIdx[e] => dec'[<<d, i>>] = dec[<<d, i>>]
      BY <1>6, <2>1 DEF DictTypeOK, Indices
    <2>3. \A n \in DOMAIN encTree : n[1] \in Dicts /\ encTree[n] \in 0 .. MaxIdx
      BY DEF DictTypeOK
    <2>4. ASSUME NEW n \in DOMAIN encTree
          PROVE  /\ dec'[<<n[1], encTree'[n]>>] = dec[<<n[1], encTree[n]>>]
                 /\ IsRight(n) => IsRight(n)'
      <3>1. n[1] \in Dicts /\ encTree[n] \in 0 .. MaxIdx /\ encTree'[n] = encTree[n]
        BY <1>6, <2>3
      <3>2. n[1] = e => encTree[n] < nextIdx[e]
        BY DEF IsRight
      <3>3. n[1] # e \/ encTree[n] # nextIdx[e]
        BY <2>1, <3>1, <3>2
      <3>4. dec'[<<n[1], encTree'[n]>>] = dec[<<n[1], encTree[n]>>]
        BY <2>2, <3>1, <3>3, Zenon
      <3>5. encTree[n] < nextIdx[n[1]] => encTree'[n] < nextIdx'[n[1]]
        BY <2>1, <3>1
      <3> QED
        BY <3>4, <3>5 DEF IsRight
    <2>5. new[1] = e => dec'[<<new[1], encTree'[new]>>] = new[2] /\ encTree'[new] < nextIdx'[new[1]]
      <3> SUFFICES ASSUME new[1] = e
                   PROVE  dec'[<<new[1], encTree'[new]>>] = new[2] /\ encTree'[new] < nextIdx'[new[1]]
        OBVIOUS
      <3>1. dec'[<<new[1], encTree'[new]>>] = new[2]
        BY <1>1, <1>6, <2>2, Zenon
      <3>2. encTree'[new] < nextIdx'[new[1]]
        BY <1>6, <2>1
      <3> QED
        BY <3>1, <3>2
    <2>6. \A n \in DOMAIN encTree' : n[1] = e \/ n[1] \notin readers' => IsRight(n)'
      <3> SUFFICES ASSUME NEW n \in DOMAIN encTree', n[1] = e \/ n[1] \notin readers' PROVE IsRight(n)'
        OBVIOUS
      <3>1. CASE n = new
        BY <1>1, <1>2, <1>4, <2>5, <3>1 DEF IsRight
      <3>2. CASE n \in DOMAIN encTree
        BY <1>2, <1>3, <2>4, <3>2
      <3> QED
        BY <1>6, <3>1, <3>2
    <2>7. ASSUME NEW n \in AllWrong' PROVE n \in AllWrong \/ (n = new /\ new[1] # e)
      <3>1. n \in DOMAIN encTree' /\ dec'[<<n[1], encTree'[n]>>] # n[2]
        <4>1. PICK d \in Dicts : n \in Wrong(d)'
          BY Zenon DEF AllWrong
        <4> QED
          BY <4>1 DEF Wrong
      <3>2. CASE n \in DOMAIN encTree
        BY <2>4, <3>1, <3>2, WrongIs
      <3>3. CASE n = new
        BY <2>5, <3>1, <3>3
      <3> QED
        BY <1>6, <3>1, <3>2, <3>3
    <2>8. AllWrong' \subseteq AllWrong \cup {new}
      BY <2>7
    <2>9. AllWrong' \subseteq AllWrong \/ (readers # {} /\ curNode[1] # e)
      BY <1>1, <2>7
    <2> QED
      BY <1>1, <1>6, <2>6, <2>8, <2>9
  <1> QED
    BY <1>5, <1>6, ReadByte DEF new

\* A byte of a text is read.
LEMMA DamageLoad ==
    ASSUME DamageInv, Sources, Shape, Shape', Load
    PROVE  DamageInv'
  <1> DEFINE e == unread[1][1]
             b == unread[1][2]
  <1>1. /\ unread # <<>> /\ unread' = Tail(unread) /\ unread \in Seq(Dicts \X Bytes)
        /\ AppendByte(e, b) /\ DictTypeOK /\ DictTypeOK'
    BY DEF Load, Sources, Shape
  <1>2. /\ Len(unread) \in Nat /\ Len(unread) # 0 /\ DOMAIN unread = 1 .. Len(unread)
        /\ DOMAIN unread' = 1 .. Len(unread) - 1
        /\ \A i \in 1 .. Len(unread) - 1 : unread'[i] = unread[i + 1]
        /\ unread[1] \in Dicts \X Bytes
    BY <1>1, HeadTailProperties, LenProperties, EmptySeq
  <1>3. e \in Dicts /\ b \in Bytes /\ 1 \in DOMAIN unread
    BY <1>2
  <1> HIDE DEF e, b
  <1>4. readers' = readers \cup {e}
    BY <1>1 DEF AppendByte
  <1>5. \A d \in readers : Reads(d) => e = d \/ e \notin readers
    BY <1>2, <1>3 DEF Reads, e
  <1>6. \A n \in DOMAIN encTree : n[1] = e => IsRight(n)
    <2>1. CASE readers = {}
      BY <2>1 DEF DamageInv
    <2>2. CASE readers # {}
      <3>1. PICK d \in readers : Reads(d)
        BY <2>2 DEF DamageInv
      <3> QED
        BY <1>5, <3>1 DEF Reads
    <2> QED
      BY <2>1, <2>2
  <1>7. /\ readers' # {} => pending' = curNode'[2]
        /\ \A n \in DOMAIN encTree' : n[1] = e \/ n[1] \notin readers' => IsRight(n)'
        /\ curNode'[1] = e \/ (readers # {} /\ curNode'[1] = curNode[1])
        /\ \/ AllWrong' = AllWrong
           \/ /\ curNode'[1] = e
              /\ \E n : AllWrong' \subseteq AllWrong \cup {n}
              /\ AllWrong' \subseteq AllWrong \/ (readers # {} /\ curNode[1] # e)
    BY <1>1, <1>3, <1>6, DamageReads
  <1>8. InOneGo(unread')
    <2> SUFFICES ASSUME NEW i \in DOMAIN unread', NEW j \in DOMAIN unread', NEW k \in DOMAIN unread',
                        i < j, j < k, unread'[i][1] = unread'[k][1]
                 PROVE  unread'[j][1] = unread'[i][1]
      BY Zenon DEF InOneGo
    <2>1. /\ i + 1 \in DOMAIN unread /\ j + 1 \in DOMAIN unread /\ k + 1 \in DOMAIN unread
          /\ i + 1 < j + 1 /\ j + 1 < k + 1
          /\ unread'[i] = unread[i + 1] /\ unread'[j] = unread[j + 1] /\ unread'[k] = unread[k + 1]
      BY <1>2
    <2>2. InOneGo(unread)
      BY DEF DamageInv
    <2>3. unread[i + 1][1] = unread[k + 1][1]
      BY <2>1
    <2>4. unread[j + 1][1] = unread[i + 1][1]
      BY <2>1, <2>2, <2>3 DEF InOneGo
    <2> QED
      BY <2>1, <2>4
  <1>9. \A i \in DOMAIN unread' : unread'[i][1] \in readers' => \A j \in 1 .. i : unread'[j][1] = e
    <2> SUFFICES ASSUME NEW i \in 1 .. Len(unread) - 1, unread'[i][1] \in readers', NEW j \in 1 .. i
                 PROVE  unread'[j][1] = e
      BY <1>2
    <2>1. unread'[i] = unread[i + 1] /\ unread'[j] = unread[j + 1]
          /\ i + 1 \in DOMAIN unread /\ j + 1 \in DOMAIN unread /\ j + 1 \in 1 .. i + 1 /\ 1 \in 1 .. i + 1
      BY <1>2
    <2>2. CASE unread[i + 1][1] = e
      <3>1. CASE j = i
        BY <2>1, <2>2, <3>1
      <3>2. CASE j # i
        <4>1. 1 < j + 1 /\ j + 1 < i + 1 /\ unread[1][1] = unread[i + 1][1]
          BY <2>2, <3>2 DEF e
        <4>2. unread[j + 1][1] = unread[1][1]
          BY <1>3, <2>1, <4>1 DEF DamageInv, InOneGo
        <4> QED
          BY <2>1, <4>2 DEF e
      <3> QED
        BY <3>1, <3>2
    <2>3. CASE unread[i + 1][1] # e
      <3>1. unread[i + 1][1] \in readers
        BY <1>4, <2>1, <2>3
      <3>2. PICK d \in readers : Reads(d)
        BY <3>1 DEF DamageInv
      <3>3. unread[1][1] = d /\ unread[j + 1][1] = d
        BY <2>1, <3>1, <3>2 DEF Reads
      <3> QED
        BY <2>1, <3>3 DEF e
    <2> QED
      BY <2>2, <2>3
  <1>10. /\ IsFiniteSet(AllWrong) /\ Cardinality(AllWrong) \in Nat
         /\ IsFiniteSet(readers) /\ Cardinality(readers) \in Nat
         /\ IsFiniteSet(readers') /\ Cardinality(readers') \in Nat
         /\ Cardinality(readers') = IF e \in readers THEN Cardinality(readers) ELSE Cardinality(readers) + 1
    BY <1>4, FS_CardinalityType, FS_AddElement DEF DamageInv
  <1>11. /\ IsFiniteSet(AllWrong') /\ Cardinality(AllWrong') \in Nat
         /\ \/ Cardinality(AllWrong') <= Cardinality(AllWrong) /\ (curNode'[1] = e \/ AllWrong' = AllWrong)
            \/ /\ Cardinality(AllWrong') <= Cardinality(AllWrong) + 1
               /\ curNode'[1] = e /\ readers # {} /\ curNode[1] # e
    <2>1. CASE AllWrong' = AllWrong
      BY <1>10, <2>1
    <2>2. CASE curNode'[1] = e /\ AllWrong' \subseteq AllWrong
      <3>1. IsFiniteSet(AllWrong') /\ Cardinality(AllWrong') <= Cardinality(AllWrong)
        BY <1>10, <2>2, FS_Subset
      <3> QED
        BY <2>2, <3>1, FS_CardinalityType
    <2>3. CASE /\ curNode'[1] = e /\ readers # {} /\ curNode[1] # e
               /\ \E n : AllWrong' \subseteq AllWrong \cup {n}
      <3>1. PICK n : AllWrong' \subseteq AllWrong \cup {n}
        BY <2>3
      <3>2. /\ IsFiniteSet(AllWrong \cup {n})
            /\ Cardinality(AllWrong \cup {n}) \in Nat
            /\ Cardinality(AllWrong \cup {n}) <= Cardinality(AllWrong) + 1
        <4>1. /\ IsFiniteSet(AllWrong \cup {n})
              /\ Cardinality(AllWrong \cup {n})
                   = IF n \in AllWrong THEN Cardinality(AllWrong) ELSE Cardinality(AllWrong) + 1
          BY <1>10, FS_AddElement
        <4> QED
          BY <1>10, <4>1
      <3>3. IsFiniteSet(AllWrong') /\ Cardinality(AllWrong') <= Cardinality(AllWrong \cup {n})
        BY <3>1, <3>2, FS_Subset
      <3>4. Cardinality(AllWrong') \in Nat
        BY <3>3, FS_CardinalityType
      <3> QED
        BY <1>10, <2>3, <3>2, <3>3, <3>4
    <2> QED
      BY <1>7, <2>1, <2>2, <2>3
  <1>12. Cardinality(AllWrong') + (IF curNode'[1] = e THEN 0 ELSE 1) < Cardinality(readers')
    <2>1. CASE readers = {}
      <3>1. AllWrong = {} /\ curNode'[1] = e /\ AllWrong' \subseteq AllWrong
        BY <1>7, <2>1 DEF DamageInv
      <3>2. Cardinality(AllWrong') = 0 /\ Cardinality(readers) = 0 /\ e \notin readers
        BY <2>1, <3>1, FS_EmptySet
      <3> QED
        BY <1>10, <3>1, <3>2
    <2>2. CASE readers # {}
      <3>1. PICK d \in readers : Reads(d)
        BY <2>2 DEF DamageInv
      <3>2. Cardinality(AllWrong) + (IF curNode[1] = d THEN 0 ELSE 1) < Cardinality(readers)
        BY <3>1 DEF Reads
      <3>3. CASE e = d
        BY <1>7, <1>10, <1>11, <3>2, <3>3
      <3>4. CASE e \notin readers
        BY <1>7, <1>10, <1>11, <3>2, <3>4
      <3> QED
        BY <1>5, <3>1, <3>3, <3>4
    <2> QED
      BY <2>1, <2>2
  <1>13. curNode'[1] \in readers'
    BY <1>4, <1>7 DEF DamageInv, Reads
  <1>14. \A d : d = e => Reads(d)'
    BY <1>7, <1>9, <1>12, <1>13 DEF Reads
  <1>15. e \in readers' /\ \E d \in readers' : Reads(d)'
    BY <1>4, <1>14
  <1> QED
    BY <1>7, <1>8, <1>10, <1>11, <1>15 DEF DamageInv

\* Only reading texts changes the dictionaries.
LEMMA DamageStep ==
    ASSUME DamageInv, Chain, Chain', [Next]_vars
    PROVE  DamageInv'
  <1>1. CASE Load
    BY <1>1, DamageLoad DEF Chain
  <1>2. ASSUME UNCHANGED <<dictVars, unread>> PROVE DamageInv'
    <2>1. UNCHANGED <<encTree, dec, nextIdx, curNode, pending, readers, unread>>
      BY <1>2 DEF dictVars
    <2>2. AllWrong' = AllWrong
      BY <2>1 DEF AllWrong, Wrong
    <2>3. \A n : IsRight(n)' <=> IsRight(n)
      BY <2>1 DEF IsRight
    <2>4. \A d : Reads(d)' <=> Reads(d)
      BY <2>1, <2>2, <2>3 DEF Reads
    <2> QED
      BY <2>1, <2>2, <2>3, <2>4 DEF DamageInv
  <1>3. CASE ~Load /\ Next
    BY <1>2, <1>3 DEF Next, Respond, Traffic, Done, RequestDone, Disconnect
  <1>4. CASE UNCHANGED vars
    BY <1>2, <1>4 DEF vars, sourceVars
  <1> QED
    BY <1>1, <1>3, <1>4

\* However many dictionaries are read one after the other, and wherever one
\* stops: each after the first spoils one word at most.
THEOREM DamageStaysSmall == Spec => []DamageIsBounded
  <1>1. Chain /\ [Next]_vars => Chain'
    BY LZWStep, ChainStutters
  <1>2. DamageInv /\ Chain /\ Chain' /\ [Next]_vars => DamageInv'
    BY DamageStep
  <1>3. Init => Chain /\ DamageInv
    BY ChainInit, DamageInit
  <1>4. DamageInv => DamageIsBounded
    <2> SUFFICES ASSUME DamageInv PROVE DamageIsBounded
      OBVIOUS
    <2>1. CASE readers = {}
      <3>1. AllWrong = {}
        BY <2>1 DEF DamageInv
      <3> QED
        BY <2>1, <3>1, FS_EmptySet DEF DamageIsBounded, AllWrong
    <2>2. CASE readers # {}
      <3>1. PICK d \in readers : Reads(d)
        BY <2>2 DEF DamageInv
      <3>2. Cardinality(AllWrong) \in Nat /\ Cardinality(readers) \in Nat
        BY FS_CardinalityType DEF DamageInv
      <3>3. Cardinality(AllWrong) < Cardinality(readers)
        BY <3>1, <3>2 DEF Reads
      <3> QED
        BY <2>2, <3>3 DEF DamageIsBounded, AllWrong
    <2> QED
      BY <2>1, <2>2
  <1> QED
    BY <1>1, <1>2, <1>3, <1>4, PTL DEF Spec

-----------------------------------------------------------------------------
(* What the Summary tells *)

StatsType == [numHeaders : Nat, latencies : Nat, sizePayload : Nat, decompressed : [Pairs -> Nat]]

\* Is r one of those that are counted for this type and class?
Covers(r, type, class) == r.type = type /\ class \in {"response", ClassOf(r)}

\* What the compressor of k holds of the responses counted for this type and class
Awaited(type, class, k) ==
    IF IsOn /\ Covers(Latest.response, type, class) THEN Len(comp[k].held) ELSE 0

\* What is counted, is counted of these responses; only what a compressor still
\* holds, or what was cut off, is missing.
Tells(type, class) ==
    LET these == Matching(type, class)
        received == Cardinality(BytesOf(these))
        stats == summary.stats[type][class]
    IN  /\ stats.numHeaders = Cardinality(these) /\ stats.sizePayload = received
        /\ stats.latencies = Cardinality({i \in these : told[i].response.latency <= MaxLatency})
        /\ \A k \in Kinds :
              /\ stats.decompressed[k] + Awaited(type, class, k) <= received
              /\ (type # Unknown /\ \A i \in these : told[i].state # "cut")
                    => stats.decompressed[k] + Awaited(type, class, k) = received

\* What is known of the counters and of the response that is on
SummaryIs ==
    /\ DOMAIN summary = {"stats", "counter"}
    /\ summary.stats \in [AllTypes -> [Classes -> StatsType]]
    /\ \A i \in DOMAIN told : told[i].state = "on" => IsOn /\ i = Len(told)
    /\ IsOn => statsByLatency = [type |-> Latest.response.type, class |-> ClassOf(Latest.response)]
    /\ IsFiniteSet(BytesOf(DOMAIN told))

\* What LZWDict holds has not been counted.
LZWTells ==
    /\ IsFiniteSet(CountedLZW)
    /\ IsSingle => Cardinality(CountedLZW) + Len(coder[pair].node[2]) <= PayloadSoFar

\* The inductive invariant of the Summary
SummaryInv ==
    /\ SummaryIs
    /\ \A type \in AllTypes, class \in Classes : Tells(type, class)
    /\ LZWTells

\* One entry for all classes and one for its own are changed, and no others.
Changed(stats, t0, c0, a, b) == [stats EXCEPT ![t0]["response"] = a, ![t0][c0] = b]

\* These two entries of the counters are a and b, and no other changed.
IsChanged(stats, t0, c0, a, b, after) ==
    /\ after \in [AllTypes -> [Classes -> StatsType]]
    /\ \A type \in AllTypes, class \in Classes :
          after[type][class] = IF type = t0 /\ class = "response" THEN a
                               ELSE IF type = t0 /\ class = c0 THEN b
                               ELSE stats[type][class]

\* An assignment to the two entries does that.
LEMMA CountedIs ==
    ASSUME NEW stats \in [AllTypes -> [Classes -> StatsType]], NEW t0 \in AllTypes,
           NEW c0 \in {"responseStatic", "responseDynamic"}, NEW a \in StatsType, NEW b \in StatsType
    PROVE  IsChanged(stats, t0, c0, a, b, Changed(stats, t0, c0, a, b))
  BY DEF Classes, Changed, IsChanged

\* What a response that came is counted as
Answered(r, stats) ==
    [stats EXCEPT !.numHeaders = @ + 1,
                  !.latencies = @ + (IF r.latency <= MaxLatency THEN 1 ELSE 0)]

\* What is known of a response
LEMMA ClassIs ==
    ASSUME NEW r \in Responses
    PROVE  /\ r.type \in AllTypes /\ r.latency \in Nat
           /\ ClassOf(r) \in {"responseStatic", "responseDynamic"}
           /\ \A stats \in StatsType : Answered(r, stats) \in StatsType
  <1>1. r.type \in AllTypes /\ r.latency \in Nat
    BY ListenersAssumption
  <1>2. ClassOf(r) \in {"responseStatic", "responseDynamic"}
    BY DEF ClassOf
  <1>3. ASSUME NEW stats \in StatsType PROVE Answered(r, stats) \in StatsType
    <2>1. stats.numHeaders + 1 \in Nat
          /\ stats.latencies + (IF r.latency <= MaxLatency THEN 1 ELSE 0) \in Nat
      BY DEF StatsType
    <2> QED
      BY <2>1 DEF Answered, StatsType
  <1> QED
    BY <1>1, <1>2, <1>3

\* A response that is told is counted for its type, and for its class.
LEMMA StatsRespond ==
    ASSUME SummaryIs, NEW r \in Responses, Respond(r)
    PROVE  /\ DOMAIN summary' = {"stats", "counter"}
           /\ summary'.stats \in [AllTypes -> [Classes -> StatsType]]
           /\ statsByLatency' = [type |-> r.type, class |-> ClassOf(r)]
           /\ \A type \in AllTypes, class \in Classes :
                 summary'.stats[type][class] =
                    IF Covers(r, type, class) THEN Answered(r, summary.stats[type][class])
                    ELSE summary.stats[type][class]
  <1> DEFINE stats == summary.stats
             a == Answered(r, stats[r.type]["response"])
             b == Answered(r, stats[r.type][ClassOf(r)])
             after == Changed(stats, r.type, ClassOf(r), a, b)
  <1>1. statsByLatency' = [type |-> r.type, class |-> ClassOf(r)]
    BY DEF Respond, OnHttpResponse, ClassOf
  <1>2. summary' = [summary EXCEPT !.stats[r.type]["response"] = Answered(r, @),
                                   !.stats[r.type][ClassOf(r)] = Answered(r, @)]
    BY DEF Respond, OnHttpResponse, ClassOf, Counted, Answered
  <1>3. stats \in [AllTypes -> [Classes -> StatsType]] /\ a \in StatsType /\ b \in StatsType
    BY ClassIs DEF SummaryIs, Classes
  <1>4. summary' = [summary EXCEPT !.stats = after]
    BY <1>2, <1>3, ClassIs DEF SummaryIs, Classes, Changed
  <1>5. DOMAIN summary' = {"stats", "counter"} /\ summary'.stats = after
    BY <1>4 DEF SummaryIs
  <1> HIDE DEF a, b
  <1>6. /\ after \in [AllTypes -> [Classes -> StatsType]]
        /\ \A type \in AllTypes, class \in Classes :
              after[type][class] = IF type = r.type /\ class = "response" THEN a
                                   ELSE IF type = r.type /\ class = ClassOf(r) THEN b
                                   ELSE stats[type][class]
    <2> HIDE DEF stats
    <2>1. r.type \in AllTypes /\ ClassOf(r) \in {"responseStatic", "responseDynamic"}
      BY ClassIs
    <2>2. IsChanged(stats, r.type, ClassOf(r), a, b, after)
      BY <1>3, <2>1, CountedIs
    <2> HIDE DEF after
    <2> QED
      BY <2>2 DEF IsChanged
  <1> HIDE DEF after
  <1>7. ASSUME NEW type \in AllTypes, NEW class \in Classes
        PROVE  summary'.stats[type][class] =
                    IF Covers(r, type, class) THEN Answered(r, summary.stats[type][class])
                    ELSE summary.stats[type][class]
    BY <1>5, <1>6 DEF Covers, a, b
  <1> QED
    BY <1>1, <1>5, <1>6, <1>7

-----------------------------------------------------------------------------
\* What is known of the responses that were told
LEMMA ToldIs ==
    ASSUME Sources
    PROVE  /\ Len(told) \in Nat /\ DOMAIN told = 1 .. Len(told)
           /\ \A i \in DOMAIN told : /\ told[i] \in Telling /\ told[i].response \in Responses
                                     /\ told[i].bytes \in Seq(Bytes)
  <1>1. Len(told) \in Nat /\ DOMAIN told = 1 .. Len(told)
    BY LenProperties DEF Sources
  <1>2. ASSUME NEW i \in DOMAIN told PROVE told[i] \in Telling
    BY <1>1, ElementOfSeq DEF Sources
  <1> QED
    BY <1>1, <1>2 DEF Telling

\* What is counted is finite.
LEMMA FiniteSums ==
    ASSUME Sources, SummaryIs, NEW type \in AllTypes, NEW class \in Classes
    PROVE  /\ Matching(type, class) = {i \in DOMAIN told : Covers(told[i].response, type, class)}
           /\ IsFiniteSet(Matching(type, class)) /\ Cardinality(Matching(type, class)) \in Nat
           /\ IsFiniteSet(BytesOf(Matching(type, class)))
           /\ Cardinality(BytesOf(Matching(type, class))) \in Nat
  <1> DEFINE these == Matching(type, class)
  <1>1. these = {i \in DOMAIN told : Covers(told[i].response, type, class)}
    BY DEF Matching, Covers
  <1>2. IsFiniteSet(DOMAIN told)
    BY ToldIs, FS_Interval
  <1>3. these \in SUBSET DOMAIN told
    BY <1>1
  <1>4. BytesOf(these) \in SUBSET BytesOf(DOMAIN told)
    BY <1>3 DEF BytesOf
  <1> HIDE DEF these
  <1>5. IsFiniteSet(these) /\ IsFiniteSet(BytesOf(these))
    BY <1>2, <1>3, <1>4, FS_Subset DEF SummaryIs
  <1>6. Cardinality(these) \in Nat /\ Cardinality(BytesOf(these)) \in Nat
    BY <1>5, FS_CardinalityType
  <1> QED
    BY <1>1, <1>5, <1>6 DEF these

\* The counters are numbers.
LEMMA StatsAre ==
    ASSUME SummaryIs, NEW type \in AllTypes, NEW class \in Classes
    PROVE  /\ summary.stats[type][class] \in StatsType
           /\ \A p \in Pairs : summary.stats[type][class].decompressed[p] \in Nat
  <1>1. summary.stats[type][class] \in StatsType
    BY DEF SummaryIs
  <1> QED
    BY <1>1 DEF StatsType

\* What a compressor holds has a length.
LEMMA AwaitedIs ==
    ASSUME Coming, NEW type, NEW class, NEW k \in Kinds
    PROVE  Awaited(type, class, k) \in Nat
  <1>1. comp[k].held \in Seq(Bytes)
    BY DEF Coming, Streaming, CodecTypes, CompType
  <1>2. Len(comp[k].held) \in Nat
    BY <1>1, LenProperties
  <1> QED
    BY <1>2 DEF Awaited

\* What is told follows, as nothing is held of a response that ended.
LEMMA SummaryInvTells == Chain /\ Coming /\ SummaryInv => SummaryTells
  <1> SUFFICES ASSUME Chain, Coming, SummaryInv PROVE SummaryTells
    OBVIOUS
  <1>0. Sources /\ SummaryIs
    BY DEF Chain, SummaryInv
  <1>1. ASSUME NEW type \in AllTypes, NEW class \in Classes
        PROVE  LET these == Matching(type, class)
                   received == Cardinality(BytesOf(these))
                   stats == summary.stats[type][class]
               IN  /\ stats.numHeaders = Cardinality(these) /\ stats.sizePayload = received
                   /\ stats.latencies =
                         Cardinality({i \in these : told[i].response.latency <= MaxLatency})
                   /\ \A k \in Kinds :
                         /\ stats.decompressed[k] <= received
                         /\ (type # Unknown /\ \A i \in these : told[i].state \in {"done", "never done"})
                               => stats.decompressed[k] = received
    <2> DEFINE these == Matching(type, class)
               received == Cardinality(BytesOf(these))
               stats == summary.stats[type][class]
    <2>1. /\ stats.numHeaders = Cardinality(these) /\ stats.sizePayload = received
          /\ stats.latencies = Cardinality({i \in these : told[i].response.latency <= MaxLatency})
      BY DEF SummaryInv, Tells
    <2>2. ASSUME NEW k \in Kinds
          PROVE  /\ stats.decompressed[k] <= received
                 /\ (type # Unknown /\ \A i \in these : told[i].state \in {"done", "never done"})
                       => stats.decompressed[k] = received
      <3>1. stats.decompressed[k] \in Nat /\ Awaited(type, class, k) \in Nat
            /\ Cardinality(BytesOf(these)) \in Nat
        <4>1. k \in Pairs
          BY DEF Pairs
        <4>2. stats.decompressed[k] \in Nat
          BY <1>0, <4>1, StatsAre
        <4>3. Awaited(type, class, k) \in Nat
          BY AwaitedIs
        <4>4. Cardinality(BytesOf(these)) \in Nat
          BY <1>0, FiniteSums
        <4> QED
          BY <4>2, <4>3, <4>4
      <3>2. /\ stats.decompressed[k] + Awaited(type, class, k) <= received
            /\ (type # Unknown /\ \A i \in these : told[i].state # "cut")
                  => stats.decompressed[k] + Awaited(type, class, k) = received
        BY DEF SummaryInv, Tells
      <3>3. ASSUME type # Unknown, \A i \in these : told[i].state \in {"done", "never done"}
            PROVE  stats.decompressed[k] = received
        <4>1. Awaited(type, class, k) = 0
          <5>1. ASSUME IsOn, Covers(Latest.response, type, class) PROVE FALSE
            <6>1. Len(told) \in these
              <7>1. Len(told) \in DOMAIN told
                BY <1>0, <5>1, LatestIsTold, ToldIs DEF IsOn
              <7>2. these = {i \in DOMAIN told : Covers(told[i].response, type, class)}
                BY <1>0, FiniteSums
              <7> QED
                BY <5>1, <7>1, <7>2 DEF Latest
            <6> QED
              BY <3>3, <5>1, <6>1 DEF IsOn, Latest
          <5> QED
            BY <5>1 DEF Awaited
        <4>2. \A i \in these : told[i].state # "cut"
          BY <3>3
        <4>3. stats.decompressed[k] + Awaited(type, class, k) = received
          BY <3>2, <3>3, <4>2
        <4> HIDE DEF these, received, stats
        <4> QED
          BY <3>1, <4>1, <4>3
      <3>4. stats.decompressed[k] <= received
        <4> HIDE DEF these, stats
        <4> QED
          BY <3>1, <3>2
      <3> QED
        BY <3>3, <3>4, Zenon
    <2> QED
      BY <2>1, <2>2, Zenon
  <1>2. IsSingle => Cardinality(CountedLZW) <= PayloadSoFar
    <2> SUFFICES ASSUME IsSingle PROVE Cardinality(CountedLZW) <= PayloadSoFar
      OBVIOUS
    <2>1. Cardinality(CountedLZW) + Len(coder[pair].node[2]) <= PayloadSoFar
      BY DEF SummaryInv, LZWTells
    <2>2. Cardinality(CountedLZW) \in Nat /\ PayloadSoFar \in Nat
      BY FS_CardinalityType DEF SummaryInv, LZWTells, SummaryIs, PayloadSoFar
    <2>3. Len(coder[pair].node[2]) \in Nat
      BY LenProperties DEF Chain, Sources, Shape, PairTypeOK
    <2> DEFINE counted == Cardinality(CountedLZW)
               held == Len(coder[pair].node[2])
    <2>4. counted + held <= PayloadSoFar /\ counted \in Nat /\ held \in Nat
      BY <2>1, <2>2, <2>3
    <2> HIDE DEF counted, held
    <2>5. counted <= PayloadSoFar
      BY <2>2, <2>4
    <2> QED
      BY <2>5 DEF counted
  <1> QED
    BY <1>1, <1>2, Zenon DEF SummaryTells

\* The responses and their bytes are what they were.
SameBytes ==
    /\ DOMAIN told' = DOMAIN told
    /\ \A i \in DOMAIN told : told'[i].response = told[i].response /\ told'[i].bytes = told[i].bytes

\* The sums over them are what they were.
LEMMA SameSums ==
    ASSUME SameBytes, NEW type, NEW class
    PROVE  /\ Matching(type, class)' = Matching(type, class)
           /\ BytesOf(Matching(type, class))' = BytesOf(Matching(type, class))
           /\ BytesOf(DOMAIN told)' = BytesOf(DOMAIN told)
           /\ {i \in Matching(type, class) : told[i].response.latency <= MaxLatency}'
                 = {i \in Matching(type, class) : told[i].response.latency <= MaxLatency}
  <1> USE DEF SameBytes
  <1>1. Matching(type, class)' = Matching(type, class)
    BY DEF Matching
  <1>2. Matching(type, class) \subseteq DOMAIN told
    BY DEF Matching
  <1>3. BytesOf(Matching(type, class))' = BytesOf(Matching(type, class))
    BY <1>1, <1>2 DEF BytesOf
  <1>4. BytesOf(DOMAIN told)' = BytesOf(DOMAIN told)
    BY DEF BytesOf
  <1>5. {i \in Matching(type, class) : told[i].response.latency <= MaxLatency}'
           = {i \in Matching(type, class) : told[i].response.latency <= MaxLatency}
    BY <1>1, <1>2
  <1> QED
    BY <1>1, <1>3, <1>4, <1>5

\* Less is awaited, as more is decompressed.
LEMMA TellsOn ==
    ASSUME Sources, SummaryIs, SummaryIs', Coming, Coming', SameBytes,
           NEW type \in AllTypes, NEW class \in Classes, Tells(type, class),
           NEW was, was = summary.stats[type][class], NEW is, is = summary'.stats[type][class],
           is.numHeaders = was.numHeaders, is.latencies = was.latencies, is.sizePayload = was.sizePayload,
           \A k \in Kinds :
              \/ is.decompressed[k] + Awaited(type, class, k)' = was.decompressed[k] + Awaited(type, class, k)
              \/ /\ is.decompressed[k] + Awaited(type, class, k)' <= was.decompressed[k] + Awaited(type, class, k)
                 /\ type = Unknown \/ \E i \in Matching(type, class) : told'[i].state = "cut",
           \A i \in DOMAIN told : told[i].state = "cut" => told'[i].state = "cut"
    PROVE  Tells(type, class)'
  <1> DEFINE these == Matching(type, class)
             received == Cardinality(BytesOf(these))
  <1>1. /\ Matching(type, class)' = these /\ BytesOf(Matching(type, class))' = BytesOf(these)
        /\ {i \in Matching(type, class) : told[i].response.latency <= MaxLatency}'
              = {i \in these : told[i].response.latency <= MaxLatency}
    BY SameSums
  <1>2. these \subseteq DOMAIN told
    BY DEF Matching
  <1>3. ASSUME NEW k \in Kinds
        PROVE  /\ is.decompressed[k] + Awaited(type, class, k)' <= received
               /\ (type # Unknown /\ \A i \in these : told'[i].state # "cut")
                     => is.decompressed[k] + Awaited(type, class, k)' = received
    <2>1. /\ was.decompressed[k] + Awaited(type, class, k) <= received
          /\ (type # Unknown /\ \A i \in these : told[i].state # "cut")
                => was.decompressed[k] + Awaited(type, class, k) = received
      BY DEF Tells
    <2>2. /\ was.decompressed[k] \in Nat /\ is.decompressed[k] \in Nat /\ received \in Nat
          /\ Awaited(type, class, k) \in Nat /\ Awaited(type, class, k)' \in Nat
      <3>1. k \in Pairs
        BY DEF Pairs
      <3>2. was.decompressed[k] \in Nat
        BY <3>1, StatsAre
      <3>3. is.decompressed[k] \in Nat
        <4>1. is \in StatsType
          BY DEF SummaryIs
        <4> QED
          BY <3>1, <4>1 DEF StatsType
      <3>4. received \in Nat
        BY FiniteSums
      <3>5. Awaited(type, class, k) \in Nat
        BY AwaitedIs
      <3>6. Awaited(type, class, k)' \in Nat
        <4>1. comp'[k].held \in Seq(Bytes)
          BY DEF Coming, Streaming, CodecTypes, CompType
        <4> QED
          BY <4>1, LenProperties DEF Awaited
      <3> QED
        BY <3>2, <3>3, <3>4, <3>5, <3>6
    <2> DEFINE m == was.decompressed[k] + Awaited(type, class, k)
               n == is.decompressed[k] + Awaited(type, class, k)'
    <2>3. m \in Nat /\ n \in Nat
      BY <2>2
    <2>4. \/ n = m
          \/ n <= m /\ (type = Unknown \/ \E i \in these : told'[i].state = "cut")
      OBVIOUS
    <2>5. m <= received /\ ((type # Unknown /\ \A i \in these : told[i].state # "cut") => m = received)
      BY <2>1
    <2> HIDE DEF m, n, these, received
    <2>6. n <= received
      BY <2>2, <2>3, <2>4, <2>5
    <2>7. ASSUME type # Unknown, \A i \in these : told'[i].state # "cut"
          PROVE  n = received
      <3>1. \A i \in these : told[i].state # "cut"
        BY <1>2, <2>7
      <3> QED
        BY <2>4, <2>5, <2>7, <3>1
    <2> QED
      BY <2>6, <2>7 DEF m, n
  <1>4. /\ is.numHeaders = Cardinality(these) /\ is.sizePayload = received
        /\ is.latencies = Cardinality({i \in these : told[i].response.latency <= MaxLatency})
    BY DEF Tells
  <1> QED
    BY <1>1, <1>3, <1>4, ZenonT(60) DEF Tells

\* A response is told: one more to count, of which nothing has come.
LEMMA SumsRespond ==
    ASSUME Chain, SummaryIs, NEW r \in Responses, Respond(r)
    PROVE  /\ DOMAIN told' = DOMAIN told \cup {Len(told) + 1} /\ Len(told) + 1 \notin DOMAIN told
           /\ Len(told') = Len(told) + 1
           /\ \A i \in DOMAIN told : told'[i] = told[i]
           /\ told'[Len(told) + 1].response = r /\ told'[Len(told) + 1].bytes = <<>>
           /\ told'[Len(told) + 1].state \in {"on", "never done"}
  <1> DEFINE t == [response |-> r, bytes |-> <<>>, interrupted |-> FALSE,
                   state |-> IF r.framing = "none" THEN "never done" ELSE "on"]
  <1>1. told' = Append(told, t)
    BY DEF Respond
  <1>2. t \in Telling
    <2>1. <<>> \in Seq(Bytes)
      BY EmptySeq
    <2> QED
      BY <2>1 DEF Telling
  <1>3. t.response = r /\ t.bytes = <<>> /\ t.state \in {"on", "never done"}
    OBVIOUS
  <1> HIDE DEF t
  <1>4. /\ Len(told') = Len(told) + 1 /\ told' \in Seq(Telling)
        /\ \A i \in 1 .. Len(told) : told'[i] = told[i]
        /\ told'[Len(told) + 1] = t
    BY <1>1, <1>2, AppendProperties DEF Chain, Sources
  <1>5. Len(told) \in Nat /\ DOMAIN told = 1 .. Len(told) /\ DOMAIN told' = 1 .. Len(told')
    BY <1>4, ToldIs, LenProperties DEF Chain
  <1>6. 1 .. (Len(told) + 1) = 1 .. Len(told) \cup {Len(told) + 1} /\ Len(told) + 1 \notin 1 .. Len(told)
    BY <1>5
  <1> QED
    BY <1>3, <1>4, <1>5, <1>6

\* One more response is counted, and nothing of it is held yet.
LEMMA TellsRespond ==
    ASSUME Chain, Chain', Coming, SummaryInv, NEW r \in Responses, Respond(r)
    PROVE  SummaryInv'
  <1>0. PICK n : n = Len(told) + 1
    OBVIOUS
  <1>1. Sources /\ SummaryIs /\ ~IsOn
    BY DEF Chain, SummaryInv, Respond, MayRespond
  <1>2. /\ DOMAIN told' = DOMAIN told \cup {n} /\ n \notin DOMAIN told
        /\ Len(told') = n
        /\ \A i \in DOMAIN told : told'[i] = told[i]
        /\ told'[n].response = r /\ told'[n].bytes = <<>>
        /\ told'[n].state \in {"on", "never done"}
    BY <1>0, <1>1, SumsRespond
  <1>3. Latest'.response = r /\ Latest' = told'[n] /\ IsConnected'
    BY <1>1, <1>2, SourcesRespond DEF Latest
  <1>4. /\ DOMAIN summary' = {"stats", "counter"}
        /\ summary'.stats \in [AllTypes -> [Classes -> StatsType]]
        /\ statsByLatency' = [type |-> r.type, class |-> ClassOf(r)]
        /\ \A type \in AllTypes, class \in Classes :
              summary'.stats[type][class] =
                 IF Covers(r, type, class) THEN Answered(r, summary.stats[type][class])
                 ELSE summary.stats[type][class]
    BY <1>1, StatsRespond
  <1>5. ASSUME NEW these, these \subseteq DOMAIN told
        PROVE  BytesOf(these)' = BytesOf(these) /\ BytesOf(these \cup {n})' = BytesOf(these)
    <2>1. \A i \in these : told'[i].bytes = told[i].bytes
      BY <1>2, <1>5
    <2>2. BytesOf(these)' = BytesOf(these)
      BY <2>1 DEF BytesOf
    <2>3. BytesOf(these \cup {n})' = BytesOf(these)' \cup ({n} \X DOMAIN told'[n].bytes)
      BY DEF BytesOf
    <2>4. DOMAIN told'[n].bytes = {}
      <3>1. DOMAIN <<>> = {}
        OBVIOUS
      <3> QED
        BY <1>2, <3>1
    <2> QED
      BY <2>2, <2>3, <2>4
  <1>6. BytesOf(DOMAIN told)' = BytesOf(DOMAIN told)
    <2>1. PICK all : all = DOMAIN told
      OBVIOUS
    <2>2. BytesOf(DOMAIN told)' = BytesOf(all \cup {n})'
      BY <1>2, <2>1 DEF BytesOf
    <2>3. BytesOf(all \cup {n})' = BytesOf(all)
      BY <1>5, <2>1
    <2> QED
      BY <2>1, <2>2, <2>3
  <1>7. SummaryIs'
    <2>2. \A i \in DOMAIN told' : told'[i].state = "on" => IsOn' /\ i = Len(told')
      BY <1>1, <1>2, <1>3 DEF SummaryIs, IsOn
    <2> QED
      BY <1>1, <1>3, <1>4, <1>6, <2>2 DEF SummaryIs
  <1>8. ASSUME NEW type \in AllTypes, NEW class \in Classes
        PROVE  Tells(type, class)'
    <2>1. PICK these : these = Matching(type, class)
      OBVIOUS
    <2> DEFINE received == Cardinality(BytesOf(these))
               was == summary.stats[type][class]
               is == summary'.stats[type][class]
    <2>2. /\ these = {i \in DOMAIN told : Covers(told[i].response, type, class)} /\ these \subseteq DOMAIN told
          /\ IsFiniteSet(these) /\ Cardinality(these) \in Nat
      BY <1>1, <2>1, FiniteSums
    <2>3. /\ was.numHeaders = Cardinality(these) /\ was.sizePayload = received
          /\ was.latencies = Cardinality({i \in these : told[i].response.latency <= MaxLatency})
          /\ \A k \in Kinds :
                /\ was.decompressed[k] + Awaited(type, class, k) <= received
                /\ (type # Unknown /\ \A i \in these : told[i].state # "cut")
                      => was.decompressed[k] + Awaited(type, class, k) = received
      BY <2>1 DEF SummaryInv, Tells
    <2>4. ASSUME NEW k \in Kinds PROVE Awaited(type, class, k) = 0 /\ Awaited(type, class, k)' = 0
      <3>1. comp'[k].held = <<>>
        BY DEF Respond, OnHttpResponse, OpenCompressors, Opened, Reset, ClosedCompressor
      <3>2. Len(<<>>) = 0
        BY EmptySeq
      <3> QED
        BY <1>1, <3>1, <3>2 DEF Awaited
    <2>5. CASE ~Covers(r, type, class)
      <3>1. Matching(type, class)' = these
        BY <1>2, <2>2, <2>5 DEF Matching, Covers
      <3>2. BytesOf(Matching(type, class))' = BytesOf(these)
        <4>1. BytesOf(Matching(type, class))' = BytesOf(these)'
          BY <3>1 DEF BytesOf
        <4> QED
          BY <1>5, <2>2, <4>1
      <3>3. {i \in Matching(type, class) : told[i].response.latency <= MaxLatency}'
               = {i \in these : told[i].response.latency <= MaxLatency}
        BY <1>2, <2>2, <3>1
      <3>4. is = was
        BY <1>4, <2>5
      <3>5. ASSUME NEW k \in Kinds
            PROVE  /\ is.decompressed[k] + Awaited(type, class, k)' <= received
                   /\ (type # Unknown /\ \A i \in these : told'[i].state # "cut")
                         => is.decompressed[k] + Awaited(type, class, k)' = received
        <4>1. Awaited(type, class, k)' = Awaited(type, class, k)
          BY <2>4
        <4>2. \A i \in these : told'[i] = told[i]
          BY <1>2, <2>2
        <4> QED
          BY <2>3, <3>4, <4>1, <4>2
      <3> QED
        BY <2>3, <3>1, <3>2, <3>3, <3>4, <3>5 DEF Tells
    <2>6. CASE Covers(r, type, class)
      <3>1. Matching(type, class)' = these \cup {n}
        BY <1>2, <2>2, <2>6 DEF Matching, Covers
      <3>2. BytesOf(Matching(type, class))' = BytesOf(these)
        <4>1. BytesOf(Matching(type, class))' = BytesOf(these \cup {n})'
          BY <3>1 DEF BytesOf
        <4> QED
          BY <1>5, <2>2, <4>1
      <3>3. {i \in Matching(type, class) : told[i].response.latency <= MaxLatency}'
               = {i \in these : told[i].response.latency <= MaxLatency}
                     \cup (IF r.latency <= MaxLatency THEN {n} ELSE {})
        BY <1>2, <2>2, <3>1
      <3>4. is = Answered(r, was) /\ was \in StatsType
        BY <1>1, <1>4, <2>6, StatsAre
      <3>5. /\ is.numHeaders = was.numHeaders + 1 /\ is.sizePayload = was.sizePayload
            /\ is.latencies = was.latencies + (IF r.latency <= MaxLatency THEN 1 ELSE 0)
            /\ is.decompressed = was.decompressed
        BY <3>4 DEF Answered, StatsType
      <3>6. Cardinality(these \cup {n}) = Cardinality(these) + 1
        BY <1>2, <2>2, FS_AddElement
      <3>7. Cardinality({i \in these : told[i].response.latency <= MaxLatency}
                           \cup (IF r.latency <= MaxLatency THEN {n} ELSE {}))
               = was.latencies + (IF r.latency <= MaxLatency THEN 1 ELSE 0)
        <4> DEFINE fast == {i \in these : told[i].response.latency <= MaxLatency}
        <4>1. fast \in SUBSET these /\ n \notin fast
          BY <1>2, <2>2
        <4>2. was.latencies = Cardinality(fast)
          BY <2>3
        <4> HIDE DEF fast
        <4>3. IsFiniteSet(fast)
          BY <2>2, <4>1, FS_Subset
        <4>4. Cardinality(fast \cup {n}) = Cardinality(fast) + 1 /\ Cardinality(fast) \in Nat
          BY <4>1, <4>3, FS_AddElement, FS_CardinalityType
        <4>5. fast \cup {} = fast
          OBVIOUS
        <4>6. Cardinality(fast \cup (IF r.latency <= MaxLatency THEN {n} ELSE {}))
                 = Cardinality(fast) + (IF r.latency <= MaxLatency THEN 1 ELSE 0)
          <5>1. CASE r.latency <= MaxLatency
            BY <4>4, <5>1
          <5>2. CASE ~(r.latency <= MaxLatency)
            BY <4>4, <4>5, <5>2
          <5> QED
            BY <5>1, <5>2
        <4> QED
          BY <4>2, <4>6 DEF fast
      <3>8. ASSUME NEW k \in Kinds
            PROVE  /\ is.decompressed[k] + Awaited(type, class, k)' <= received
                   /\ (type # Unknown /\ \A i \in these \cup {n} : told'[i].state # "cut")
                         => is.decompressed[k] + Awaited(type, class, k)' = received
        <4>1. Awaited(type, class, k)' = Awaited(type, class, k)
          BY <2>4
        <4>2. \A i \in these : told'[i] = told[i]
          BY <1>2, <2>2
        <4> QED
          BY <2>3, <3>5, <4>1, <4>2
      <3> QED
        BY <2>3, <3>1, <3>2, <3>3, <3>5, <3>6, <3>7, <3>8 DEF Tells
    <2> QED
      BY <2>5, <2>6
  <1>9. LZWTells'
    <2>1. CountedLZW' = CountedLZW
      <3>1. ASSUME NEW type \in AllTypes
            PROVE  summary'.stats[type]["response"].decompressed = summary.stats[type]["response"].decompressed
        <4>1. "response" \in Classes
          BY DEF Classes
        <4>2. summary.stats[type]["response"] \in StatsType
          BY <1>1, <4>1, StatsAre
        <4>3. Answered(r, summary.stats[type]["response"]).decompressed
                 = summary.stats[type]["response"].decompressed
          BY <4>2 DEF Answered, StatsType
        <4> QED
          BY <1>4, <4>1, <4>3
      <3> QED
        BY <3>1 DEF CountedLZW
    <2>2. coder'[pair'].node = coder[pair].node
      BY DEF Respond, OnHttpResponse, OpenCompressors, Open, configVars, Chain, Sources, Shape, PairTypeOK
    <2>3. PayloadSoFar' = PayloadSoFar
      BY <1>6 DEF PayloadSoFar
    <2>4. IsSingle' <=> IsSingle
      BY DEF IsSingle, Respond, dictVars
    <2> QED
      BY <2>1, <2>2, <2>3, <2>4 DEF LZWTells, SummaryInv
  <1> QED
    BY <1>7, <1>8, <1>9 DEF SummaryInv

\* A byte is counted as this, and the end of a response as Sized().
Received(stats, pieces) == Sized([stats EXCEPT !.sizePayload = @ + 1], pieces)

\* What comes from the decompressors is added to what came before.
Adding(stats, pieces, after) ==
    /\ after \in StatsType
    /\ after.numHeaders = stats.numHeaders /\ after.latencies = stats.latencies
    /\ \A p \in Pairs : after.decompressed[p] = stats.decompressed[p] + Len(pieces[p])

\* Each decompressed piece is counted by its length.
LEMMA PiecesCounted ==
    ASSUME NEW stats \in StatsType, NEW pieces, \A p \in Pairs : Len(pieces[p]) \in Nat
    PROVE  /\ Adding(stats, pieces, Sized(stats, pieces)) /\ Sized(stats, pieces).sizePayload = stats.sizePayload
           /\ Adding(stats, pieces, Received(stats, pieces))
           /\ Received(stats, pieces).sizePayload = stats.sizePayload + 1
  <1>1. ASSUME NEW s \in StatsType
        PROVE  Adding(s, pieces, Sized(s, pieces)) /\ Sized(s, pieces).sizePayload = s.sizePayload
    <2> DEFINE d == [p \in Pairs |-> s.decompressed[p] + Len(pieces[p])]
    <2>1. s.decompressed \in [Pairs -> Nat] /\ s.sizePayload + 1 \in Nat
      BY DEF StatsType
    <2>2. d \in [Pairs -> Nat] /\ \A p \in Pairs : d[p] = s.decompressed[p] + Len(pieces[p])
      BY <2>1
    <2>3. Sized(s, pieces) = [s EXCEPT !.decompressed = d]
      BY DEF Sized
    <2> HIDE DEF d
    <2> QED
      BY <2>1, <2>2, <2>3 DEF StatsType, Adding
  <1> DEFINE more == [stats EXCEPT !.sizePayload = @ + 1]
  <1>2. more \in StatsType /\ more.sizePayload = stats.sizePayload + 1
        /\ more.numHeaders = stats.numHeaders /\ more.latencies = stats.latencies
        /\ more.decompressed = stats.decompressed
    BY DEF StatsType
  <1>3. Received(stats, pieces) = Sized(more, pieces)
    BY DEF Received
  <1> HIDE DEF more
  <1>4. Adding(more, pieces, Sized(more, pieces)) /\ Sized(more, pieces).sizePayload = more.sizePayload
    BY <1>1, <1>2
  <1>5. Adding(stats, pieces, Received(stats, pieces))
    BY <1>2, <1>3, <1>4 DEF Adding
  <1> QED
    BY <1>1, <1>2, <1>3, <1>4, <1>5

\* A byte is counted for the response that is on, with what the decompressors give.
LEMMA StatsTraffic ==
    ASSUME Chain, SummaryIs, NEW b \in Bytes, Traffic(b), \A p \in Pairs : Len(Pieces[p]) \in Nat
    PROVE  /\ DOMAIN summary' = {"stats", "counter"}
           /\ summary'.stats \in [AllTypes -> [Classes -> StatsType]]
           /\ statsByLatency' = statsByLatency
           /\ \A type \in AllTypes, class \in Classes :
                 summary'.stats[type][class] =
                    IF Covers(Latest.response, type, class) THEN Received(summary.stats[type][class], Pieces)
                    ELSE summary.stats[type][class]
  <1>1. PICK r \in Responses : r = Latest.response
    BY SourcesTraffic, LatestIsTold DEF Chain, IsOn, Telling
  <1>2. PICK pieces : pieces = Pieces
    OBVIOUS
  <1>3. statsByLatency = [type |-> r.type, class |-> ClassOf(r)] /\ UNCHANGED statsByLatency
    BY <1>1, SourcesTraffic DEF SummaryIs, Chain, Traffic, OnHttpResponseTraffic
  <1> DEFINE stats == summary.stats
             x == Received(stats[r.type]["response"], pieces)
             y == Received(stats[r.type][ClassOf(r)], pieces)
             after == Changed(stats, r.type, ClassOf(r), x, y)
  <1>4. stats \in [AllTypes -> [Classes -> StatsType]] /\ x \in StatsType /\ y \in StatsType
    <2>1. stats[r.type]["response"] \in StatsType /\ stats[r.type][ClassOf(r)] \in StatsType
      BY ClassIs, StatsAre DEF Classes
    <2>2. x \in StatsType /\ y \in StatsType
      BY <1>2, <2>1, PiecesCounted DEF Adding
    <2> QED
      BY <2>2 DEF SummaryIs
  <1>5. summary' = [summary EXCEPT !.stats[r.type]["response"] = Received(@, pieces),
                                   !.stats[r.type][ClassOf(r)] = Received(@, pieces),
                                   !.counter[r.type][b] = @ + 1]
    BY <1>2, <1>3 DEF Traffic, OnHttpResponseTraffic, Counted, Received
  <1>6. DOMAIN summary' = {"stats", "counter"} /\ summary'.stats = after
    BY <1>4, <1>5, ClassIs DEF SummaryIs, Classes, Changed
  <1> HIDE DEF x, y
  <1>7. IsChanged(stats, r.type, ClassOf(r), x, y, after)
    <2>1. r.type \in AllTypes /\ ClassOf(r) \in {"responseStatic", "responseDynamic"}
      BY ClassIs
    <2> HIDE DEF stats
    <2> QED
      BY <1>4, <2>1, CountedIs
  <1> HIDE DEF after
  <1>8. ASSUME NEW type \in AllTypes, NEW class \in Classes
        PROVE  summary'.stats[type][class] =
                    IF Covers(r, type, class) THEN Received(summary.stats[type][class], pieces)
                    ELSE summary.stats[type][class]
    BY <1>6, <1>7, <1>8 DEF Covers, IsChanged, x, y
  <1> QED
    BY <1>1, <1>2, <1>3, <1>6, <1>7, <1>8 DEF IsChanged

\* The end of a response that has a type is counted for it.
LEMMA StatsDone ==
    ASSUME Chain, SummaryIs, Done, Latest.response.type # Unknown, \A p \in Pairs : Len(Pieces[p]) \in Nat
    PROVE  /\ DOMAIN summary' = {"stats", "counter"}
           /\ summary'.stats \in [AllTypes -> [Classes -> StatsType]]
           /\ \A type \in AllTypes, class \in Classes :
                 summary'.stats[type][class] =
                    IF Covers(Latest.response, type, class) THEN Sized(summary.stats[type][class], Pieces)
                    ELSE summary.stats[type][class]
  <1>1. PICK r \in Responses : r = Latest.response
    BY SourcesDone, LatestIsTold DEF Chain, IsOn, Telling
  <1>2. PICK pieces : pieces = Pieces
    OBVIOUS
  <1>3. statsByLatency = [type |-> r.type, class |-> ClassOf(r)]
    BY <1>1, SourcesDone DEF SummaryIs, Chain
  <1> DEFINE stats == summary.stats
             x == Sized(stats[r.type]["response"], pieces)
             y == Sized(stats[r.type][ClassOf(r)], pieces)
             after == Changed(stats, r.type, ClassOf(r), x, y)
  <1>4. stats \in [AllTypes -> [Classes -> StatsType]] /\ x \in StatsType /\ y \in StatsType
    <2>1. stats[r.type]["response"] \in StatsType /\ stats[r.type][ClassOf(r)] \in StatsType
      BY ClassIs, StatsAre DEF Classes
    <2>2. x \in StatsType /\ y \in StatsType
      BY <1>2, <2>1, PiecesCounted DEF Adding
    <2> QED
      BY <2>2 DEF SummaryIs
  <1>5. summary' = [summary EXCEPT !.stats[r.type]["response"] = Sized(@, pieces),
                                   !.stats[r.type][ClassOf(r)] = Sized(@, pieces)]
    BY <1>1, <1>2, <1>3 DEF Done, OnHttpDone, Counted
  <1>6. DOMAIN summary' = {"stats", "counter"} /\ summary'.stats = after
    BY <1>4, <1>5, ClassIs DEF SummaryIs, Classes, Changed
  <1> HIDE DEF x, y
  <1>7. IsChanged(stats, r.type, ClassOf(r), x, y, after)
    <2>1. r.type \in AllTypes /\ ClassOf(r) \in {"responseStatic", "responseDynamic"}
      BY ClassIs
    <2> HIDE DEF stats
    <2> QED
      BY <1>4, <2>1, CountedIs
  <1> HIDE DEF after
  <1>8. ASSUME NEW type \in AllTypes, NEW class \in Classes
        PROVE  summary'.stats[type][class] =
                    IF Covers(r, type, class) THEN Sized(summary.stats[type][class], pieces)
                    ELSE summary.stats[type][class]
    BY <1>6, <1>7, <1>8 DEF Covers, IsChanged, x, y
  <1> QED
    BY <1>1, <1>2, <1>6, <1>7, <1>8 DEF IsChanged

\* The end of what is longer than it was
LEMMA LengthOfNew ==
    ASSUME NEW s \in Seq(Bytes), NEW t \in Seq(Bytes)
    PROVE  Len(SubSeq(s \o t, Len(s) + 1, Len(s \o t))) = Len(t)
  <1>1. Len(s) \in Nat /\ Len(t) \in Nat /\ s \o t \in Seq(Bytes) /\ Len(s \o t) = Len(s) + Len(t)
    BY LenProperties, ConcatProperties
  <1>2. \A i \in Len(s) + 1 .. Len(s) + Len(t) : (s \o t)[i] \in Bytes
    <2> TAKE i \in Len(s) + 1 .. Len(s) + Len(t)
    <2>1. i \in 1 .. Len(s \o t)
      BY <1>1
    <2> QED
      BY <1>1, <2>1, ElementOfSeq
  <1> DEFINE w == s \o t
             m == Len(s) + 1
             n == Len(w)
  <1>3. w \in Seq(Bytes) /\ m \in Int /\ n \in Int /\ \A i \in m .. n : w[i] \in Bytes
    BY <1>1, <1>2
  <1>4. n = Len(s) + Len(t)
    BY <1>1
  <1>5. Len(SubSeq(w, m, n)) = IF m <= n THEN n - m + 1 ELSE 0
    <2> HIDE DEF w, m, n
    <2> QED
      BY <1>3, SubSeqProperties
  <1> HIDE DEF w, n
  <1>6. Len(SubSeq(w, m, n)) = Len(t)
    BY <1>1, <1>4, <1>5
  <1> QED
    BY <1>6 DEF w, n

\* The lengths of two words in a row
LEMMA LengthsAdd ==
    ASSUME NEW s \in Seq(Bytes), NEW t \in Seq(Bytes)
    PROVE  Len(s) \in Nat /\ Len(t) \in Nat /\ Len(s \o t) = Len(s) + Len(t)
  BY LenProperties, ConcatProperties

\* If what is given and held grows by one byte, more is given than held back but for that.
LEMMA OneMore ==
    ASSUME NEW s \in Seq(Bytes), NEW t \in Seq(Bytes), NEW h \in Seq(Bytes), NEW h2 \in Seq(Bytes),
           NEW w \in Seq(Bytes), NEW b \in Bytes, s \o h = w, (s \o t) \o h2 = Append(w, b)
    PROVE  Len(t) + Len(h2) = Len(h) + 1
  <1>1. Len(Append(w, b)) = Len(w) + 1
    BY AppendProperties
  <1>2. Len(s) \in Nat /\ Len(t) \in Nat /\ Len(h) \in Nat /\ Len(h2) \in Nat /\ s \o t \in Seq(Bytes)
    BY LengthsAdd, ConcatProperties
  <1>3. Len(s \o h) = Len(s) + Len(h) /\ Len(s \o t) = Len(s) + Len(t)
    BY LengthsAdd
  <1>4. Len((s \o t) \o h2) = Len(s \o t) + Len(h2)
    BY <1>2, LengthsAdd
  <1>5. PICK m \in Nat, n \in Nat, o \in Nat, o2 \in Nat,
             p \in {Len(w)}, q \in {Len(s \o t)} :
           m = Len(s) /\ n = Len(t) /\ o = Len(h) /\ o2 = Len(h2)
    BY <1>2
  <1>6. p = m + o /\ q = m + n
    BY <1>3, <1>5, Zenon
  <1>7. q + o2 = p + 1
    BY <1>1, <1>4, <1>5, Zenon
  <1>8. n + o2 = o + 1
    BY <1>6, <1>7
  <1> QED
    BY <1>5, <1>8

\* What LZWDict gives when its encoder takes n bytes and ends up with another node
LEMMA PieceOfLZW ==
    ASSUME Shape, NEW d \in Dicts, NEW t \in Seq(Bytes), given'[d] = given[d] \o t
    PROVE  Len(SubSeq(given'[d], Len(given[d]) + 1, Len(given'[d]))) = Len(t) /\ Len(t) \in Nat
  <1>1. given[d] \in Seq(Bytes)
    BY DEF Shape, PairTypeOK
  <1>2. PICK s \in Seq(Bytes) : s = given[d]
    BY <1>1
  <1>3. Len(SubSeq(s \o t, Len(s) + 1, Len(s \o t))) = Len(t)
    BY LengthOfNew
  <1>4. Len(t) \in Nat
    BY LenProperties
  <1> QED
    BY <1>2, <1>3, <1>4

\* A byte is held or given, with as many of those that were held.
LEMMA PiecesTraffic ==
    ASSUME Chain, Coming, Coming', NEW b \in Bytes, Traffic(b)
    PROVE  /\ \A p \in Pairs : Len(Pieces[p]) \in Nat
           /\ \A k \in Kinds : Len(Pieces[k]) + Len(comp'[k].held) = Len(comp[k].held) + 1
           /\ Sound /\ Sound' /\ IsSingle =>
                 Len(Pieces["lzw"]) + Len(coder'[pair].node[2]) = Len(coder[pair].node[2]) + 1
  <1>1. IsOn /\ IsConnected' /\ ~IsComplete' /\ IsConnected /\ ~IsComplete
    BY SourcesTraffic DEF Chain, IsComplete, IsOn
  <1>2. PICK results \in [Kinds -> UNION {Appended(k, comp[k], b) : k \in Kinds}] :
           (\A k \in Kinds : results[k] \in Appended(k, comp[k], b)) /\ Passed(results)
    BY DEF Traffic, OnHttpResponseTraffic, AppendToCompressors
  <1>3. Compress(pair, b) /\ payload' = Append(payload, b) /\ pair \in Dicts /\ UNCHANGED dictVars
    BY DEF Traffic, OnHttpResponseTraffic, AppendToCompressors, Chain, Sources
  <1>4. CodecTypes /\ CodecTypes' /\ \A k \in Kinds : Streams(k) /\ Streams(k)'
    BY <1>1 DEF Coming, Streaming
  <1>5. ASSUME NEW k \in Kinds
        PROVE  /\ Len(Pieces[k]) \in Nat
               /\ Len(Pieces[k]) + Len(comp'[k].held) = Len(comp[k].held) + 1
    <2>1. PICK t \in Seq(Bytes) : t = Decompressed(k, decompAt[k], results[k])
      BY <1>2, <1>4, AppendStreams
    <2>3. back'[k] = back[k] \o t
      BY <1>2, <2>1 DEF Passed
    <2>4. PICK s \in Seq(Bytes), s2 \in Seq(Bytes), h \in Seq(Bytes), h2 \in Seq(Bytes), w \in Seq(Bytes) :
             s = back[k] /\ s2 = back'[k] /\ h = comp[k].held /\ h2 = comp'[k].held /\ w = payload
      BY <1>4 DEF CodecTypes, CompType
    <2>5. s2 = s \o t /\ s \o h = w /\ s2 \o h2 = Append(w, b)
      BY <1>3, <1>4, <2>3, <2>4 DEF Streams
    <2>8. Len(t) + Len(h2) = Len(h) + 1 /\ Len(t) \in Nat
      <3>2. Len(t) + Len(h2) = Len(h) + 1
        BY <2>5, OneMore
      <3> QED
        BY <3>2, LengthsAdd
    <2>9. Pieces[k] = SubSeq(back'[k], Len(back[k]) + 1, Len(back'[k]))
      BY DEF Pieces, Pairs, Kinds
    <2>10. Len(Pieces[k]) = Len(t)
      <3>1. Len(SubSeq(s \o t, Len(s) + 1, Len(s \o t))) = Len(t)
        BY LengthOfNew
      <3>2. Pieces[k] = SubSeq(s2, Len(s) + 1, Len(s2))
        BY <2>4, <2>9
      <3> QED
        BY <2>5, <3>1, <3>2
    <2> QED
      BY <2>4, <2>8, <2>10
  <1> DEFINE e == Encoded(coder[pair], pair, b)
  <1>6. PICK t \in Seq(Bytes) : t = Decoded(pair, e.out)
    <2>1. \/ e = [node |-> Below(coder[pair].node, b), out |-> <<>>]
          \/ /\ coder[pair].node \in DOMAIN encTree
             /\ e = [node |-> Below(Root(pair), b), out |-> <<encTree[coder[pair].node]>>]
      <3>1. Shape /\ IsOpen(pair)
        BY <1>1 DEF Chain
      <3> QED
        BY <1>3, <3>1, EncodeByte
    <2> HIDE DEF e
    <2>2. CASE e = [node |-> Below(coder[pair].node, b), out |-> <<>>]
      BY <2>2, EmptySeq DEF Decoded
    <2>3. CASE /\ coder[pair].node \in DOMAIN encTree
               /\ e = [node |-> Below(Root(pair), b), out |-> <<encTree[coder[pair].node]>>]
      <3>1. encTree[coder[pair].node] \in 0 .. MaxIdx
        BY <2>3 DEF Chain, Shape, DictTypeOK
      <3>2. dec[<<pair, encTree[coder[pair].node]>>] \in Seq(Bytes)
        BY <1>3, <3>1 DEF Chain, Shape, DictTypeOK, Indices
      <3>3. Decoded(pair, e.out) = dec[<<pair, encTree[coder[pair].node]>>]
        BY <2>3 DEF Decoded
      <3> QED
        BY <3>2, <3>3
    <2> QED
      BY <2>1, <2>2, <2>3
  <1>7. given'[pair] = given[pair] \o t /\ taken'[pair] = Append(taken[pair], b)
    BY <1>3, <1>6 DEF Compress, Chain, Shape, PairTypeOK
  <1>8. Pieces["lzw"] = SubSeq(given'[pair], Len(given[pair]) + 1, Len(given'[pair]))
    BY DEF Pieces, Pairs
  <1>9. Len(Pieces["lzw"]) = Len(t) /\ Len(t) \in Nat
    BY <1>3, <1>7, <1>8, PieceOfLZW DEF Chain
  <1>10. ASSUME Sound, Sound', IsSingle
         PROVE  Len(Pieces["lzw"]) + Len(coder'[pair].node[2]) = Len(coder[pair].node[2]) + 1
    <2>1. IsSingle'
      BY <1>3, <1>10 DEF IsSingle, dictVars
    <2>2. PICK g \in Seq(Bytes), g2 \in Seq(Bytes), h \in Seq(Bytes), h2 \in Seq(Bytes), w \in Seq(Bytes) :
             /\ g = given[pair] /\ g2 = given'[pair] /\ w = taken[pair]
             /\ h = coder[pair].node[2] /\ h2 = coder'[pair].node[2]
      BY <1>3, <1>10 DEF Sound, Shape, PairTypeOK
    <2>3. g \o h = w /\ g2 \o h2 = Append(w, b) /\ g2 = g \o t
      BY <1>3, <1>7, <1>10, <2>1, <2>2 DEF Sound, RoundTrip
    <2>6. Len(t) + Len(h2) = Len(h) + 1
      BY <2>3, OneMore
    <2> QED
      BY <1>9, <2>2, <2>6
  <1>11. ASSUME NEW p \in Pairs PROVE Len(Pieces[p]) \in Nat
    BY <1>5, <1>9 DEF Pairs
  <1> QED
    BY <1>5, <1>10, <1>11

\* What a byte makes of what came
LEMMA SumsTraffic ==
    ASSUME Sources, NEW b \in Bytes, Traffic(b)
    PROVE  LET n == Len(told)
           IN  /\ n \in DOMAIN told /\ DOMAIN told' = DOMAIN told /\ Len(told') = n
               /\ \A i \in DOMAIN told : /\ told'[i].response = told[i].response
                                         /\ told'[i].state = told[i].state
                                         /\ i # n => told'[i].bytes = told[i].bytes
               /\ DOMAIN told'[n].bytes = DOMAIN told[n].bytes \cup {Len(told[n].bytes) + 1}
               /\ Len(told[n].bytes) + 1 \notin DOMAIN told[n].bytes
  <1> DEFINE t == [Latest EXCEPT !.bytes = Append(Latest.bytes, b)]
  <1>1. Latest \in Telling /\ Len(told) \in 1 .. Len(told)
    BY SourcesTraffic, LatestIsTold DEF IsOn
  <1>2. told' = [told EXCEPT ![Len(told)] = t]
    BY DEF Traffic, Latest
  <1>3. Append(Latest.bytes, b) \in Seq(Bytes) /\ Len(Append(Latest.bytes, b)) = Len(Latest.bytes) + 1
    <2>1. Latest.bytes \in Seq(Bytes)
      BY <1>1 DEF Telling
    <2> QED
      BY <2>1, AppendProperties
  <1>4. t \in Telling /\ t.state = Latest.state /\ t.response = Latest.response
        /\ t.bytes = Append(Latest.bytes, b)
    BY <1>1, <1>3 DEF Telling
  <1> HIDE DEF t
  <1>5. told' \in Seq(Telling) /\ Len(told') = Len(told) /\ told \in Seq(Telling)
        /\ \A i \in 1 .. Len(told) : told'[i] = IF i = Len(told) THEN t ELSE told[i]
    BY <1>1, <1>2, <1>4, ExceptSeq DEF Sources
  <1>6. DOMAIN told = 1 .. Len(told) /\ DOMAIN told' = 1 .. Len(told)
    BY <1>5, LenProperties
  <1>7. \A i \in DOMAIN told : /\ told'[i].response = told[i].response
                               /\ told'[i].state = told[i].state
                               /\ i # Len(told) => told'[i].bytes = told[i].bytes
    BY <1>4, <1>5, <1>6 DEF Latest
  <1>8. told'[Len(told)].bytes = Append(Latest.bytes, b)
    BY <1>1, <1>4, <1>5
  <1>9. /\ DOMAIN Append(Latest.bytes, b) = 1 .. (Len(Latest.bytes) + 1)
        /\ DOMAIN Latest.bytes = 1 .. Len(Latest.bytes) /\ Len(Latest.bytes) \in Nat
    <2>1. Latest.bytes \in Seq(Bytes)
      BY <1>1 DEF Telling
    <2> QED
      BY <1>3, <2>1, LenProperties
  <1>10. /\ 1 .. (Len(Latest.bytes) + 1) = 1 .. Len(Latest.bytes) \cup {Len(Latest.bytes) + 1}
         /\ Len(Latest.bytes) + 1 \notin 1 .. Len(Latest.bytes)
    BY <1>9
  <1> QED
    BY <1>1, <1>5, <1>6, <1>7, <1>8, <1>9, <1>10 DEF Latest

\* These have one byte more if the latest is one of them.
LEMMA BytesTraffic ==
    ASSUME Sources, NEW b \in Bytes, Traffic(b), NEW these, these \subseteq DOMAIN told,
           IsFiniteSet(BytesOf(these))
    PROVE  /\ IsFiniteSet(BytesOf(these)')
           /\ Cardinality(BytesOf(these)')
                 = Cardinality(BytesOf(these)) + (IF Len(told) \in these THEN 1 ELSE 0)
  <1>1. PICK n, place : n = Len(told) /\ place = <<n, Len(told[n].bytes) + 1>>
    OBVIOUS
  <1>2. /\ \A i \in these : i # n => told'[i].bytes = told[i].bytes
        /\ DOMAIN told'[n].bytes = DOMAIN told[n].bytes \cup {place[2]}
        /\ place[2] \notin DOMAIN told[n].bytes
    BY <1>1, SumsTraffic
  <1>3. CASE n \notin these
    <2>1. \A i \in these : told'[i].bytes = told[i].bytes
      BY <1>2, <1>3
    <2>2. BytesOf(these)' = BytesOf(these)
      BY <2>1 DEF BytesOf
    <2>3. Cardinality(BytesOf(these)) \in Nat
      BY FS_CardinalityType
    <2> QED
      BY <1>1, <1>3, <2>2, <2>3
  <1>4. CASE n \in these
    <2>1. place \notin BytesOf(these)
      BY <1>1, <1>2 DEF BytesOf
    <2>2. BytesOf(these)' = BytesOf(these) \cup {place}
      <3>1. ASSUME NEW i \in these, NEW j
            PROVE  j \in DOMAIN told'[i].bytes <=> j \in DOMAIN told[i].bytes \/ (i = n /\ j = place[2])
        BY <1>2
      <3>2. ASSUME NEW x
            PROVE  x \in BytesOf(these)' <=> x \in BytesOf(these) \/ x = place
        <4>1. x \in BytesOf(these)' <=> \E i \in these : \E j \in DOMAIN told'[i].bytes : x = <<i, j>>
          BY DEF BytesOf
        <4>2. x \in BytesOf(these) <=> \E i \in these : \E j \in DOMAIN told[i].bytes : x = <<i, j>>
          BY DEF BytesOf
        <4>3. place = <<n, place[2]>>
          BY <1>1
        <4> QED
          BY <1>4, <3>1, <4>1, <4>2, <4>3
      <3> QED
        BY <3>2
    <2>3. IsFiniteSet(BytesOf(these) \cup {place})
          /\ Cardinality(BytesOf(these) \cup {place}) = Cardinality(BytesOf(these)) + 1
      BY <2>1, FS_AddElement
    <2> QED
      BY <1>1, <1>4, <2>2, <2>3
  <1> QED
    BY <1>3, <1>4

\* What LZWDict has decompressed is counted, a type at a time.
LEMMA LZWAdds ==
    ASSUME SummaryIs, SummaryIs', IsFiniteSet(CountedLZW), NEW type \in AllTypes, NEW n \in Nat,
           summary'.stats[type]["response"].decompressed["lzw"]
              = summary.stats[type]["response"].decompressed["lzw"] + n,
           \A other \in AllTypes : other # type =>
              summary'.stats[other]["response"].decompressed["lzw"]
                 = summary.stats[other]["response"].decompressed["lzw"]
    PROVE  IsFiniteSet(CountedLZW)' /\ Cardinality(CountedLZW)' = Cardinality(CountedLZW) + n
  <1> DEFINE before(t) == summary.stats[t]["response"].decompressed["lzw"]
             after(t) == summary'.stats[t]["response"].decompressed["lzw"]
  <1>1. \A t \in AllTypes : before(t) \in Nat
    <2>1. "response" \in Classes /\ "lzw" \in Pairs
      BY DEF Classes, Pairs
    <2> QED
      BY <2>1, StatsAre
  <1>2. after(type) = before(type) + n /\ \A t \in AllTypes : t # type => after(t) = before(t)
    OBVIOUS
  <1>3. /\ CountedLZW = UNION {{t} \X (1 .. before(t)) : t \in AllTypes}
        /\ CountedLZW' = UNION {{t} \X (1 .. after(t)) : t \in AllTypes}
    BY DEF CountedLZW
  <1> HIDE DEF before, after
  <1>4. PICK m \in Nat : m = before(type)
    BY <1>1
  <1> DEFINE added == {type} \X (m + 1 .. m + n)
  <1>5. CountedLZW' = CountedLZW \cup added
    <2>1. ASSUME NEW x PROVE x \in CountedLZW' <=> x \in CountedLZW \/ x \in added
      <3>1. x \in CountedLZW' <=> \E t \in AllTypes : \E j \in 1 .. after(t) : x = <<t, j>>
        BY <1>3
      <3>2. x \in CountedLZW <=> \E t \in AllTypes : \E j \in 1 .. before(t) : x = <<t, j>>
        BY <1>3
      <3>3. x \in added <=> \E j \in m + 1 .. m + n : x = <<type, j>>
        OBVIOUS
      <3>4. \A j : j \in 1 .. after(type) <=> j \in 1 .. m \/ j \in m + 1 .. m + n
        BY <1>2, <1>4
      <3> HIDE DEF added
      <3> QED
        BY <1>2, <1>4, <3>1, <3>2, <3>3, <3>4
    <2> HIDE DEF added
    <2> QED
      BY <2>1
  <1>6. CountedLZW \cap added = {}
    <2>1. ASSUME NEW x \in CountedLZW, x \in added PROVE FALSE
      <3>1. PICK t \in AllTypes : \E j \in 1 .. before(t) : x = <<t, j>>
        BY <1>3, <2>1
      <3>2. PICK j \in 1 .. before(t) : x = <<t, j>>
        BY <3>1
      <3>3. t = type /\ j \in m + 1 .. m + n
        BY <2>1, <3>2
      <3> QED
        BY <1>4, <3>2, <3>3
    <2> HIDE DEF added
    <2> QED
      BY <2>1
  <1>7. IsFiniteSet(added) /\ Cardinality(added) = n
    <2>1. IsFiniteSet(m + 1 .. m + n) /\ Cardinality(m + 1 .. m + n) = n
      <3>1. IsFiniteSet(m + 1 .. m + n)
            /\ Cardinality(m + 1 .. m + n) = IF m + 1 > m + n THEN 0 ELSE (m + n) - (m + 1) + 1
        BY FS_Interval
      <3> QED
        BY <3>1
    <2>2. IsFiniteSet({type}) /\ Cardinality({type}) = 1
      BY FS_Singleton
    <2> DEFINE places == m + 1 .. m + n
    <2> HIDE DEF places
    <2>3. IsFiniteSet(places) /\ Cardinality(places) = n
      BY <2>1 DEF places
    <2>4. IsFiniteSet({type} \X places) /\ Cardinality({type} \X places) = Cardinality({type}) * Cardinality(places)
      BY <2>2, <2>3, FS_Product
    <2> QED
      BY <2>2, <2>3, <2>4 DEF places
  <1> HIDE DEF added
  <1>8. Cardinality({}) = 0 /\ Cardinality(CountedLZW) \in Nat
    BY FS_EmptySet, FS_CardinalityType
  <1>9. IsFiniteSet(CountedLZW \cup added)
        /\ Cardinality(CountedLZW \cup added)
              = Cardinality(CountedLZW) + Cardinality(added) - Cardinality(CountedLZW \cap added)
    BY <1>7, FS_Union
  <1>10. Cardinality(CountedLZW \cup added) = Cardinality(CountedLZW) + n
    <2>1. Cardinality(CountedLZW \cap added) = 0
      BY <1>6, <1>8, Zenon
    <2> DEFINE c == Cardinality(CountedLZW)
               both == Cardinality(CountedLZW \cap added)
               all == Cardinality(CountedLZW \cup added)
               more == Cardinality(added)
    <2>2. c \in Nat /\ both = 0 /\ more = n /\ all = c + more - both
      BY <1>7, <1>8, <1>9, <2>1, Zenon
    <2> HIDE DEF c, both, all, more
    <2>3. all = c + n
      BY <2>2
    <2> QED
      BY <2>3 DEF c, all
  <1> QED
    BY <1>5, <1>9, <1>10

\* A byte has come: it is counted, and as much is decompressed or held.
LEMMA TellsTraffic ==
    ASSUME Chain, Chain', Coming, Coming', Sound, Sound', SummaryInv, NEW b \in Bytes, Traffic(b)
    PROVE  SummaryInv'
  <1>1. Sources /\ Sources' /\ SummaryIs /\ IsOn /\ IsOn'
    BY SourcesTraffic DEF Chain, SummaryInv
  <1>2. PICK n \in Nat, r \in Responses : n = Len(told) /\ r = Latest.response
    <2>1. Latest \in Telling /\ Len(told) \in Nat
      BY <1>1, LatestIsTold, ToldIs DEF IsOn
    <2> QED
      BY <2>1 DEF Telling
  <1>3. /\ n \in DOMAIN told /\ DOMAIN told' = DOMAIN told /\ Len(told') = n
        /\ \A i \in DOMAIN told : told'[i].response = told[i].response /\ told'[i].state = told[i].state
    BY <1>1, <1>2, SumsTraffic
  <1>4. Latest'.response = r
    BY <1>2, <1>3 DEF Latest
  <1>5. PICK pieces : pieces = Pieces
    OBVIOUS
  <1>6. /\ \A p \in Pairs : Len(pieces[p]) \in Nat
        /\ \A k \in Kinds : Len(pieces[k]) + Len(comp'[k].held) = Len(comp[k].held) + 1
        /\ IsSingle => Len(pieces["lzw"]) + Len(coder'[pair].node[2]) = Len(coder[pair].node[2]) + 1
    BY <1>5, PiecesTraffic
  <1>7. /\ DOMAIN summary' = {"stats", "counter"}
        /\ summary'.stats \in [AllTypes -> [Classes -> StatsType]]
        /\ statsByLatency' = statsByLatency
        /\ \A type \in AllTypes, class \in Classes :
              summary'.stats[type][class] =
                 IF Covers(r, type, class) THEN Received(summary.stats[type][class], pieces)
                 ELSE summary.stats[type][class]
    BY <1>1, <1>2, <1>5, <1>6, StatsTraffic
  <1>8. PICK all : all = DOMAIN told
    OBVIOUS
  <1>9. /\ IsFiniteSet(BytesOf(DOMAIN told)')
        /\ Cardinality(BytesOf(DOMAIN told)') = Cardinality(BytesOf(DOMAIN told)) + 1
    <2>1. IsFiniteSet(BytesOf(all)') /\ Cardinality(BytesOf(all)') = Cardinality(BytesOf(all)) + 1
      BY <1>1, <1>2, <1>3, <1>8, BytesTraffic DEF SummaryIs
    <2>2. BytesOf(DOMAIN told)' = BytesOf(all)'
      BY <1>3, <1>8 DEF BytesOf
    <2> QED
      BY <1>8, <2>1, <2>2
  <1>10. SummaryIs'
    <2>1. \A i \in DOMAIN told' : told'[i].state = "on" => IsOn' /\ i = Len(told')
      BY <1>1, <1>2, <1>3 DEF SummaryIs
    <2>2. statsByLatency' = [type |-> Latest'.response.type, class |-> ClassOf(Latest'.response)]
      BY <1>1, <1>2, <1>4, <1>7 DEF SummaryIs
    <2> QED
      BY <1>7, <1>9, <2>1, <2>2 DEF SummaryIs
  <1>11. ASSUME NEW type \in AllTypes, NEW class \in Classes
         PROVE  Tells(type, class)'
    <2>1. PICK these : these = Matching(type, class)
      OBVIOUS
    <2> DEFINE received == Cardinality(BytesOf(these))
               was == summary.stats[type][class]
               is == summary'.stats[type][class]
               fast == {i \in these : told[i].response.latency <= MaxLatency}
               more == IF Covers(r, type, class) THEN 1 ELSE 0
    <2>2. /\ these = {i \in DOMAIN told : Covers(told[i].response, type, class)} /\ these \subseteq DOMAIN told
          /\ IsFiniteSet(BytesOf(these)) /\ received \in Nat
      BY <1>1, <2>1, FiniteSums
    <2>3. /\ was.numHeaders = Cardinality(these) /\ was.sizePayload = received
          /\ was.latencies = Cardinality(fast)
          /\ \A k \in Kinds :
                /\ was.decompressed[k] + Awaited(type, class, k) <= received
                /\ (type # Unknown /\ \A i \in these : told[i].state # "cut")
                      => was.decompressed[k] + Awaited(type, class, k) = received
      BY <2>1 DEF SummaryInv, Tells
    <2>4. Matching(type, class)' = these
      BY <1>3, <2>2 DEF Matching, Covers
    <2>5. Cardinality(BytesOf(Matching(type, class)))' = received + more
      <3>1. BytesOf(Matching(type, class))' = BytesOf(these)'
        BY <2>4 DEF BytesOf
      <3>2. n \in these <=> Covers(r, type, class)
        BY <1>2, <1>3, <2>2 DEF Latest
      <3> QED
        BY <1>1, <1>2, <2>2, <3>1, <3>2, BytesTraffic
    <2>6. {i \in Matching(type, class) : told[i].response.latency <= MaxLatency}' = fast
      BY <1>3, <2>2, <2>4
    <2>7. /\ is.numHeaders = was.numHeaders /\ is.latencies = was.latencies
          /\ is.sizePayload = was.sizePayload + more
          /\ \A k \in Kinds : is.decompressed[k] + Awaited(type, class, k)'
                                 = was.decompressed[k] + Awaited(type, class, k) + more
      <3>1. was \in StatsType
        BY <1>1, StatsAre
      <3>2. CASE ~Covers(r, type, class)
        <4>1. is = was
          BY <1>7, <3>2
        <4>2. \A k \in Kinds : Awaited(type, class, k) = 0 /\ Awaited(type, class, k)' = 0
          BY <1>2, <1>4, <3>2 DEF Awaited, Covers
        <4>3. more = 0
          BY <3>2
        <4>4. \A k \in Kinds : was.decompressed[k] \in Nat
          BY <3>1 DEF StatsType, Pairs
        <4>5. was.sizePayload \in Nat
          BY <3>1 DEF StatsType
        <4> HIDE DEF was, is, more
        <4> QED
          BY <4>1, <4>2, <4>3, <4>4, <4>5
      <3>3. CASE Covers(r, type, class)
        <4>1. is = Received(was, pieces)
          BY <1>7, <3>3
        <4>2. Adding(was, pieces, Received(was, pieces)) /\ Received(was, pieces).sizePayload = was.sizePayload + 1
          BY <1>6, <3>1, PiecesCounted
        <4>3. more = 1
          BY <3>3
        <4> HIDE DEF was, is, more
        <4>4. ASSUME NEW k \in Kinds
              PROVE  is.decompressed[k] + Awaited(type, class, k)'
                        = was.decompressed[k] + Awaited(type, class, k) + more
          <5>1. k \in Pairs
            BY DEF Pairs
          <5>2. is.decompressed[k] = was.decompressed[k] + Len(pieces[k])
            BY <4>1, <4>2, <5>1 DEF Adding
          <5>3. Awaited(type, class, k) = Len(comp[k].held) /\ Awaited(type, class, k)' = Len(comp'[k].held)
            BY <1>1, <1>2, <1>4, <3>3 DEF Awaited, Covers
          <5>4. Len(comp[k].held) \in Nat /\ Len(comp'[k].held) \in Nat
            <6>1. comp[k].held \in Seq(Bytes) /\ comp'[k].held \in Seq(Bytes)
              BY DEF Coming, Streaming, CodecTypes, CompType
            <6> QED
              BY <6>1, LenProperties
          <5>5. Len(pieces[k]) \in Nat /\ was.decompressed[k] \in Nat
            BY <1>6, <3>1, <5>1 DEF StatsType
          <5>6. Len(pieces[k]) + Len(comp'[k].held) = Len(comp[k].held) + 1
            BY <1>6
          <5> DEFINE x == was.decompressed[k]
                     y == Len(pieces[k])
                     u == Len(comp[k].held)
                     v == Len(comp'[k].held)
          <5>7. x \in Nat /\ y \in Nat /\ u \in Nat /\ v \in Nat /\ y + v = u + 1
            BY <5>4, <5>5, <5>6
          <5> HIDE DEF x, y, u, v
          <5>8. (x + y) + v = x + u + 1
            BY <5>7
          <5> QED
            BY <4>3, <5>2, <5>3, <5>8 DEF x, y, u, v
        <4> QED
          BY <4>1, <4>2, <4>3, <4>4 DEF Adding
      <3> QED
        BY <3>2, <3>3
    <2>8. ASSUME NEW k \in Kinds
          PROVE  /\ is.decompressed[k] + Awaited(type, class, k)' <= received + more
                 /\ (type # Unknown /\ \A i \in these : told'[i].state # "cut")
                       => is.decompressed[k] + Awaited(type, class, k)' = received + more
      <3>1. \A i \in these : told'[i].state = told[i].state
        BY <1>3, <2>2
      <3> DEFINE m == was.decompressed[k] + Awaited(type, class, k)
      <3>2. m \in Nat
        <4>1. was.decompressed[k] \in Nat
          BY <1>1, StatsAre DEF Pairs
        <4>2. Awaited(type, class, k) \in Nat
          BY AwaitedIs
        <4> QED
          BY <4>1, <4>2
      <3>3. is.decompressed[k] + Awaited(type, class, k)' = m + more
        BY <2>7
      <3>4. /\ m <= received
            /\ (type # Unknown /\ \A i \in these : told[i].state # "cut") => m = received
        BY <2>3
      <3>5. more \in Nat
        OBVIOUS
      <3> HIDE DEF was, is, more, m, received
      <3> QED
        BY <2>2, <3>1, <3>2, <3>3, <3>4, <3>5
    <2> HIDE DEF received, was, is, fast, more
    <2> QED
      BY <2>3, <2>4, <2>5, <2>6, <2>7, <2>8 DEF Tells, is
  <1>12. LZWTells'
    <2>1. PICK n2 \in Nat : n2 = Len(pieces["lzw"])
      BY <1>6 DEF Pairs
    <2>2. ASSUME NEW type \in AllTypes
          PROVE  summary'.stats[type]["response"].decompressed["lzw"] =
                    IF type = r.type THEN summary.stats[type]["response"].decompressed["lzw"] + n2
                    ELSE summary.stats[type]["response"].decompressed["lzw"]
      <3>1. "response" \in Classes /\ "lzw" \in Pairs
        BY DEF Classes, Pairs
      <3>2. summary.stats[type]["response"] \in StatsType
        BY <1>1, <3>1, StatsAre
      <3>3. CASE type = r.type
        <4>1. summary'.stats[type]["response"] = Received(summary.stats[type]["response"], pieces)
          BY <1>7, <3>1, <3>3 DEF Covers
        <4>2. Adding(summary.stats[type]["response"], pieces, Received(summary.stats[type]["response"], pieces))
          BY <1>6, <3>2, PiecesCounted
        <4> QED
          BY <2>1, <3>1, <3>3, <4>1, <4>2 DEF Adding
      <3>4. CASE type # r.type
        BY <1>7, <3>1, <3>4 DEF Covers
      <3> QED
        BY <3>3, <3>4
    <2>3. r.type \in AllTypes
      BY ClassIs
    <2>4. IsFiniteSet(CountedLZW)' /\ Cardinality(CountedLZW)' = Cardinality(CountedLZW) + n2
      BY <1>1, <1>10, <2>2, <2>3, LZWAdds DEF SummaryInv, LZWTells
    <2>5. (IsSingle' <=> IsSingle) /\ pair' = pair
      BY DEF IsSingle, Traffic, dictVars, configVars
    <2>6. ASSUME IsSingle
          PROVE  Cardinality(CountedLZW)' + Len(coder'[pair].node[2]) <= PayloadSoFar'
      <3> DEFINE x == Cardinality(CountedLZW)
                 u == Len(coder[pair].node[2])
                 v == Len(coder'[pair].node[2])
      <3>1. x \in Nat
        BY FS_CardinalityType DEF SummaryInv, LZWTells
      <3>2. u \in Nat /\ v \in Nat
        <4>1. coder[pair].node[2] \in Seq(Bytes) /\ coder'[pair].node[2] \in Seq(Bytes)
          BY <1>1 DEF Chain, Sources, Shape, PairTypeOK
        <4> QED
          BY <4>1, LenProperties
      <3>3. n2 + v = u + 1
        BY <1>6, <2>1, <2>6
      <3>4. x + u <= PayloadSoFar /\ PayloadSoFar \in Nat /\ PayloadSoFar' = PayloadSoFar + 1
        BY <1>1, <1>9, <2>6, FS_CardinalityType DEF SummaryInv, LZWTells, PayloadSoFar, SummaryIs
      <3>5. Cardinality(CountedLZW)' = x + n2
        BY <2>4
      <3> HIDE DEF x, u, v
      <3>6. (x + n2) + v <= PayloadSoFar'
        BY <3>1, <3>2, <3>3, <3>4
      <3> QED
        BY <3>5, <3>6 DEF v
    <2> QED
      BY <2>4, <2>5, <2>6 DEF LZWTells
  <1> QED
    BY <1>10, <1>11, <1>12 DEF SummaryInv

\* What the end of the payload makes of what is held
LEMMA PiecesDone ==
    ASSUME Chain, Chain', Coming, Coming', Done, Latest.response.type # Unknown
    PROVE  /\ \A p \in Pairs : Len(Pieces[p]) \in Nat
           /\ \A k \in Kinds : Len(Pieces[k]) = Len(comp[k].held)
           /\ Sound /\ Sound' /\ IsSingle =>
                 Len(Pieces["lzw"]) + Len(coder'[pair].node[2]) = Len(coder[pair].node[2])
  <1>1. IsOn /\ IsConnected' /\ IsComplete' /\ IsConnected /\ ~IsComplete
    BY SourcesDone DEF Chain, IsComplete, IsOn
  <1>2. /\ Passed([k \in Kinds |-> Closed(comp[k])]) /\ Close(pair)
        /\ payload' = payload /\ pair \in Dicts /\ pair' = pair /\ UNCHANGED dictVars
    BY DEF Done, OnHttpDone, CloseCompressors, configVars, Chain, Sources
  <1>3. CodecTypes /\ \A k \in Kinds : Streams(k)
    BY <1>1 DEF Coming, Streaming
  <1>4. ASSUME NEW k \in Kinds
        PROVE  Len(Pieces[k]) \in Nat /\ Len(Pieces[k]) = Len(comp[k].held)
    <2>1. PICK t \in Seq(Bytes) : t = Decompressed(k, decompAt[k], Closed(comp[k])) /\ back[k] \o t = payload
      BY <1>3, CloseStreams
    <2>2. back'[k] = back[k] \o t
      BY <1>2, <2>1 DEF Passed
    <2>3. PICK s \in Seq(Bytes), h \in Seq(Bytes) : s = back[k] /\ h = comp[k].held
      BY <1>3 DEF CodecTypes, CompType
    <2>4. s \o h = s \o t
      BY <1>3, <2>1, <2>3 DEF Streams
    <2>5. Len(t) = Len(h) /\ Len(t) \in Nat
      <3>1. Len(s) \in Nat /\ Len(t) \in Nat /\ Len(h) \in Nat
        BY LengthsAdd
      <3>2. Len(s \o t) = Len(s) + Len(t) /\ Len(s \o h) = Len(s) + Len(h)
        BY LengthsAdd
      <3>3. Len(s) + Len(t) = Len(s) + Len(h)
        BY <2>4, <3>2, Zenon
      <3> QED
        BY <3>1, <3>3
    <2>6. Pieces[k] = SubSeq(back'[k], Len(back[k]) + 1, Len(back'[k]))
      BY DEF Pieces, Pairs, Kinds
    <2>7. Len(Pieces[k]) = Len(t)
      <3>1. Len(SubSeq(s \o t, Len(s) + 1, Len(s \o t))) = Len(t)
        BY LengthOfNew
      <3> QED
        BY <2>2, <2>3, <2>6, <3>1
    <2> QED
      BY <2>3, <2>5, <2>7
  <1> DEFINE c == Flushed(coder[pair], pair)
  <1>5. PICK t \in Seq(Bytes) : t = Decoded(pair, c.out)
    <2>1. Shape /\ coder[pair].out = <<>>
      BY <1>1 DEF Chain, IsOpen
    <2>2. CASE coder[pair].node = Root(pair)
      BY <2>1, <2>2, EmptySeq DEF Flushed, Decoded
    <2>3. CASE coder[pair].node # Root(pair)
      <3>1. coder[pair].node \in DOMAIN encTree
        BY <1>2, <2>1, <2>3 DEF Shape, Standing
      <3>2. Append(<<>>, encTree[coder[pair].node]) = <<encTree[coder[pair].node]>>
        OBVIOUS
      <3>3. c = [node |-> Root(pair), out |-> <<encTree[coder[pair].node]>>]
        BY <2>1, <2>3, <3>2 DEF Flushed
      <3> HIDE DEF c
      <3>4. encTree[coder[pair].node] \in 0 .. MaxIdx
        BY <2>1, <3>1 DEF Shape, DictTypeOK
      <3>5. dec[<<pair, encTree[coder[pair].node]>>] \in Seq(Bytes)
        BY <1>2, <2>1, <3>4 DEF Shape, DictTypeOK, Indices
      <3>6. Decoded(pair, c.out) = dec[<<pair, encTree[coder[pair].node]>>]
        BY <3>3 DEF Decoded
      <3> QED
        BY <3>5, <3>6
    <2> QED
      BY <2>2, <2>3
  <1>6. given'[pair] = given[pair] \o t /\ taken' = taken
    BY <1>2, <1>5 DEF Close, Chain, Shape, PairTypeOK
  <1>7. Pieces["lzw"] = SubSeq(given'[pair], Len(given[pair]) + 1, Len(given'[pair]))
    BY DEF Pieces, Pairs
  <1>8. Len(Pieces["lzw"]) = Len(t) /\ Len(t) \in Nat
    BY <1>2, <1>6, <1>7, PieceOfLZW DEF Chain
  <1>9. ASSUME Sound, Sound', IsSingle
        PROVE  Len(Pieces["lzw"]) + Len(coder'[pair].node[2]) = Len(coder[pair].node[2])
    <2>1. IsSingle'
      BY <1>2, <1>9 DEF IsSingle, dictVars
    <2>2. PICK g \in Seq(Bytes), h \in Seq(Bytes), h2 \in Seq(Bytes), w \in Seq(Bytes) :
             /\ g = given[pair] /\ w = taken[pair]
             /\ h = coder[pair].node[2] /\ h2 = coder'[pair].node[2]
      BY <1>2, <1>9 DEF Sound, Shape, PairTypeOK
    <2>3. g \o h = w /\ (g \o t) \o h2 = w
      BY <1>2, <1>6, <1>9, <2>1, <2>2 DEF Sound, RoundTrip
    <2>4. Len(g) \in Nat /\ Len(h) \in Nat /\ Len(h2) \in Nat /\ g \o t \in Seq(Bytes)
      BY LengthsAdd, ConcatProperties
    <2>5. Len(g \o h) = Len(g) + Len(h) /\ Len(g \o t) = Len(g) + Len(t)
      BY LengthsAdd
    <2>6. Len((g \o t) \o h2) = Len(g \o t) + Len(h2)
      BY <2>4, LengthsAdd
    <2>7. Len(g) + Len(h) = (Len(g) + Len(t)) + Len(h2)
      BY <2>3, <2>5, <2>6, Zenon
    <2>8. Len(t) + Len(h2) = Len(h)
      <3> DEFINE x == Len(g)
                 y == Len(t)
                 u == Len(h)
                 v == Len(h2)
      <3>1. x \in Nat /\ y \in Nat /\ u \in Nat /\ v \in Nat /\ x + u = (x + y) + v
        BY <1>8, <2>4, <2>7
      <3> HIDE DEF x, y, u, v
      <3>2. y + v = u
        BY <3>1
      <3> QED
        BY <3>2 DEF y, u, v
    <2> QED
      BY <1>8, <2>2, <2>8
  <1>10. ASSUME NEW p \in Pairs PROVE Len(Pieces[p]) \in Nat
    BY <1>4, <1>8 DEF Pairs
  <1> QED
    BY <1>4, <1>9, <1>10

\* Whatever else becomes of the latest response, what came of it stays.
LEMMA LatestSame ==
    ASSUME Sources, IsConnected, NEW state, NEW interrupted,
           [Latest EXCEPT !.state = state, !.interrupted = interrupted] \in Telling,
           told' = [told EXCEPT ![Len(told)] =
                       [Latest EXCEPT !.state = state, !.interrupted = interrupted]]
    PROVE  /\ SameBytes /\ Len(told') = Len(told) /\ Len(told) \in DOMAIN told
           /\ \A i \in DOMAIN told : told'[i].state = IF i = Len(told) THEN state ELSE told[i].state
  <1> DEFINE t == [Latest EXCEPT !.state = state, !.interrupted = interrupted]
  <1>1. Latest \in Telling /\ Len(told) \in 1 .. Len(told)
    BY LatestIsTold
  <1>2. t \in Telling /\ t.state = state /\ t.response = Latest.response /\ t.bytes = Latest.bytes
    BY <1>1 DEF Telling
  <1>3. told' = [told EXCEPT ![Len(told)] = t]
    OBVIOUS
  <1> HIDE DEF t
  <1>4. told' \in Seq(Telling) /\ Len(told') = Len(told) /\ told \in Seq(Telling)
        /\ \A i \in 1 .. Len(told) : told'[i] = IF i = Len(told) THEN t ELSE told[i]
    BY <1>1, <1>2, <1>3, ExceptSeq DEF Sources
  <1>5. DOMAIN told = 1 .. Len(told) /\ DOMAIN told' = 1 .. Len(told)
    BY <1>4, LenProperties
  <1> QED
    BY <1>1, <1>2, <1>4, <1>5 DEF SameBytes, Latest

\* What is told of a response that was told of before
LEMMA StatesDone ==
    ASSUME Sources, Done
    PROVE  /\ SameBytes /\ Len(told') = Len(told) /\ Len(told) \in DOMAIN told
           /\ \A i \in DOMAIN told : told'[i].state = IF i = Len(told) THEN "done" ELSE told[i].state
  <1>1. IsConnected /\ Latest \in Telling
    BY LatestIsTold DEF Done, IsOn
  <1>2. [Latest EXCEPT !.state = "done"] = [Latest EXCEPT !.state = "done", !.interrupted = Latest.interrupted]
    BY <1>1 DEF Telling
  <1>3. [Latest EXCEPT !.state = "done", !.interrupted = Latest.interrupted] \in Telling
    BY <1>1 DEF Telling
  <1>4. told' = [told EXCEPT ![Len(told)] = [Latest EXCEPT !.state = "done"]]
    BY DEF Done, Latest
  <1> QED
    BY <1>1, <1>2, <1>3, <1>4, LatestSame

\* The end of a request ends no response.
LEMMA StatesRequestDone ==
    ASSUME Sources, RequestDone
    PROVE  /\ SameBytes /\ Len(told') = Len(told)
           /\ \A i \in DOMAIN told : told'[i].state = told[i].state
  <1>1. IsConnected /\ Latest \in Telling
    BY LatestIsTold DEF RequestDone
  <1> DEFINE int == Latest.interrupted \/ IsOn
  <1>2. [Latest EXCEPT !.interrupted = int] = [Latest EXCEPT !.state = Latest.state, !.interrupted = int]
    BY <1>1 DEF Telling
  <1>3. int \in BOOLEAN
    OBVIOUS
  <1>4. told' = [told EXCEPT ![Len(told)] = [Latest EXCEPT !.interrupted = int]]
    BY DEF RequestDone, Latest
  <1> HIDE DEF int
  <1>5. [Latest EXCEPT !.state = Latest.state, !.interrupted = int] \in Telling
    BY <1>1, <1>3 DEF Telling
  <1>6. told' = [told EXCEPT ![Len(told)] = [Latest EXCEPT !.state = Latest.state, !.interrupted = int]]
    BY <1>2, <1>4
  <1>7. \A i \in DOMAIN told : told'[i].state = IF i = Len(told) THEN Latest.state ELSE told[i].state
    BY <1>1, <1>5, <1>6, LatestSame
  <1> QED
    BY <1>1, <1>5, <1>6, <1>7, LatestSame DEF Latest

\* The end of a connection cuts off the response that is on.
LEMMA StatesDisconnect ==
    ASSUME Sources, Disconnect
    PROVE  /\ SameBytes /\ Len(told') = Len(told) /\ Len(told) \in DOMAIN told
           /\ \A i \in DOMAIN told :
                 told'[i].state = IF i = Len(told) /\ told[i].state = "on" THEN "cut" ELSE told[i].state
  <1>1. IsConnected /\ Latest \in Telling
    BY LatestIsTold DEF Disconnect
  <1> DEFINE st == IF Latest.state = "on" THEN "cut" ELSE Latest.state
  <1>2. [Latest EXCEPT !.state = st] = [Latest EXCEPT !.state = st, !.interrupted = Latest.interrupted]
    BY <1>1 DEF Telling
  <1>3. [Latest EXCEPT !.state = st, !.interrupted = Latest.interrupted] \in Telling
    BY <1>1 DEF Telling
  <1>4. told' = [told EXCEPT ![Len(told)] = [Latest EXCEPT !.state = st]]
    BY DEF Disconnect, Latest
  <1>5. told' = [told EXCEPT ![Len(told)] = [Latest EXCEPT !.state = st, !.interrupted = Latest.interrupted]]
    BY <1>2, <1>4
  <1>6. \A i \in DOMAIN told : told'[i].state = IF i = Len(told) THEN st ELSE told[i].state
    <2> HIDE DEF st
    <2> QED
      BY <1>1, <1>3, <1>5, LatestSame
  <1>7. SameBytes /\ Len(told') = Len(told) /\ Len(told) \in DOMAIN told
    <2> HIDE DEF st
    <2> QED
      BY <1>1, <1>3, <1>5, LatestSame
  <1> QED
    BY <1>6, <1>7 DEF Latest

\* What is known of the counters stays, whatever becomes of the states.
LEMMA SummaryIsStays ==
    ASSUME Sources, SummaryIs, SameBytes, Len(told') = Len(told),
           DOMAIN summary' = {"stats", "counter"}, summary'.stats \in [AllTypes -> [Classes -> StatsType]],
           \A i \in DOMAIN told : told'[i].state = "on" => IsOn' /\ i = Len(told),
           IsOn' => IsOn /\ UNCHANGED statsByLatency
    PROVE  SummaryIs'
  <1>1. BytesOf(DOMAIN told)' = BytesOf(DOMAIN told)
    BY SameSums
  <1>2. IsOn => Len(told) \in DOMAIN told
    BY LatestIsTold, ToldIs DEF IsOn
  <1>3. IsOn' => Latest'.response = Latest.response
    BY <1>2 DEF SameBytes, Latest
  <1> QED
    BY <1>1, <1>3 DEF SummaryIs, SameBytes

\* What fitted with more still fits.
LEMMA StillFits ==
    ASSUME NEW c \in Nat, NEW all \in Nat, NEW held \in Nat, NEW kept \in Nat,
           c + held <= all, kept <= held
    PROVE  c + kept <= all
  OBVIOUS

\* Nothing is counted: what is known stays, though the latest response may end,
\* if it is cut off or has no type.
LEMMA SummaryStays ==
    ASSUME Sources, Coming, Coming', SummaryInv, SameBytes, Len(told') = Len(told), UNCHANGED summary,
           \A i \in DOMAIN told : told'[i].state = "on" => IsOn' /\ i = Len(told),
           \A i \in DOMAIN told : told[i].state = "cut" => told'[i].state = "cut",
           IsOn' => IsOn /\ UNCHANGED <<statsByLatency, comp>>,
           IsOn => IsOn' \/ Latest.response.type = Unknown \/ told'[Len(told)].state = "cut",
           IsSingle' => IsSingle,
           NEW held \in Nat, held = Len(coder[pair].node[2]),
           NEW kept \in Nat, kept = Len(coder'[pair'].node[2]), kept <= held
    PROVE  SummaryInv'
  <1>1. SummaryIs'
    BY SummaryIsStays DEF SummaryInv, SummaryIs
  <1>2. ASSUME NEW type \in AllTypes, NEW class \in Classes PROVE Tells(type, class)'
    <2>1. PICK s : s = summary.stats[type][class] /\ s = summary'.stats[type][class]
      OBVIOUS
    <2>2. ASSUME NEW k \in Kinds
          PROVE  \/ s.decompressed[k] + Awaited(type, class, k)' = s.decompressed[k] + Awaited(type, class, k)
                 \/ /\ s.decompressed[k] + Awaited(type, class, k)' <= s.decompressed[k] + Awaited(type, class, k)
                    /\ type = Unknown \/ \E i \in Matching(type, class) : told'[i].state = "cut"
      <3>1. CASE IsOn'
        <4>1. Len(told) \in DOMAIN told
          BY <3>1, LatestIsTold, ToldIs DEF IsOn
        <4>2. Latest'.response = Latest.response
          BY <4>1 DEF SameBytes, Latest
        <4> QED
          BY <3>1, <4>2 DEF Awaited
      <3>2. CASE ~IsOn /\ ~IsOn'
        BY <3>2 DEF Awaited
      <3>3. CASE IsOn /\ ~IsOn' /\ ~Covers(Latest.response, type, class)
        BY <3>3 DEF Awaited
      <3>4. CASE IsOn /\ ~IsOn' /\ Covers(Latest.response, type, class)
        <4>1. Awaited(type, class, k)' = 0
          BY <3>4 DEF Awaited
        <4>2. Awaited(type, class, k) \in Nat
          BY AwaitedIs
        <4>3. s.decompressed[k] \in Nat
          BY <2>1, StatsAre DEF SummaryInv, Pairs
        <4>4. Len(told) \in Matching(type, class)
          <5>1. Len(told) \in DOMAIN told
            BY <3>4, LatestIsTold, ToldIs DEF IsOn
          <5> QED
            BY <3>4, <5>1 DEF Matching, Covers, Latest
        <4>5. type = Unknown \/ told'[Len(told)].state = "cut"
          BY <3>4 DEF Covers
        <4> QED
          BY <4>1, <4>2, <4>3, <4>4, <4>5
      <3> QED
        BY <3>1, <3>2, <3>3, <3>4
    <2>3. Tells(type, class) /\ SummaryIs
      BY DEF SummaryInv
    <2> QED
      BY <1>1, <2>1, <2>2, <2>3, TellsOn
  <1>3. LZWTells'
    <2>1. CountedLZW' = CountedLZW
      BY DEF CountedLZW
    <2>2. PayloadSoFar' = PayloadSoFar
      BY SameSums DEF PayloadSoFar
    <2>3. IsFiniteSet(CountedLZW) /\ (IsSingle => Cardinality(CountedLZW) + held <= PayloadSoFar)
      BY DEF SummaryInv, LZWTells
    <2>4. Cardinality(CountedLZW) \in Nat /\ PayloadSoFar \in Nat
      BY <2>3, FS_CardinalityType DEF SummaryInv, SummaryIs, PayloadSoFar
    <2>5. ASSUME IsSingle' PROVE Cardinality(CountedLZW) + kept <= PayloadSoFar
      BY <2>3, <2>4, <2>5, StillFits
    <2> QED
      BY <2>1, <2>2, <2>3, <2>5 DEF LZWTells
  <1> QED
    BY <1>1, <1>2, <1>3 DEF SummaryInv

\* What the encoder of the pair holds has a length.
LEMMA HeldIs ==
    ASSUME Chain
    PROVE  Len(coder[pair].node[2]) \in Nat
  <1>1. coder[pair].node[2] \in Seq(Bytes)
    BY DEF Chain, Sources, Shape, PairTypeOK
  <1> QED
    BY <1>1, LenProperties

\* A response is done: what was held of it comes and is counted, if it has a type.
LEMMA TellsDone ==
    ASSUME Chain, Chain', Coming, Coming', Sound, Sound', SummaryInv, Done
    PROVE  SummaryInv'
  <1>1. Sources /\ SummaryIs /\ IsOn /\ ~IsOn' /\ Latest'.response = Latest.response
    BY SourcesDone DEF Chain, SummaryInv, IsOn
  <1>2. /\ SameBytes /\ Len(told') = Len(told) /\ Len(told) \in DOMAIN told
        /\ \A i \in DOMAIN told : told'[i].state = IF i = Len(told) THEN "done" ELSE told[i].state
    BY <1>1, StatesDone
  <1>3. \A i \in DOMAIN told : told'[i].state # "on"
    BY <1>1, <1>2 DEF SummaryIs
  <1>4. \A i \in DOMAIN told : told[i].state = "cut" => told'[i].state = "cut"
    BY <1>1, <1>2 DEF IsOn, Latest
  <1>5. PICK held \in Nat : held = Len(coder[pair].node[2])
    BY HeldIs
  <1>6. pair' = pair /\ UNCHANGED dictVars /\ (IsSingle' <=> IsSingle)
    BY DEF Done, configVars, IsSingle, dictVars
  <1>7. PICK kept \in Nat : kept = Len(coder'[pair'].node[2])
    <2>1. coder'[pair'].node[2] \in Seq(Bytes)
      BY DEF Chain, Sources, Shape, PairTypeOK
    <2> QED
      BY <2>1, LenProperties
  <1>8. CASE Latest.response.type = Unknown
    <2>1. UNCHANGED <<analyzerVars, pairVars>>
      BY <1>8 DEF Done, OnHttpDone
    <2>2. UNCHANGED <<summary, coder>>
      BY <2>1 DEF analyzerVars, pairVars
    <2>3. kept <= held
      BY <1>5, <1>6, <1>7, <2>2
    <2> QED
      BY <1>1, <1>2, <1>3, <1>4, <1>5, <1>6, <1>7, <1>8, <2>2, <2>3, SummaryStays
  <1>9. CASE Latest.response.type # Unknown
    <2>0. PICK r \in Responses : r = Latest.response
      <3>1. Latest \in Telling
        BY <1>1, LatestIsTold DEF IsOn
      <3>2. Latest.response \in Responses
        BY <3>1, Zenon DEF Telling
      <3> QED
        BY <3>2
    <2>1. PICK pieces : pieces = Pieces /\ r = Latest.response
      BY <2>0
    <2>2. /\ \A p \in Pairs : Len(pieces[p]) \in Nat
          /\ \A k \in Kinds : Len(pieces[k]) = Len(comp[k].held)
          /\ IsSingle => Len(pieces["lzw"]) + kept = held
      BY <1>5, <1>6, <1>7, <1>9, <2>1, PiecesDone
    <2>3. /\ DOMAIN summary' = {"stats", "counter"}
          /\ summary'.stats \in [AllTypes -> [Classes -> StatsType]]
          /\ \A type \in AllTypes, class \in Classes :
                summary'.stats[type][class] =
                   IF Covers(r, type, class) THEN Sized(summary.stats[type][class], pieces)
                   ELSE summary.stats[type][class]
      BY <1>1, <1>9, <2>1, <2>2, StatsDone
    <2>4. SummaryIs'
      BY <1>1, <1>2, <1>3, <2>3, SummaryIsStays
    <2>5. ASSUME NEW type \in AllTypes, NEW class \in Classes PROVE Tells(type, class)'
      <3>1. PICK was, is : was = summary.stats[type][class] /\ is = summary'.stats[type][class]
        OBVIOUS
      <3>2. was \in StatsType
        BY <1>1, <3>1, StatsAre
      <3>3. Adding(was, pieces, Sized(was, pieces)) /\ Sized(was, pieces).sizePayload = was.sizePayload
        BY <2>2, <3>2, PiecesCounted
      <3>4. is = IF Covers(r, type, class) THEN Sized(was, pieces) ELSE was
        BY <2>3, <3>1
      <3>5. /\ is.numHeaders = was.numHeaders /\ is.latencies = was.latencies
            /\ is.sizePayload = was.sizePayload
        BY <3>3, <3>4 DEF Adding
      <3>6. ASSUME NEW k \in Kinds
            PROVE  is.decompressed[k] + Awaited(type, class, k)' = was.decompressed[k] + Awaited(type, class, k)
        <4>1. Awaited(type, class, k)' = 0
          BY <1>1 DEF Awaited
        <4>2. k \in Pairs /\ was.decompressed[k] \in Nat
          BY <3>2 DEF Pairs, StatsType
        <4>3. CASE ~Covers(r, type, class)
          <5>1. Awaited(type, class, k) = 0
            BY <2>1, <4>3 DEF Awaited
          <5> QED
            BY <3>4, <4>1, <4>3, <5>1
        <4>4. CASE Covers(r, type, class)
          <5>1. Awaited(type, class, k) = Len(comp[k].held)
            BY <1>1, <2>1, <4>4 DEF Awaited
          <5>2. is.decompressed[k] = was.decompressed[k] + Len(comp[k].held)
            BY <2>2, <3>3, <3>4, <4>2, <4>4 DEF Adding
          <5>3. Len(comp[k].held) \in Nat
            BY <2>2, <4>2
          <5> DEFINE x == was.decompressed[k]
                     u == Len(comp[k].held)
          <5>4. x \in Nat /\ u \in Nat
            BY <4>2, <5>3
          <5> HIDE DEF x, u
          <5>5. (x + u) + 0 = x + u
            BY <5>4
          <5> QED
            BY <4>1, <5>1, <5>2, <5>5, Zenon DEF x, u
        <4> QED
          BY <4>3, <4>4
      <3>7. Tells(type, class)
        BY DEF SummaryInv
      <3> QED
        BY <1>1, <1>2, <1>4, <2>4, <3>1, <3>5, <3>6, <3>7, TellsOn
    <2>6. LZWTells'
      <3>1. PICK n \in Nat : n = Len(pieces["lzw"])
        BY <2>2 DEF Pairs
      <3>2. ASSUME NEW type \in AllTypes
            PROVE  summary'.stats[type]["response"].decompressed["lzw"] =
                      IF type = r.type THEN summary.stats[type]["response"].decompressed["lzw"] + n
                      ELSE summary.stats[type]["response"].decompressed["lzw"]
        <4>1. "response" \in Classes /\ "lzw" \in Pairs
          BY DEF Classes, Pairs
        <4>2. summary.stats[type]["response"] \in StatsType
          BY <1>1, <4>1, StatsAre
        <4>3. CASE type = r.type
          <5>1. summary'.stats[type]["response"] = Sized(summary.stats[type]["response"], pieces)
            BY <2>3, <4>1, <4>3 DEF Covers
          <5>2. Adding(summary.stats[type]["response"], pieces, Sized(summary.stats[type]["response"], pieces))
            BY <2>2, <4>2, PiecesCounted
          <5> QED
            BY <3>1, <4>1, <4>3, <5>1, <5>2 DEF Adding
        <4>4. CASE type # r.type
          BY <2>3, <4>1, <4>4 DEF Covers
        <4> QED
          BY <4>3, <4>4
      <3>3. r.type \in AllTypes
        BY ClassIs
      <3>4. IsFiniteSet(CountedLZW)' /\ Cardinality(CountedLZW)' = Cardinality(CountedLZW) + n
        BY <1>1, <2>4, <3>2, <3>3, LZWAdds DEF SummaryInv, LZWTells
      <3>5. PayloadSoFar' = PayloadSoFar
        BY <1>2, SameSums DEF PayloadSoFar
      <3>6. ASSUME IsSingle PROVE Cardinality(CountedLZW)' + kept <= PayloadSoFar'
        <4>1. Cardinality(CountedLZW) \in Nat /\ PayloadSoFar \in Nat
          BY FS_CardinalityType DEF SummaryInv, LZWTells, SummaryIs, PayloadSoFar
        <4>2. Cardinality(CountedLZW) + held <= PayloadSoFar /\ n + kept = held
          BY <1>5, <2>2, <3>1, <3>6 DEF SummaryInv, LZWTells
        <4> QED
          BY <3>4, <3>5, <4>1, <4>2
      <3> QED
        BY <1>6, <1>7, <3>4, <3>6 DEF LZWTells
    <2> QED
      BY <2>4, <2>5, <2>6 DEF SummaryInv
  <1> QED
    BY <1>8, <1>9

\* Neither the end of a request nor that of a connection is counted.
LEMMA TellsRequestDone ==
    ASSUME Chain, Coming, Coming', SummaryInv, RequestDone
    PROVE  SummaryInv'
  <1>1. Sources /\ SummaryIs
    BY DEF Chain, SummaryInv
  <1>2. /\ IsOn' <=> IsOn
        /\ UNCHANGED <<summary, statsByLatency, comp, coder, pair>> /\ (IsSingle' => IsSingle)
    <2>1. UNCHANGED <<dictVars, pairVars, configVars, analyzerVars>>
      BY DEF RequestDone
    <2>2. UNCHANGED <<summary, statsByLatency, comp, coder, pair, readers>>
      BY <2>1 DEF dictVars, pairVars, configVars, analyzerVars
    <2>3. IsConnected /\ IsConnected' /\ Latest'.state = Latest.state
      BY <1>1, SourcesRequestDone
    <2> QED
      BY <2>2, <2>3 DEF IsOn, IsSingle
  <1>3. /\ SameBytes /\ Len(told') = Len(told)
        /\ \A i \in DOMAIN told : told'[i].state = told[i].state
    BY <1>1, StatesRequestDone
  <1>4. \A i \in DOMAIN told : told'[i].state = "on" => IsOn' /\ i = Len(told)
    BY <1>1, <1>2, <1>3 DEF SummaryIs
  <1>5. PICK held \in Nat : held = Len(coder[pair].node[2])
    BY HeldIs
  <1>6. held = Len(coder'[pair'].node[2]) /\ held <= held
    BY <1>2, <1>5
  <1> QED
    BY <1>1, <1>2, <1>3, <1>4, <1>5, <1>6, SummaryStays

\* What is held of a response that is cut off is lost and never counted.
LEMMA TellsDisconnect ==
    ASSUME Chain, Coming, Coming', SummaryInv, Disconnect
    PROVE  SummaryInv'
  <1>1. Sources /\ SummaryIs /\ ~IsOn'
    BY SourcesDisconnect DEF Chain, SummaryInv, IsOn
  <1>2. Create(pair) /\ UNCHANGED <<summary, pair>> /\ (IsSingle' => IsSingle)
    BY DEF Disconnect, OnHttpClose, configVars, dictVars, IsSingle
  <1>3. /\ SameBytes /\ Len(told') = Len(told) /\ Len(told) \in DOMAIN told
        /\ \A i \in DOMAIN told :
              told'[i].state = IF i = Len(told) /\ told[i].state = "on" THEN "cut" ELSE told[i].state
    BY <1>1, StatesDisconnect
  <1>4. \A i \in DOMAIN told : told'[i].state # "on"
    BY <1>1, <1>3 DEF SummaryIs
  <1>5. IsOn => told'[Len(told)].state = "cut"
    BY <1>3 DEF IsOn, Latest
  <1>6. \A i \in DOMAIN told : told[i].state = "cut" => told'[i].state = "cut"
    BY <1>3
  <1>7. PICK held \in Nat : held = Len(coder[pair].node[2])
    BY HeldIs
  <1>8. coder'[pair'].node[2] = <<>>
    BY <1>2 DEF Create, Root, Chain, Sources, Shape, PairTypeOK
  <1>9. 0 = Len(coder'[pair'].node[2]) /\ 0 \in Nat /\ 0 <= held
    BY <1>7, <1>8, EmptySeq
  <1> QED
    BY <1>1, <1>2, <1>3, <1>4, <1>5, <1>6, <1>7, <1>9, SummaryStays

\* What a dictionary reads makes no difference, and at most one more has read.
LEMMA TellsLoad ==
    ASSUME Chain, Coming, Coming', SummaryInv, Load \/ UNCHANGED vars
    PROVE  SummaryInv'
  <1>1. Sources /\ SummaryIs
    BY DEF Chain, SummaryInv
  <1>2. UNCHANGED <<told, connected, summary, statsByLatency, comp, coder, pair>> /\ (IsSingle' => IsSingle)
    <2>1. CASE Load
      <3>1. UNCHANGED <<pairVars, configVars, analyzerVars, told, connected>>
        BY <2>1 DEF Load
      <3>2. \E d \in Dicts, b \in Bytes : AppendByte(d, b)
        BY <1>1, <2>1, SourcesLoad
      <3>3. readers \subseteq readers'
        BY <3>2 DEF AppendByte
      <3> QED
        BY <3>1, <3>3 DEF pairVars, configVars, analyzerVars, IsSingle
    <2>2. CASE UNCHANGED vars
      BY <2>2 DEF vars, dictVars, pairVars, configVars, analyzerVars, sourceVars, IsSingle
    <2> QED
      BY <2>1, <2>2
  <1>3. SameBytes /\ (IsOn' <=> IsOn)
    BY <1>2 DEF SameBytes, IsOn, IsConnected, Latest
  <1>4. \A i \in DOMAIN told : told'[i].state = "on" => IsOn' /\ i = Len(told)
    BY <1>1, <1>2, <1>3 DEF SummaryIs
  <1>5. PICK held \in Nat : held = Len(coder[pair].node[2])
    BY HeldIs
  <1>6. held = Len(coder'[pair'].node[2]) /\ held <= held
    BY <1>2, <1>5
  <1>7. \A i \in DOMAIN told : told[i].state = "cut" => told'[i].state = "cut"
    BY <1>2
  <1> QED
    BY <1>1, <1>2, <1>3, <1>4, <1>5, <1>6, <1>7, SummaryStays

\* Every step keeps the invariant.
LEMMA SummaryStep ==
    ASSUME Chain, Chain', Coming, Coming', Sound, Sound', SummaryInv, [Next]_vars
    PROVE  SummaryInv'
  BY TellsLoad, TellsRespond, TellsTraffic, TellsDone, TellsRequestDone, TellsDisconnect DEF Next

\* Nothing has come, and nothing is counted.
LEMMA SummaryInit == Init => SummaryInv
  <1> SUFFICES ASSUME Init PROVE SummaryInv
    OBVIOUS
  <1>1. told = <<>> /\ connected = 0 /\ Len(told) = 0 /\ DOMAIN told = {}
    BY EmptySeq DEF Init
  <1>2. ~IsOn
    BY <1>1 DEF IsOn, IsConnected
  <1>3. DOMAIN summary = {"stats", "counter"} /\ summary.stats = [type \in AllTypes |-> NewContentType]
    BY DEF Init, AnalyzerInit
  <1>4. NewStats \in StatsType
    BY DEF NewStats, StatsType
  <1>5. summary.stats \in [AllTypes -> [Classes -> StatsType]]
    BY <1>3, <1>4 DEF NewContentType
  <1>6. IsFiniteSet({}) /\ Cardinality({}) = 0
    BY FS_EmptySet
  <1>7. BytesOf(DOMAIN told) = {} /\ PayloadSoFar = 0
    BY <1>1, <1>6 DEF BytesOf, PayloadSoFar
  <1>8. SummaryIs
    BY <1>1, <1>2, <1>3, <1>5, <1>6, <1>7 DEF SummaryIs
  <1>9. ASSUME NEW type \in AllTypes, NEW class \in Classes PROVE Tells(type, class)
    <2>1. summary.stats[type][class] = NewStats
      BY <1>3 DEF NewContentType
    <2>2. Matching(type, class) = {}
      BY <1>1 DEF Matching
    <2>3. BytesOf(Matching(type, class)) = {}
      BY <2>2 DEF BytesOf
    <2>4. {i \in Matching(type, class) : told[i].response.latency <= MaxLatency} = {}
      BY <2>2
    <2>5. \A k \in Kinds : NewStats.decompressed[k] = 0 /\ Awaited(type, class, k) = 0
      BY <1>2 DEF NewStats, Awaited, Pairs
    <2> QED
      BY <1>6, <2>1, <2>2, <2>3, <2>4, <2>5 DEF Tells, NewStats
  <1>10. LZWTells
    <2>1. \A type \in AllTypes : summary.stats[type]["response"].decompressed["lzw"] = 0
      BY <1>3 DEF NewContentType, NewStats, Classes, Pairs
    <2>2. CountedLZW = {}
      BY <2>1 DEF CountedLZW
    <2>3. Len(coder[pair].node[2]) = 0
      <3>1. pair \in Dicts
        BY SourcesInit DEF Sources
      <3>2. coder[pair].node[2] = <<>>
        BY <3>1 DEF Init, AnalyzerInit, PairInit, Root
      <3> QED
        BY <3>2, EmptySeq
    <2> QED
      BY <1>6, <1>7, <2>2, <2>3 DEF LZWTells
  <1> QED
    BY <1>8, <1>9, <1>10 DEF SummaryInv

\* The Summary counts each response, its payload and what every decompressor
\* gives of it exactly once, whatever was cut off or has no type; and what
\* LZWDict decompresses is never more than what came.
THEOREM SummaryIsRight == Spec => []SummaryTells
  <1>1. Chain /\ [Next]_vars => Chain'
    BY LZWStep, ChainStutters
  <1>2. Init => Chain /\ Coming /\ SummaryInv
    BY ChainInit, ComingInit, SummaryInit
  <1>3. Spec => []Sound
    BY UsesLZWDict, SoundAlways, PTL
  <1>4. Chain /\ Chain' /\ Coming /\ Coming' /\ Sound /\ Sound' /\ SummaryInv /\ [Next]_vars => SummaryInv'
    BY SummaryStep
  <1>5. QED
    BY <1>1, <1>2, <1>3, <1>4, ComingStep, SummaryInvTells, PTL DEF Spec

=============================================================================
