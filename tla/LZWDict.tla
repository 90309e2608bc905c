------------------------------ MODULE LZWDict ------------------------------
(***************************************************************************)
(* The dictionaries behind the LZW codec (compression/lzwDict): a tree of  *)
(* words for encoding, an array of words for decoding, both built from a   *)
(* text that is read byte by byte.  A node of a tree is its dictionary and *)
(* the word that leads to it from the root.                                *)
(*                                                                         *)
(* The cursor of append() is static: the dictionary that reads first sets  *)
(* it, and all share it, so what one dictionary reads may begin inside the *)
(* tree of another.                                                        *)
(***************************************************************************)
EXTENDS Integers, Sequences

CONSTANTS
    Dicts,      \* the dictionaries
    NumBytes,   \* how many bytes there are (256 in the code)
    MaxIdx,     \* LZW_DICT_MAX_IDX, the last index of a dictionary
    WordLen     \* LZW_WORD_LEN, the bytes a word has room for

ASSUME LZWAssumption ==
    /\ NumBytes \in Nat \ {0}
    /\ WordLen \in Nat \ {0}
    /\ MaxIdx \in Nat /\ MaxIdx >= NumBytes

VARIABLES
    encTree,    \* the index of every node but the roots
    dec,        \* the word behind each index of a dictionary
    nextIdx,    \* the index for the next word of a dictionary
    curNode,    \* the node append() has reached
    pending,    \* the word append() has read since the root
    readers     \* the dictionaries that append() was called for

dictVars == <<encTree, dec, nextIdx, curNode, pending, readers>>

Bytes == 0 .. NumBytes - 1
Indices == Dicts \X (0 .. MaxIdx)

\* LZW_DICT_EOF has the index after the bytes, and no word.
EOF == NumBytes

Root(d) == <<d, <<>>>>
Below(n, b) == <<n[1], Append(n[2], b)>>
Letters == Dicts \X {<<b>> : b \in Bytes}

DictInit ==
    /\ encTree = [n \in Letters |-> n[2][1]]
    /\ dec = [i \in Indices |-> IF i[2] \in Bytes THEN <<i[2]>> ELSE <<>>]
    /\ nextIdx = [d \in Dicts |-> EOF + 1]
    /\ \E d \in Dicts : curNode = Root(d)   \* set by the first call anyway
    /\ pending = <<>>
    /\ readers = {}

-----------------------------------------------------------------------------
(* append(), one byte *)

IsFull(d) == nextIdx[d] > MaxIdx

\* Mutant of Start: the word is given up, but not the cursor.
StartBelow(d) == IF readers = {} THEN Root(d) ELSE curNode

\* Where the byte is looked up: the first call starts at the root, and a word
\* that has no room left is given up.
Start(d) == IF readers = {} \/ Len(pending) >= WordLen THEN Root(d) ELSE curNode
Longer(b) == Append(IF Len(pending) >= WordLen THEN <<>> ELSE pending, b)

\* The word is known: go on reading it.
Hit(d, b) ==
    /\ Below(Start(d), b) \in DOMAIN encTree
    /\ curNode' = Below(Start(d), b)
    /\ pending' = Longer(b)
    /\ UNCHANGED <<encTree, dec, nextIdx>>

\* Mutant of Miss: the next word gets the same index.
MissAgain(d, b) ==
    LET new == Below(Start(d), b)
    IN  /\ new \notin DOMAIN encTree
        /\ encTree' = [n \in DOMAIN encTree \cup {new} |->
                          IF n = new THEN nextIdx[d] ELSE encTree[n]]
        /\ dec' = [dec EXCEPT ![<<d, nextIdx[d]>>] = Longer(b)]
        /\ curNode' = Below(Root(d), b)
        /\ pending' = <<b>>
        /\ UNCHANGED nextIdx

\* The word is new: it gets the next index, and the byte starts another one.
Miss(d, b) ==
    LET new == Below(Start(d), b)
    IN  /\ new \notin DOMAIN encTree
        /\ encTree' = [n \in DOMAIN encTree \cup {new} |->
                          IF n = new THEN nextIdx[d] ELSE encTree[n]]
        /\ dec' = [dec EXCEPT ![<<d, nextIdx[d]>>] = Longer(b)]
        /\ nextIdx' = [nextIdx EXCEPT ![d] = @ + 1]
        /\ curNode' = Below(Root(d), b)
        /\ pending' = <<b>>

\* The dictionary is full: the text is not read on.
Return(d) ==
    /\ curNode' = IF readers = {} THEN Root(d) ELSE curNode
    /\ UNCHANGED <<encTree, dec, nextIdx, pending>>

AppendByte(d, b) ==
    /\ IF IsFull(d) THEN Return(d) ELSE Hit(d, b) \/ Miss(d, b)
    /\ readers' = readers \cup {d}

-----------------------------------------------------------------------------
(* LZWDictEncoder, one byte: coder.node is its curNode, coder.out the      *)
(* indices it has written to the LZWDictStream.                            *)

Encoded(coder, d, b) ==
    IF Below(coder.node, b) \in DOMAIN encTree
    THEN [coder EXCEPT !.node = Below(coder.node, b)]
    ELSE [node |-> Below(Root(d), b), out |-> Append(coder.out, encTree[coder.node])]

\* Mutant of Flushed: the word goes out, and is held still.
FlushedAndHeld(coder, d) ==
    IF coder.node = Root(d) THEN coder
    ELSE [coder EXCEPT !.out = Append(@, encTree[coder.node])]

\* close(): the word read so far goes out, if there is one
Flushed(coder, d) ==
    IF coder.node = Root(d) THEN coder
    ELSE [node |-> Root(d), out |-> Append(coder.out, encTree[coder.node])]

-----------------------------------------------------------------------------
DictTypeOK ==
    /\ encTree \in [DOMAIN encTree -> 0 .. MaxIdx]
    /\ DOMAIN encTree \subseteq Dicts \X Seq(Bytes)
    /\ dec \in [Indices -> Seq(Bytes)]
    /\ nextIdx \in [Dicts -> EOF + 1 .. MaxIdx + 1]
    /\ curNode \in Dicts \X Seq(Bytes)
    /\ pending \in Seq(Bytes)
    /\ readers \subseteq Dicts

\* The nodes of d whose index stands for another word
Wrong(d) == {n \in DOMAIN encTree : n[1] = d /\ dec[<<d, encTree[n]>>] # n[2]}

=============================================================================
