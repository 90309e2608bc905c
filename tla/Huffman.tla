------------------------------ MODULE Huffman ------------------------------
(***************************************************************************)
(* The Huffman codec (compression/own): HuffmanBuilder makes a tree from   *)
(* how often each symbol occurs, HuffmanTree a table of codes from it, and *)
(* BitstreamOut packs the codes into words of WordBits bits.               *)
(*                                                                         *)
(* A tree is known by the way to each of its leaves, a sequence of 0 for   *)
(* left and 1 for right.                                                   *)
(***************************************************************************)
EXTENDS Integers, Sequences, FiniteSets, TLC, SequencesExt

CONSTANTS
    NumBytes,   \* how many bytes there are (256)
    WordBits,   \* BSO_TYPE_BITS, the bits of a word
    CodeBits    \* the bits a table has for a code (uint32_t)

\* HUFFMAN_EOF follows the bytes.
EndOfStream == NumBytes
Symbols == 0 .. EndOfStream

-----------------------------------------------------------------------------
(* HuffmanBuilder *)

\* How often each symbol occurs, before any was read
EmptyCounter(ensureAllBytes) ==
    [s \in Symbols |-> IF ensureAllBytes \/ s = EndOfStream THEN 1 ELSE 0]

Leaf(s, occurrence) == [occurrence |-> occurrence, codes |-> s :> <<>>]

Joined(left, right) ==
    [occurrence |-> left.occurrence + right.occurrence,
     codes |-> [s \in DOMAIN left.codes |-> <<0>> \o left.codes[s]]
            @@ [s \in DOMAIN right.codes |-> <<1>> \o right.codes[s]]]

\* Into the multiset, the highest occurrence first, behind its equals
Inserted(nodes, node) ==
    LET before == Cardinality({i \in DOMAIN nodes : nodes[i].occurrence >= node.occurrence})
    IN  InsertAt(nodes, before + 1, node)

Leaves(counter) ==
    FoldLeft(LAMBDA nodes, s :
                IF counter[s] = 0 THEN nodes ELSE Inserted(nodes, Leaf(s, counter[s])),
             <<>>, [i \in 1 .. NumBytes + 1 |-> i - 1])

\* Mutant of Combined: the node is put where the two were.
CombinedInPlace(nodes) ==
    Append(SubSeq(nodes, 1, Len(nodes) - 2), Joined(nodes[Len(nodes) - 1], nodes[Len(nodes)]))

\* The last two nodes make one, the rarer of them on its right.
Combined(nodes) ==
    LET n1 == nodes[Len(nodes)]
        n2 == nodes[Len(nodes) - 1]
    IN  Inserted(SubSeq(nodes, 1, Len(nodes) - 2),
                 IF n1.occurrence > n2.occurrence THEN Joined(n1, n2) ELSE Joined(n2, n1))

\* getTree(), as the code of each symbol that occurs
Tree(counter) ==
    LET leaves == Leaves(counter)
    IN  FoldLeft(LAMBDA nodes, i : Combined(nodes), leaves,
                 [i \in 1 .. Len(leaves) - 1 |-> i])[1].codes

ValueOf(bits) == FoldLeft(LAMBDA v, b : (2 * v + b) % 2 ^ CodeBits, 0, bits)

\* fillLUT(): a symbol that never occurs has a code of no bits.
Table(counter) ==
    LET tree == Tree(counter)
    IN  [s \in Symbols |->
            IF s \in DOMAIN tree
            THEN [bitCode |-> ValueOf(tree[s]), numBits |-> Len(tree[s])]
            ELSE [bitCode |-> 0, numBits |-> 0]]

\* getCompressedSize(), in bits: what the bytes that were read would take
CompressedBits(counter) ==
    LET table == Table(counter)
    IN  FoldLeft(LAMBDA sum, s : sum + table[s].numBits * counter[s], 0,
                 [i \in 1 .. NumBytes |-> i - 1])

-----------------------------------------------------------------------------
(* BitstreamOut *)

EmptyStream == [words |-> <<>>, pending |-> 0, bitPos |-> 0]

\* append(): the lowest numBits bits of value, of which at most one word is
\* filled, as a code is not longer than a word. pending keeps the word, whose
\* last bits the rest of value repeats, and is shifted out later.
Written(stream, value, numBits) ==
    LET room == WordBits - stream.bitPos
        rest == numBits - room
        word == (stream.pending * 2 ^ room + value \div 2 ^ rest) % 2 ^ WordBits
    IN  IF numBits >= room
        THEN [words |-> Append(stream.words, word),
              pending |-> (word * 2 ^ rest + (value % 2 ^ rest)) % 2 ^ WordBits,
              bitPos |-> rest]
        ELSE [stream EXCEPT !.pending = (@ * 2 ^ numBits + value) % 2 ^ WordBits,
                            !.bitPos = @ + numBits]

Encoded(table, stream, s) == Written(stream, table[s].bitCode, table[s].numBits)

\* flush(): one more word always. With nothing pending the shift is as wide as
\* the word, which leaves what the processor makes of it.
FlushedWords(stream) ==
    IF stream.bitPos = 0 THEN {stream.pending, 0}
    ELSE {(stream.pending * 2 ^ (WordBits - stream.bitPos)) % 2 ^ WordBits}

Flushed(stream) ==
    {[stream EXCEPT !.words = Append(@, word), !.bitPos = 0] : word \in FlushedWords(stream)}

\* Mutant of Rewound: the bits of the word begun are dropped.
RewoundWholly(stream) == EmptyStream

Rewound(stream) == [stream EXCEPT !.words = <<>>]

-----------------------------------------------------------------------------
(* HuffmanDecoder, from the bits of words *)

BitsOf(word) == [i \in 1 .. WordBits |-> (word \div 2 ^ (WordBits - i)) % 2]

\* One bit: go down, and give the symbol and start over at a leaf. at is the
\* way from the root, or Ended behind a leaf of the end or where no node is.
Stepped(tree, decoder, bit) ==
    LET at == Append(decoder.at, bit)
        found == {s \in DOMAIN tree : tree[s] = at}
        isNode == \E s \in DOMAIN tree : IsPrefix(at, tree[s])
    IN  IF decoder.ended \/ ~isNode \/ found = {EndOfStream} THEN [decoder EXCEPT !.ended = TRUE]
        ELSE IF found = {} THEN [decoder EXCEPT !.at = at]
        ELSE [decoder EXCEPT !.at = <<>>, !.out = @ \o SetToSeq(found)]

Decoded(tree, words) ==
    FoldLeft(LAMBDA decoder, bit : Stepped(tree, decoder, bit),
             [at |-> <<>>, out |-> <<>>, ended |-> FALSE],
             FlattenSeq([i \in DOMAIN words |-> BitsOf(words[i])])).out

=============================================================================
