--------------------------- MODULE HuffmanBuilder ---------------------------
(***************************************************************************)
(* What the trees that Huffman makes are compared with: the shortest codes *)
(* that there can be for what a HuffmanBuilder (compression/own) counted.  *)
(***************************************************************************)
EXTENDS Huffman

\* The symbols that occur, and the longest code that so many may need
Used(counter) == {s \in Symbols : counter[s] > 0}
Longest(used) == Cardinality(used) - 1

\* The lengths that a code without a prefix can have, by Kraft's inequality
Possible ==
    [used \in SUBSET Symbols |->
        {l \in [used -> 1 .. Longest(used)] :
            FoldFunction(LAMBDA n, sum : sum + 2 ^ (Longest(used) - n), 0, l) <= 2 ^ Longest(used)}]

\* The bits it takes for all that was counted, the end included
Cost(counter, l) == FoldFunction(+, 0, [s \in DOMAIN l |-> counter[s] * l[s]])

AllBits(counter) ==
    CompressedBits(counter) + Table(counter)[EndOfStream].numBits * counter[EndOfStream]

\* No code without a prefix takes fewer bits for what was counted than the tree.
IsOptimal(counter) ==
    LET used == Used(counter)
        bits == AllBits(counter)
    IN  Longest(used) > 0 =>
            /\ [s \in used |-> Table(counter)[s].numBits] \in Possible[used]
            /\ \A l \in Possible[used] : bits <= Cost(counter, l)

=============================================================================
