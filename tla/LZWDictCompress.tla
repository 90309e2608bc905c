-------------------------- MODULE LZWDictCompress --------------------------
(***************************************************************************)
(* LZWDictCompress and LZWDictDecompress, a pair for each dictionary: what *)
(* the compressor writes is handed to the decompressor at once, as the     *)
(* HTTPAnalyzer does.  A piece of payload is one byte; the code reads a    *)
(* longer piece byte by byte and hands over what all of it gave.           *)
(***************************************************************************)
EXTENDS LZWDict

VARIABLES
    coder,      \* the LZWDictEncoder and the LZWDictStream of each pair
    taken,      \* the bytes its encoder holds or has read since open()
    given       \* the bytes its decoder has written since open()

pairVars == <<coder, taken, given>>
lzwVars == <<dictVars, pairVars>>

PairInit ==
    /\ coder = [d \in Dicts |-> [node |-> Root(d), out |-> <<>>]]
    /\ taken = [d \in Dicts |-> <<>>]
    /\ given = [d \in Dicts |-> <<>>]

-----------------------------------------------------------------------------
\* LZWDictDecoder::append(): the words behind the indices, of which there is
\* at most one here
Decoded(d, out) == IF out = <<>> THEN <<>> ELSE dec[<<d, out[1]>>]

\* reset() and open(): both clear the stream and nothing else.
Open(d) ==
    /\ coder' = [coder EXCEPT ![d].out = <<>>]
    /\ taken' = [taken EXCEPT ![d] = coder[d].node[2]]
    /\ given' = [given EXCEPT ![d] = <<>>]

\* create(): the pair of a new connection, in place of the one before it
Create(d) ==
    /\ coder' = [coder EXCEPT ![d] = [node |-> Root(d), out |-> <<>>]]
    /\ taken' = [taken EXCEPT ![d] = <<>>]
    /\ given' = [given EXCEPT ![d] = <<>>]

\* append(): the stream is copied to the result and cleared.
Compress(d, b) ==
    LET c == Encoded(coder[d], d, b)
    IN  /\ coder' = [coder EXCEPT ![d] = [c EXCEPT !.out = <<>>]]
        /\ taken' = [taken EXCEPT ![d] = Append(@, b)]
        /\ given' = [given EXCEPT ![d] = @ \o Decoded(d, c.out)]

\* close(): what the encoder holds is flushed, and stays in the stream.
Close(d) ==
    LET c == Flushed(coder[d], d)
    IN  /\ coder' = [coder EXCEPT ![d] = c]
        /\ given' = [given EXCEPT ![d] = @ \o Decoded(d, c.out)]
        /\ UNCHANGED taken

\* The stream is only read and closed once it is open.
IsOpen(d) == coder[d].out = <<>>

-----------------------------------------------------------------------------
LZWInit == DictInit /\ PairInit

LZWNext ==
    \/ \E d \in Dicts, b \in Bytes : AppendByte(d, b) /\ UNCHANGED pairVars
    \/ /\ UNCHANGED dictVars
       /\ \E d \in Dicts :
            \/ Create(d)
            \/ Open(d)
            \/ IsOpen(d) /\ \E b \in Bytes : Compress(d, b)
            \/ IsOpen(d) /\ Close(d)

LZWSpec == LZWInit /\ [][LZWNext]_lzwVars

-----------------------------------------------------------------------------
(* Properties *)

PairTypeOK ==
    /\ coder \in [Dicts -> [node : Dicts \X Seq(Bytes), out : Seq(0 .. MaxIdx)]]
    /\ taken \in [Dicts -> Seq(Bytes)]
    /\ given \in [Dicts -> Seq(Bytes)]

\* Only one dictionary has read a text.
IsSingle == \A d, e \in readers : d = e

\* As long as one dictionary reads, every index decodes to the word that it
\* was given for, and indices not given yet are not in a tree.
IndicesAreWords ==
    IsSingle => \A n \in DOMAIN encTree :
        /\ dec[<<n[1], encTree[n]>>] = n[2]
        /\ encTree[n] < nextIdx[n[1]]

\* As long as one dictionary reads, what was compressed is decompressed to what
\* it was, but for the bytes the encoder still holds, wherever the payload is
\* cut and whatever the dictionary has read.
RoundTrip ==
    IsSingle => \A d \in Dicts : given[d] \o coder[d].node[2] = taken[d]

=============================================================================
