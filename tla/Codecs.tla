------------------------------- MODULE Codecs -------------------------------
(***************************************************************************)
(* The compressors around libraries (compression/), each with the          *)
(* decompressor it is paired with. Of what a library writes only the bytes *)
(* it stands for are kept, and where in the stream it has to be read:      *)
(*   "stream"  gzip and LZMA hold back what they like until they are       *)
(*             closed, and what they write is read in one go;              *)
(*   "chain"   QuickLZ writes all it gets, in terms of what came before;   *)
(*   "block"   LZO and LZ4 write all it gets, and each piece for itself.   *)
(***************************************************************************)
EXTENDS Integers, Sequences, SequencesExt

Kinds == {"stream", "chain", "block"}

\* at is how much the library has written since its state was reset, held
\* what it has read since and not written yet, empty whether that was nothing.
ClosedCompressor == [isOpen |-> FALSE, at |-> 0, held |-> <<>>, empty |-> TRUE]

\* What came of a call: the compressor, and the bytes behind its result
Result(comp, bytes) == [comp |-> comp, from |-> comp.at - Len(bytes), bytes |-> bytes]

Reset(comp) == ClosedCompressor

\* open(): a compressor that is open is left as it is.
Opened(comp) == IF comp.isOpen THEN comp ELSE [Reset(comp) EXCEPT !.isOpen = TRUE]

\* How much of n bytes the library may write
Writes(kind, n) == IF kind = "stream" THEN 0 .. n ELSE {n}

\* append(), one byte
Appended(kind, comp, b) ==
    LET bytes == Append(comp.held, b)
    IN  IF ~comp.isOpen THEN {Result(comp, <<>>)}
        ELSE {Result([isOpen |-> TRUE, at |-> comp.at + n, empty |-> FALSE,
                      held |-> SubSeq(bytes, n + 1, Len(bytes))],
                     SubSeq(bytes, 1, n)) : n \in Writes(kind, Len(bytes))}

\* close(): what is held is written, if anything was read, and all is reset.
Closed(comp) ==
    IF comp.empty THEN Result(Reset(comp), <<>>)
    ELSE [comp |-> Reset(comp), from |-> comp.at, bytes |-> comp.held]

\* The append() of a decompressor that has read a stream up to `at`: what was
\* written elsewhere makes no sense, unless it stands for itself.
Decompressed(kind, at, result) ==
    IF kind = "block" \/ result.from = at THEN result.bytes ELSE <<>>

=============================================================================
