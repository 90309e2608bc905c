--------------------------- MODULE HTTPListeners ---------------------------
(***************************************************************************)
(* The chain of listeners behind the sources of HTTP: the dictionaries are *)
(* loaded, then a source tells an HTTPAnalyzer of responses, one           *)
(* connection after the other. NetSource has an HTTPDecoder that also      *)
(* tells ExpPayload, after the analyzer; FolderSource plays a file as one  *)
(* response, to the analyzer alone.                                        *)
(*                                                                         *)
(* The decoder begins a response when the one before it is complete. It    *)
(* tells the end only of those whose payload it knows the end of           *)
(* ("sized"); others end with the connection ("close") or have no payload  *)
(* at all ("none"). A request may be told done at any time.                *)
(***************************************************************************)
EXTENDS HTTPAnalyzer, ExpPayload, FiniteSets

CONSTANTS
    Configs,        \* [texts, pair, tree, source] as Settings makes them
    Responses,      \* the responses there may be
    MaxResponses, MaxPayload    \* bounds of the model

ASSUME ListenersAssumption ==
    /\ Responses \subseteq [type : AllTypes, latency : Nat, isHead : BOOLEAN,
                            framing : {"sized", "close", "none"}]
    /\ \A r \in Responses : r.isHead => r.framing = "none"
    /\ \A c \in Configs : c.source \in {"net", "folder"} /\ c.pair \in Dicts
    /\ MaxResponses \in Nat /\ MaxPayload \in Nat

VARIABLES
    source,     \* "net" or "folder"
    unread,     \* what the dictionaries have yet to read
    told,       \* the responses so far: [response, bytes, state, interrupted]
    connected   \* the number of responses of earlier connections

sourceVars == <<unread, told, connected>>
vars == <<dictVars, pairVars, configVars, analyzerVars, exportVars, source, sourceVars>>

-----------------------------------------------------------------------------
(* Settings::addLZWDict() for each dictionary: its text, so many times *)

Repeated(text, times) == FlattenSeq([i \in 1 .. times |-> text])

ToRead(texts) ==
    FlattenSeq([i \in DOMAIN texts |->
        LET all == Repeated(texts[i].text, texts[i].times)
        IN  [j \in DOMAIN all |-> <<texts[i].dict, all[j]>>]])

\* What is in the files are bytes, of dictionaries that there are.
ASSUME TextsAssumption ==
    \A c \in Configs : ToRead(c.texts) \in Seq(Dicts \X Bytes)

\* A dictionary is read before the next one is made.
InOneGo(text) ==
    \A i, j, k \in DOMAIN text : i < j /\ j < k /\ text[i][1] = text[k][1] => text[j][1] = text[i][1]

ASSUME OneByOneAssumption == \A c \in Configs : InOneGo(ToRead(c.texts))

Load ==
    /\ unread # <<>>
    /\ AppendByte(unread[1][1], unread[1][2])
    /\ unread' = Tail(unread)
    /\ UNCHANGED <<pairVars, configVars, analyzerVars, exportVars, source, told, connected>>

-----------------------------------------------------------------------------
(* A source at work *)

Latest == told[Len(told)]
IsConnected == Len(told) > connected
IsOn == IsConnected /\ Latest.state = "on"

\* A file has a type and comes at once, alone on its connection.
MayRespond(r) ==
    /\ unread = <<>> /\ ~IsOn /\ Len(told) < MaxResponses
    /\ source = "folder" =>
          ~IsConnected /\ r.type # Unknown /\ r.latency = 0 /\ r.framing = "sized"

Respond(r) ==
    /\ MayRespond(r)
    /\ OnHttpResponse(r.type, r.latency)
    /\ IF source = "net" THEN OpenFile(Len(told) + 1, r.type, r.isHead) ELSE UNCHANGED exportVars
    /\ told' = Append(told, [response |-> r, bytes |-> <<>>, interrupted |-> FALSE,
                             state |-> IF r.framing = "none" THEN "never done" ELSE "on"])
    /\ UNCHANGED <<dictVars, configVars, source, unread, connected>>

\* The bytes that came with these responses: which one of which response
BytesOf(these) == UNION {{i} \X DOMAIN told[i].bytes : i \in these}
PayloadSoFar == Cardinality(BytesOf(DOMAIN told))

Traffic(b) ==
    /\ IsOn /\ PayloadSoFar < MaxPayload
    /\ OnHttpResponseTraffic(b)
    /\ IF source = "net" THEN WriteFile(Len(told), b) ELSE UNCHANGED exportVars
    /\ told' = [told EXCEPT ![Len(told)].bytes = Append(@, b)]
    /\ UNCHANGED <<dictVars, configVars, source, unread, connected>>

Done ==
    /\ IsOn /\ Latest.response.framing = "sized"
    /\ OnHttpDone(Latest.response.type)
    /\ IF source = "net" THEN CloseFile ELSE UNCHANGED exportVars
    /\ told' = [told EXCEPT ![Len(told)].state = "done"]
    /\ UNCHANGED <<dictVars, configVars, source, unread, connected>>

\* The analyzer leaves out requests, the export does not ask whose end it is.
RequestDone ==
    /\ IsConnected /\ source = "net"
    /\ CloseFile
    /\ told' = [told EXCEPT ![Len(told)].interrupted = @ \/ IsOn]
    /\ UNCHANGED <<dictVars, pairVars, configVars, analyzerVars, source, unread, connected>>

\* Connections end anywhere, files do not.
Disconnect ==
    /\ IsConnected
    /\ source = "folder" => ~IsOn
    /\ OnHttpClose
    /\ IF source = "net" THEN CloseFile ELSE UNCHANGED exportVars
    /\ told' = [told EXCEPT ![Len(told)].state = IF @ = "on" THEN "cut" ELSE @]
    /\ connected' = Len(told)
    /\ UNCHANGED <<dictVars, configVars, source, unread>>

Init ==
    /\ DictInit /\ AnalyzerInit /\ ExportInit
    /\ \E c \in Configs :
          pair = c.pair /\ tree = c.tree /\ source = c.source /\ unread = ToRead(c.texts)
    /\ told = <<>>
    /\ connected = 0

Next ==
    \/ Load
    \/ \E r \in Responses : Respond(r)
    \/ \E b \in Bytes : Traffic(b)
    \/ Done
    \/ RequestDone
    \/ Disconnect

Spec == Init /\ [][Next]_vars

-----------------------------------------------------------------------------
(* Properties *)

\* The compressors were closed for the response that came last.
IsComplete == IsConnected /\ Latest.state = "done" /\ Latest.response.type # Unknown

ComesBack(bytes, whole) == IF IsComplete THEN bytes = whole ELSE IsPrefix(bytes, whole)

\* What came on this connection with responses that the compressors were never
\* closed for: those that have no content type
LeftOpen(i) == IF i > connected /\ told[i].response.type = Unknown THEN told[i].bytes ELSE <<>>
Unclosed == FlattenSeq([i \in 1 .. Len(told) - 1 |-> LeftOpen(i)])

\* The words of the dictionary, none included, that the payload so far ended with
HeldOver == {w \in Suffixes(Unclosed) : w = <<>> \/ <<pair, w>> \in DOMAIN encTree}

\* Every decompressor gives the payload of the response, in its order and as
\* far as the compressor let go of it, and all of it once the response is done,
\* whatever was given up before. LZWDict does so if one dictionary was loaded,
\* but behind the word that its encoder has kept over reset() of the responses
\* it was not closed for: one word at most, and none if there is no such one.
PayloadComesBack ==
    /\ \A k \in Kinds : ComesBack(back[k], payload)
    /\ IsSingle => \E kept \in HeldOver : ComesBack(given[pair], kept \o payload)

\* "reset the compressor to its initial state" (Compressor.h): what LZWDict
\* gives of a response is that response alone. It is not so: reset() clears the
\* stream, and the encoder stays at its word.
ResetIsInitial == IsSingle => ComesBack(given[pair], payload)

\* Dictionaries are loaded one after the other: each after the first may spoil
\* one word, of the one that was loaded before it.
DamageIsBounded ==
    Cardinality(UNION {Wrong(d) : d \in Dicts}) < IF readers = {} THEN 1 ELSE Cardinality(readers)

\* The words of HuffmanCompress decode to the payload, but for bytes the tree
\* does not have; what the last word is filled up with may decode to more, as
\* no end is written.
HuffmanComesBack ==
    LET known == SelectSeq(payload, LAMBDA b : tree[b] > 0)
        decoded == H!Decoded(H!Tree(tree), packed)
    IN  IF IsComplete THEN IsPrefix(known, decoded) ELSE IsPrefix(decoded, known)

ClassOf(r) == IF r.latency < StaticDynamicThreshold THEN "responseStatic" ELSE "responseDynamic"

\* The responses of a type and class
Matching(type, class) ==
    {i \in DOMAIN told : /\ told[i].response.type = type
                         /\ class \in {"response", ClassOf(told[i].response)}}

\* What LZWDict decompressed, as far as it was counted for a type
CountedLZW ==
    UNION {{type} \X (1 .. summary.stats[type]["response"].decompressed["lzw"]) : type \in AllTypes}

\* The Summary tells what came, by type and latency: each byte once, and as
\* much decompressed as compressed for the responses that ended. What LZWDict
\* carries from one response to the next is counted once.
SummaryTells ==
    /\ \A type \in AllTypes, class \in Classes :
          LET these == Matching(type, class)
              received == Cardinality(BytesOf(these))
              stats == summary.stats[type][class]
          IN  /\ stats.numHeaders = Cardinality(these) /\ stats.sizePayload = received
              /\ stats.latencies =
                    Cardinality({i \in these : told[i].response.latency <= MaxLatency})
              /\ \A k \in Kinds :
                    /\ stats.decompressed[k] <= received
                    /\ (type # Unknown /\ \A i \in these : told[i].state \in {"done", "never done"})
                          => stats.decompressed[k] = received
    /\ IsSingle => Cardinality(CountedLZW) <= PayloadSoFar

\* Is the response r one that ExpPayload writes a file for?
IsExported(r) == r.type \in Exported /\ ~r.isHead

\* The places in file f of what came with the response it was opened for
Own(f) == {j \in DOMAIN f.cells : f.cells[j][1] = f.response}

\* There is a file for each response that is exported, in their order, and it
\* begins with its payload: all of it, unless a request is done meanwhile, and
\* nothing else, unless the response has no payload at all.
FilesTellPayload ==
    /\ source = "net" =>
          /\ {files[i].response : i \in DOMAIN files}
                = {k \in DOMAIN told : IsExported(told[k].response)}
          /\ \A i, j \in DOMAIN files : i < j => files[i].response < files[j].response
    /\ \A i \in DOMAIN files :
          LET f == files[i]
              t == told[f.response]
          IN  /\ \A j \in Own(f) :
                    1 .. j \subseteq Own(f) /\ j \in DOMAIN t.bytes /\ f.cells[j][2] = t.bytes[j]
              /\ ~t.interrupted => Own(f) = DOMAIN t.bytes
              /\ t.response.framing # "none" => Own(f) = DOMAIN f.cells

=============================================================================
