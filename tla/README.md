# NetAnalyzer and PowerAnalyzer in TLA+

NetAnalyzer sniffs packets, reassembles IPv4 datagrams and TCP streams, decodes
HTTP and exports what it saw; PowerAnalyzer replays the exported payloads
between a client and a server. Both are C++ without a concurrency library: the
analysis runs to completion inside the sniffer's callback for one packet, and
what makes it hard is not locks but *what the network does to a passive
observer*: packets lost, repeated, reordered and cut anywhere, ids that
collide, a wall clock that jumps, and five places that may end a connection.
Behind that come codecs that are used for one response after the other, and a
signal handler that deletes everything in whatever thread it interrupts.

Paths below are relative to `NetAnalyzer/src` and `PowerAnalyzer/src`.

## 1. Inventory

| Component | State | Operations | Hard about it | Correct means |
|---|---|---|---|---|
| IPv4 reassembly (`network/processors/IPv4Reassembler`) | map from IPv4 id to buffer, two counters, age | `onPacket`, `purgeOld` | fragments in any order, mixed, repeated, stale | a datagram is handed on once, complete, and with nothing else in it |
| TCP reassembly (`TCPReassembler`, `TCPStream`, `TCPSeqBuffer`) | map from id to stream: expected sequence numbers, buffers, FIN count, age, the listener it owns; statistics | `onIPv4Packet`, `reAssemble`, `closeStream`, `purgeOld`, destructor | reordering, loss, retransmission, wrap of sequence numbers, id collision, full buffer, purge during the handler, clock set back | listeners get a prefix of what was sent, in order and once; each is told of its end exactly once and deleted; nothing leaks |
| HTTP decoding (`http/HTTPDecoder`, `HTTPStream`, `HTTPHeader`, `buffer/DataBuffer`) | two directions with buffer, state, counters; global statistics | `onDataFromInitiator`, `onDataToInitiator`, `check`, `onClose` | segment boundaries anywhere, two directions seen in any order, HEAD and pipelining, give-up in both directions | listeners are told what was sent; every handler returns |
| HTTP analyzer, net source (`analyzer/`) | pairs of compressor and decompressor, counters of the response that is on, the `Summary` | callbacks of `HTTPListener` | responses cut off, never done or without a type, behind which the next one uses the same compressors | what is decompressed is the payload; each byte is counted once, where it belongs |
| Payload export (`export/payload/ExpPayload`) | map from decoder to open file | `onHttpResponse`, `onHttpResponseTraffic`, `onHttpDone`, `onHttpClose` | early returns, content of unknown size, pipelining | a file holds the payload of one response |
| Compression (`compression/`) | LZW dictionaries with a static cursor, Huffman trees, bit streams, wrappers of libraries | `append`, `open`, `close`, `reset` | dictionary full, second dictionary, second stream, words filled exactly | decoding gives what was encoded; a Huffman code is as short as one can be |
| Periodic export (`export/Periodic*`, `misc/Thread.h`) | thread, list of exporters | `start`, `stop`, tick | thread against shutdown | no exporter is used after it died |
| Start and shutdown (`main.cpp`) | `globals`, the threads | `main`, SIGINT handler, `globals_cleanup` | handler at any point of any thread, twice; order of deletion; joining of threads | each object dies after its users; the program ends |
| Packet sources (`network/source`, `FolderSource`) | flags | `start`, `stop` | callback against shutdown | no packet after `stop` |
| Terminal user interface (`gui/`) | two threads, windows, focus, mutex | `attach`, `detach`, `onKey`, `update`, `onResize`, SIGWINCH | windows and focus are changed without the mutex; a handler takes it; `getch()` blocks | keys go to a window that exists; the mutex comes free; its threads end |
| Configuration (`Settings.cpp`, `config/`) | compressors and exporters made from XML | `load` | dictionaries loaded one after the other | each is what its file says |
| PowerAnalyzer client (`client/`) | request map, clock, active decompressor | request loop, wait, repeat, receive | late answers, negative waits, peer gone | every file of the recording is requested, in order, and received whole |
| PowerAnalyzer server (`server/`, `common/`, `protocol/`) | open file, end-of-file flag, active compressor | accept, send file in chunks | exceptions between two steps, next client | the next client is served as if it were the first |
| Gnuplot and summary output, vendored libraries, tests | | | no state others depend on | not modelled |

Interactions: `PacketProviderSniffer` calls `IPv4Reassembler::onPacket` in the
sniffer's thread, which calls `TCPReassembler::onIPv4Packet` for a complete
datagram, which calls the `TCPStreamListener` of the stream, an `HTTPDecoder`,
which calls its `HTTPListener`s (analyzer components, exporters). All of it is
one call stack. The GUI thread, the periodic exporter and the SIGINT handler
read or delete the same objects. PowerAnalyzer shares files with NetAnalyzer
(what `ExpPayload` wrote) and talks over one TCP connection per file.

The hazards, each at its line, with the properties that would catch it going
wrong, are listed in `PROJECT.json`.

## 2. Plan

In the order of importance; **bold** is done.

1. **`TCPReassembler`**, checked with arbitrary packets; **`TCPCapture`** on top
   of it, with the packets of real connections; **`TCPCaptureProofs`**.
2. **`IPv4Reassembler`**, **`IPv4Capture`** and the abstract **`DatagramService`**
   it implements; **`IPv4CaptureProofs`**.
3. **`HTTPDecoder`** and **`HTTPExchange`**, which feeds it real conversations.
4. **`HTTPExchangeProofs`**: types, give-up in both directions and end of the loops of
   the decoder alone; of conversations, that listeners are told what was sent.
5. **`HTTPAnalyzer`**, **`ExpPayload`** and **`HTTPListeners`**, the chain of
   listeners behind both sources.
6. **`Replay`**: clients, server and sockets of PowerAnalyzer with a clock and
   failures; abstract specification **`FileService`**: the files of the recording
   are delivered in order; liveness under the fairness of the processes.
   **`ReplayInvariant`**, **`ReplayProofs`**.
7. **`LZWDict`**, **`LZWDictCompress`**, **`Huffman`**, **`HuffmanBuilder`**,
   **`Codecs`**: encoder and decoder side by side, composed by `HTTPListeners` over responses in a row;
   **`HTTPListenersProofs`**.
8. **`Shutdown`**: main thread, exporter thread, threads of the gui and signal
   handlers, with the windows of **`GUINcurses`**; **`ShutdownProofs`**.

## 3. What is modelled

Each module names its source in its head comment; `PROJECT.json` maps every
definition to the lines it stands for. An operator commented "Mutant of X" is no
part of the specification: it is a plausible bug in the code X models, and each
property below is violated once X is replaced by one of them.

### TCPReassembler

One action is one outcome of `onIPv4Packet()`, chosen by the code's own order of
early returns: `Collide` (SYN whose id is in use), `Ignore` (no stream),
`NoPayload`, `Deliver`, `SkipRetransmit`, `Hold`, `Overflow` (full buffer). The
handler's tail (SYN counts one, FIN count, close, purge) is the operator
`Finish`, part of every action that reaches it. `Tick` is the wall clock, which
may be set back; `Destroy` is the destructor.

- `streams` is the `std::map`; a key is the pair of sums, since `(ipSUM << 24) +
  portSUM` is injective on pairs with a port sum of 17 bits.
- Payload bytes are named by sequence number and origin, so `listeners[l].data`
  says which bytes of whom a listener got. Sequence numbers live in
  `0 .. SeqSpace - 1`; comparisons are those of the code, additions wrap.
- `heap` holds the numbers of the `TCPBufferedSegment` objects that exist, so a
  leak and a double delete are both visible.
- `purgeCnt` is the `static` counter of `purgeOld()`; the age is an unsigned
  difference, hence `now - ts \notin 0 .. Timeout`.
- Left out: averages, the counters kept per direction (they move with the global
  ones), `numAckOnly`, `numSynPayload`, `numWithoutPayload`.

`TCPCapture` (EXTENDS it) replaces arbitrary packets by those of real
connections: each end has an initial sequence number and some ranges of bytes
it sends, overlapping ones for retransmissions cut anew. The sniffer gets any of
the packets in any order, up to `MaxCopies` times, or never. No end sends so much
that its sequence numbers come round (`CaptureAssumption`): beyond that the code
cannot tell an old byte from a new one, and neither could the properties.

### IPv4Reassembler

`Forward` (one piece) and `Collect`, each with the purge the code ends with.
Lengths are counted in cells; a cell holds the datagram its content came from,
or `Uninit`, as `IPv4Assembled::buffer` is not initialised. `IPv4Capture` sends
fragments; `DatagramService` is what is promised to the layer above, and under
ids of their own and no repetition `IPv4Capture` implements it with
`have[d]` = the cells of `d` in the map. The destructor is left out.

### HTTPDecoder

One action is one *section* of `check()` at work, because a call falls through
several of them; `loop` holds the directions whose `while (check(...))` still
runs, `Return` is the call that finds nothing to do. Nothing arrives while
`loop` is not empty: the callback runs to completion.

- A buffer is a sequence of cells: a header is a head cell and CR LF CR LF, a
  chunk size is one cell, payload has one cell per byte. What the header says is
  a record (method, content-length, chunked, close, gzip, of strange size).
  No payload looks like a header. `LineEnds` and `HeaderEnds` are
  the searches of `indexOf()`, over any buffer, cut anywhere.
- A build `WITH_ZLIB` and one without are both in the model; decompression may
  fail on any piece.
- Left out: latency, average header sizes, what `strToInt()` and
  `hexStringToInt()` make of malformed numbers other than "no number is 0".

`HTTPExchange` sends requests and responses in one of three orders (`sequential`,
`pipelined`, `any`) and compares what the listeners were told with what was sent.
`Conforms` says what two ends do that agree with each other: messages are numbered in
their order, each response answers a request, a message has one way to end, and what
only ends with the connection comes last; behind a HEAD request a client waits, as what
the decoder does otherwise is a finding (`http_pipelined_head`). Strange, bogus and
unsupported headers conform, and so does any cut and any order of capture. `MCHTTPExchange` has two
requests and two responses and assumes `ConformingAssumption`: the exchanges the run
checks satisfy the hypothesis of the theorems.

### Replay

Each client and the server is one thread, one action a step between two calls
that others can see (`connect`, `send`, `recv`, `accept`, a sleep that ends, a
read of the file). `recv()` is a loop: `Receive` takes any piece that has arrived,
`UseInfo` and `UseChunk` go on once all that was wanted is there.

- `connection[c]` holds the bytes under way in both directions and who has closed
  what. A process that ends closes its sockets; a connection with unread bytes or
  one in the backlog is reset. `recv()` returning 0 is no step: nothing changes.
- A compressor is a delay: `held` is what a streaming one keeps, any amount, until
  it is closed. Payload cells are named by file and position, so `delivered` says
  what the client passed on; `<<f, 0>>` is the end of file f.
- `now` counts from the start of the clients. `sleep_for()` ends at `until` or
  later; time also passes while somebody is at work (`delays`, at most `MaxDelays`).
- `Ends` and `ServerEnds` are every way out of the process: an exception that
  reaches `main()`, `error()`, ctrl-c.
- Left out: statistics, direct I/O, errors of `read()`, `getaddrinfo()`.

`Service == INSTANCE FileService` maps `delivered` to itself and `Expected` to what
the recording says, stated without the code's request map. `Sorted` is the order in
which that `std::map` lists its keys: the one sequence that is increasing.

### LZWDict, LZWDictCompress

A dictionary is an encoding tree and a decoding array; a node is the pair of its
dictionary and the word that leads to it, so `encTree` holds the nodes of all
trees. `AppendByte` is one turn of the loop of `append()`: `Hit`, `Miss`, or
`Return` of a dictionary that is full. The cursor and the pending word are static
in the code and one variable each here: what a second dictionary reads begins
where the first one stopped, in the first one's tree.

`LZWDictCompress` adds a pair of encoder and decoder for each dictionary.
`taken` and `given` record what went in and came out since `open()`; `open()` and
`reset()` clear the stream and not the encoder, so `taken` begins with what the
encoder still holds. `LZWSpec` is what a user of the pair may do.

### Huffman, HuffmanBuilder, Codecs

Pure operators. A tree is the code of each of its leaves. `Leaves` and `Combined`
follow the order of the multiset, in which equal counts stay in order of arrival;
`Written` packs a code into words. `HuffmanBuilder` has the shortest codes
there can be for what was counted, to compare with. `Codecs` says of the five wrappers of libraries
what they keep over calls (open or not, how much is held back, how much the
decompressor has read) and leaves bytes and sizes to the libraries.

### HTTPAnalyzer, ExpPayload, HTTPListeners

One operator per callback of `HTTPListener`, with all it calls: opening resets and
opens every compressor, traffic compresses and decompresses at once and counts,
the end closes. `HTTPListeners` is the composition: `Load` reads the dictionaries,
then a `NetSource` or a `FolderSource` tells of responses (`Respond`, `Traffic`,
`Done`, `Disconnect`), the analyzer first and the export after it, as they were
added to the decoder. What may follow on what is the decoder's: a response begins
when the one before it is complete, ends by itself (`sized`), with the connection
(`close`) or has no payload (`none`), and a request may be told done meanwhile.

- `told` is what was told so far, `files` what was written, each cell with the
  number of the response it came with.
- One connection at a time: an analyzer belongs to one connection and dies with it,
  and the files are kept by decoder. What connections share is the `Summary`, a sum.

### GUINcurses, Shutdown

`GUINcurses` has the windows, the focus and the mutex, and for each thread the place
in the gui it is at (`inGui`): a window is being added or closed, the mutex is wanted
for an update or for resizing, or it is held. `detach()` takes the distance of a
parameter from the vector for an index, so whether the focus moves is a choice;
`misjudged` remembers that it did not. Two threads that go through the windows while
one of them changes them (`Clash`), and a key for a focus behind the end (`lost`), are
undefined behaviour: the model ends there.

Each thread has a place: `main` in `main()`, `worker[w]` in the loop of a thread,
`cleanup[t]` in `globals_cleanup()`, if the signal handler runs in thread `t` or
`main()` has called it. `alive` is what `globals` points to; `dangling` becomes TRUE
when a step uses something else. A callback of the source is two steps (`Receive`,
`Received`), between which it may be interrupted; joining a thread is a guard.

- Linux delivers SIGINT to the main thread unless that is in the handler already;
  F2 raises it in the thread of the keys. `hits` records where it came.
- `stop()` of a sniffer that was not started calls `error()`, which is `exit(0)`.
- SIGWINCH has a place of its own (`handler`) above that of the main thread, below or
  above the handler of SIGINT (`above`).
- Left out: what a handler that is not async-signal-safe does to the heap, a SIGWINCH
  while the singleton of the gui is made, and the content of windows.

## 4. Runs

| Run | Question | Bounds and why they are enough |
|---|---|---|
| `tcp_reassembler` | Do listeners, counters and heap agree whatever ends a stream? | 5 packets of 3 connections between the same hosts: one with an id of its own, and two with equal sums of ports, of which one has equal ports, and the other a byte that may come behind one of the first in the same stream; buffer of 1, purge on every 3rd call, 3 clock readings. Every way to end a stream, collision of a connection with its own and with another's id, and a purge in the same handler as a close all need at most 4 packets. |
| `tcp_capture` | Are bytes delivered in order, without holes, and completely when captured in order? | One connection, 4 segments (one a retransmission cut anew) across the wrap of a space of 16, each packet at most twice, 8 packets. |
| `tcp_reorder` (violation) | Is what was captured, each packet once, passed on? | Three segments, no wrap: captured 3, 2, 1 needs no more. |
| `ipv4` | Do two counters implement the abstract service? | 3 datagrams of 3, 2 and 1 fragments, all interleavings, 4 clock readings with a limit of 1. |
| `ipv4_duplicate` (violation) | What does repetition do? | as above, with 2 copies |
| `http` | Are listeners told what was sent, however it is cut and interleaved? | 315 connections of 2 requests and 2 responses with every kind of payload, good and bad headers, all cuts, both builds. The decoder's state after a message is that before it, so a second message shows what the first left behind. |
| `http_pipelined_head` (violation) | Does a response to HEAD never have payload? | HEAD and GET, pipelined |
| `http_listeners` | Is what is decompressed, counted and exported the payload of its response, but for the word LZW keeps of a response that was not closed? | Two of four bytes, words of 3, dictionaries of 9 indices (full after 4 words), two dictionaries loaded one after the other, trees with all bytes and without one, words of 3 bits and codes of 2; 2 responses of 5 kinds and 3 bytes of payload on one connection or two. A second response shows what the first left behind; 3 bytes fill a word of bits and cross it, and complete a word of the dictionary. Responses come in five configurations; of the others there is but the tree, that of four bytes and the end with any counts up to 3: with five symbols the third and the fourth pair are taken from nodes that were put together before, smaller than leaves, larger, or equal to them or to each other. |
| `http_lzw_reset` (violation) | Does `reset()` bring LZW to its initial state? | as above; a response without a type and one behind it |
| `shutdown` | Does SIGINT end the program without using what was deleted? Do the threads of the gui and its signals get along? | Both sources, both guis, one open connection, one window and any number of pop-ups on it one at a time. Two signals, of which the second comes when all is set up and neither in a callback (`MayCome`); a third one could only come while two threads are in the handler, and finds nothing left to delete that they do not. A pop-up over a window is the least that can move the focus. |
| `replay` | Does every client get what its recording says, at its time, and all of it? | Two clients, one with two time stamps, three files (one empty) asked for twice by a streaming compressor with chunks of 1, the other with one file and chunks of 2; one unit of delay; a client and the server may be interrupted, a file may be missing. A second file shows what the first left in the server; one unit of delay makes a client late, and the gap of 4 is enough to catch up. |
| `replay_missing_file` (violation) | Does receiving end? | as above, without interruptions |

Deadlock is checked where the environment never ends (`tcp_reassembler`, `ipv4*`:
the clock always goes on); elsewhere a capture ends, a conversation is over or the program exits, and the
check is off.

The analysis is driven by packets and a sniffer promises none, so nothing must
eventually happen but the return of a handler; that is stated without fairness,
by a measure each call of `check()` decreases (`LoopEnds`).

The replay does have to end. `Fairness` is weak fairness of the server, of each
client and of time: each is a thread of its own process that the operating system
schedules, what was sent arrives, and clocks go on. Nobody is forced to press
ctrl-c.

The shutdown has to end, too. `Fairness` of `Shutdown` is fairness of every thread in
what it does of its own accord (`Step`). It is weak but for the main thread and that of
the keys, which may wait for the mutex of the gui while the thread that updates takes it
again and again: between two updates that one sleeps for half a second, so they get it,
which is strong fairness. The sniffer goes on without packets because its dispatch times
out; it is not assumed that a packet comes, nor that somebody presses a key.

### The properties

TCP: `ListenerLifecycle`, `OpenAccounting`, `NoSegmentLeak` relate the map, the
listeners, the counters and the heap after any mix of the seven ways a stream
ends. `SilentAfterClose` and `OneStreamPerPacket` say what a step may never do.
`DirectionFaithful` is about the sums used as an id and the port used as a
direction: what a listener is given as one direction was sent by one end of one
connection. It speaks of connections that have an id of their own (`HasOwnId`) and two
different ports, as the code mixes others; the run has those, too, so it also says that
a connection is not harmed by two others that collide.
`GapFree`, `OrderlyIsComplete` and `FinishedIsClosed` compare
deliveries with what was on the wire.

IPv4: `CountersTellTheBuffer` is why comparing counters is right,
`ImplementsService` and `DeliveredOnce` are what follows from it.

HTTP: `DecodedAsSent` and `AnswersItsRequest` compare the calls of the listeners
with what was sent, cell by cell; `GivenUpForAReason`, `CorruptedTogether` and
`CorruptedIsSilent` are about giving up; `StatsTellMessages` relates the counters
to the messages; `CloseFinds` says that the loops of `onClose()` have nothing to
do; `LoopEnds` that every handler returns.

Listeners: `PayloadComesBack` compares what each decompressor gave with the payload
of the response, whatever was given up before. The LZW pair gives it behind the word its encoder
has kept: `HeldOver` bounds that by what is in the model and not by what the encoder holds. It
is one word of the dictionary at most, one that the responses of this connection
that the compressors were not closed for (those without a content type) ended with,
and none if there are no such responses. `ResetIsInitial` is the claim without it, which
fails (`http_lzw_reset`). `LZWSpec` is the specification of
the LZW pair, which the composition implements. `IndicesAreWords` and `RoundTrip`
hold while one dictionary has read; `DamageIsBounded` says what the static cursor
costs with more: one word for each further dictionary. `HuffmanComesBack` is about
packing bits over calls, `HuffmanIsOptimal` compares the code with the best one
found by trying all lengths that satisfy Kraft's inequality. `SummaryTells` relates
the sums by type and by latency to the responses, `FilesTellPayload` the files to
the payload.

Shutdown: `CleanExit` speaks of signals that find the main thread where it does no
harm: waiting at the end of `main()`, or in the sniffer between two packets, and again there
after the cleanup for the one before. Then
nothing is used after its deletion, by any thread, and nothing is left when the
program ends. It says nothing of a signal that finds another thread, as the second Ctrl-C during the
first cleanup does, or comes in a callback: there the code does use what was deleted (see the
observations below). `SignalEnds` speaks of all signals
once the analyzer is there: the program ends (or its behaviour is undefined), unless it
waits for the key thread, or the mutex of the gui is held by what a signal interrupted
(`IsBlocked`). `MutexIsReleased` says that whoever has the mutex lets go of it, under
signals too unless it is that case.
`FocusIsThere` relates the focus to the windows over opening, closing and keys in any
order, as long as `detach()` was lucky.

Replay: `ImplementsFileService` is the refinement; `ChecksumsMatch` says that the
checksum is that of the bytes that arrive as one chunk. `NeverEarly` and
`LateOnlyByWork` are about the arithmetic of waiting: repeating never runs ahead
of the recording and never makes the client later than its work does.
`EveryoneServed` is the liveness of the whole system.

### Findings

- `TCPReassembler.cpp:76`: the loop that looks for buffered followers never
  advances the expected number; a second buffered segment is never passed on
  (`tcp_reorder`).
- `IPv4Reassembler.cpp:109`: a repeated fragment is counted again, and a datagram
  with a hole of uninitialised bytes is handed on (`ipv4_duplicate`).
- `HTTPDecoder.cpp:237`: the flag for the response to HEAD is overwritten by the
  next request (`http_pipelined_head`).
- `LZWDictCompress.cpp:79`: `reset()`, documented as resetting to the initial state, clears the
  stream and not the encoder, whose word of a response that was never closed comes out with
  the next one (`http_lzw_reset`).
- `Socket.cpp:51`: `recv()` returning 0 is taken for progress, so a client whose
  server ended asks for ever (`replay_missing_file`); a server whose client was
  stopped before its request does the same.

### What the models show beside the properties

These are observations from traces of the models: no run states them. The first four
disagree with comments of the code, the others with nothing that is promised.

- "we must support a clean exit via strg-c" (`main.cpp:102`), but `globals_cleanup()` deletes
  an object before it sets its pointer to null. A second Ctrl-C during the first cleanup, in the main
  thread, comes to another thread, which finds the same pointer: the gui is deleted twice, or used by one
  cleanup when the other has deleted it. `CleanExit` without its hypothesis has this trace.
- The same comment, and Ctrl-C while a packet is handled: the handler deletes the objects
  whose methods are on the stack and go on when it returns (`main.cpp:181`). It is the same anywhere
  in the loop of `FolderSource`, between the making of two objects, and for F2, whose thread goes
  on in the gui it deleted. These are the places `Harmless` leaves out.
- "otherwise the traffic of both connection would be miked" (`TCPReassembler.cpp:173`): a SYN whose id
  is in use closes the stream that has it and opens none, so once it comes again, or the next
  connection with these sums begins, one stream gets the packets of both connections. Without
  `HasOwnId`, `DirectionFaithful` fails in the run `tcp_reassembler`.
- "old entries will be purged" (`IPv4Reassembler.h:41`): the entry is looked up and touched before
  the purge runs (`IPv4Reassembler.cpp:94`), so a fragment joins an assembly of any age that has its
  id.
- Without its SYN-ACK the responder is expected to go on with the number 0
  (`TCPStream.h:34`), so a later segment that has this number is passed on behind a
  hole: with an initial number two below zero and two segments of one byte, when only the
  second is captured. `GapFree` fails for such numbers.
- With the ncurses gui, Ctrl-C joins the thread of the keys, which is blocked in
  `getch()`: the program ends when a key is pressed (`WaitsForKey`).
- A SIGWINCH that interrupts the main thread while it holds the mutex of the gui waits for
  ever, and the guard of `resizeHandler()` against a second call does not help: only the
  first call is there (`IsBlocked`). A SIGWINCH after the gui was deleted uses it.
- A key pressed while `setModel()` makes its windows, or the update that comes while a
  pop-up is opened or closed, goes through a vector that another thread changes (`Clash`).
- `GUINcurses.cpp:179` compares with a number that has nothing to do with the window; if it
  is small, the focus stays behind the last window and the next key is undefined.
- A signal before the first object is made only sets `running` to FALSE; the
  program starts and, with the sniffer, goes on.
- `FolderSource::stop()` leaves only the innermost folder's loop early.
- `LZWDict::append()` lets words grow to `LZW_WORD_LEN` bytes where its comment
  (`LZWDict.h:96`) says they must not be longer than one less; the array has room.
- The second dictionary that is loaded stores one word in the tree of the first
  (`LZWDict.h:83`), which then has an index that decodes to something else.
- `HuffmanCompress::close()` writes no end marker, so what the last word is filled
  with may decode to more bytes; bytes the tree does not have are lost silently.
- `ExpPayload` closes the file of the response that is on when any header, also that
  of a request, is done (`t.interrupted` in `FilesTellPayload`).

## 5. Proofs

`SequenceLemmas` has what several modules need of numbers and sequences: least and
greatest elements, beginnings of sequences (`Begins`), and what `FlattenSeq` makes of
many short ones.

The first part of `TCPCaptureProofs` proves, for every set of connections, every sequence
space, buffer size, purge interval and clock:

- `TypeCorrect`: `Spec => []TypeOK`
- `Lifecycle`: `Spec => []ListenerLifecycle`
- `Silence`: `Spec => SilentAfterClose`
- `Accounts`: `Spec => []OpenAccounting`
- `OneAtATime`: `Spec => OneStreamPerPacket`
- `NoLeak`: `Spec => []NoSegmentLeak`
- `FaithfulDirections`: `Spec => []DirectionFaithful`

Assumptions: those named in `TCPReassembler` (constants are naturals where the
code has counts, the clock starts at a reading of the clock). The argument: every
action ends in `CloseStreams` (or changes no stream), whose effect on ownership
does not depend on why streams are closed. So one lemma says that closing any
set of streams of a table that owns the open listeners leaves the rest owning
the open ones, and each action only has to show that the table it hands over
(`Store`) owns the listeners it hands over (`KnownListeners`): an existing
stream keeps its listener, and a new one gets a number no listener has.
`OpenAccounting` is inductive only together with `TypeOK` and
`ListenerLifecycle`: that closing *n* streams lowers the number of streams by *n*
needs the ids to be a subset of a finite map.

For `NoSegmentLeak` the invariant says of every buffered segment where it is: the segments
of `heap` are those in the buffers, each in one place (`Holds`), so that what a close,
an overflow or a delivery takes out of the buffers is what it deletes.
`FaithfulDirections` needs no assumption on the connections: the property says of which it
speaks, and the invariant (every byte a listener got came in a packet with the id and the port
of its stream) holds for all.

Its second part proves of real connections, any number of them, with any initial
numbers, any segments (cut anew, overlapping, with holes), captured in any order, any
number of times or never:

- `NoGaps`: `OwnIds`, `OwnPorts` and `NeverZero` imply `CaptureSpec => []GapFree`
- `OrderlyCompletes`: `OwnIds` and `OwnPorts` imply `CaptureSpec => []OrderlyIsComplete`
- `FinishedCloses`: `OwnIds` and `OwnPorts` imply `CaptureSpec => []FinishedIsClosed`

`OwnIds`: each connection has an id of its own, its sums of addresses and of ports are
those of no other (`HasOwnId`). The code relies on it and does not check it; the run `tcp_capture` has
one connection.
`OwnPorts`: the two ends have different ports, as the direction is told by them.
`NeverZero`: no later segment of a responder has the number 0; the code starts with 0 as
the number expected of it, and without a SYN-ACK takes that segment for the first.
What the first part says of arbitrary packets holds here (`CaptureImplements`), and
the seven outcomes of the handler come down to four (`Handled`): the stream of the packet
is closed, or it opens, answers, stays or delivers, and other connections notice nothing
(`OthersStay`). The invariant of `GapFree` (`Gapless`) adds what is expected of each
end: a byte that all bytes in front were passed on of. It needs that a sequence number
stands for one byte of an end (`SeqAtOnce`, from the assumption that they do not come
round) and that everything in a buffer is a segment of that end (`Buffers`). For
`OrderlyIsComplete` the invariant (`UpTo`) ties what was captured, what was passed on and
what is expected to one number; that the loop for buffered followers finds nothing then
needs that whatever waits is older than that. For `FinishedIsClosed` the stream
has counted exactly the FINs captured (`FinsCounted`), and no stream has counted two.

`IPv4CaptureProofs` proves, for any datagrams and fragments, clock and purge limit:

- `CountersTell`: `Orderly` implies `CaptureSpec => []CountersTellTheBuffer`
- `OnlyReceivedBytes`: `Orderly` implies `CaptureSpec => []AssembledWasReceived`
- `OnceEach`: `Orderly` and `Whole` imply `CaptureSpec => []DeliveredOnce`
- `Implements`: `Orderly` implies `CaptureSpec => ImplementsService`

`Orderly` is what the code relies on and never checks: ids of their own, fragments that
do not overlap, none captured twice. The run `ipv4_duplicate` gives up
the last, and a property fails; the run `ipv4` satisfies it, with
`Whole` (the fragments make up the datagram). The invariant ties an assembly to what was
captured: it holds pieces of one datagram, its counter is the number of cells
filled, and unless it was purged these are all that was captured (`Assemblies`); what
was handed on is whole and comes once (`Deliveries`); nothing captured is forgotten
(`Remembered`). That the two lengths agree exactly when the buffer is full is a fact about
cardinalities of disjoint pieces. A capture maps to an arrival of the service that loses
what the purge throws away.

The first part of `HTTPExchangeProofs` is about `HTTPDecoder` alone. It proves, for every set of headers, both builds, any bytes and
any cuts (`Next` lets any sequence of cells arrive):

- `Typed`: `Spec => []TypeOK`
- `GivenUpTogether`: `Spec => []CorruptedTogether`
- `Silenced`: `Spec => CorruptedIsSilent`
- `HandlersReturn`: `Spec => LoopEnds`

Assumption: `HeadersAssumption`, what a header is. The argument: `TypeOK` is
inductive by itself because it holds `CountersFit`, which ties the three
counters of a direction to its state: without "`contentReceived` is 0 before a
chunk size is read" a chunk could end before it began. One lemma per section of
`check()` shows the types and `Progress`: what is left for the direction, three
times the cells of its buffer plus a rank of its state, becomes less, the other
direction gets no new work, and both are given up or neither. The two searches
of `indexOf()` need that a set of numbers has a least element, from the
well-foundedness of the naturals. The other three theorems follow from the
types, `Progress` and the four steps that are no section.

The second part is about conversations. For any set of exchanges that conform (`Conforming`), of
any number of messages with any payload and chunks of any sizes, in all three orders, cut and
interleaved in any way, for both builds and whether or not a piece can be decompressed, it proves:

- `Understands`: `Conforming` implies `ExchangeSpec => []IInv`
- `ListenersAreTold`: `Conforming` implies `ExchangeSpec => []DecodedAsSent`
- `RightRequest`: `Conforming` implies `ExchangeSpec => []AnswersItsRequest`
- `NotWithoutReason`: `Conforming` implies `ExchangeSpec => []GivenUpForAReason`
- `StatsAreRight`: `Conforming` implies `ExchangeSpec => []StatsTellMessages`
- `NothingLeftAtClose`: `Conforming` implies `ExchangeSpec => []CloseFinds`

None of the five properties is inductive: between two sections the listeners lag behind
what was captured, by as much as the buffers hold. The invariant `IInv` speaks of the
cells *used* instead of those sent (`Used`). Unless the connection was given up, of each
direction (`Right`): the buffer is exactly what was captured and is not used
(`Buffered`); state, header and counters say where in which message the cells used end
(`Placed`), within a chunked body by the number of chunks before (`InChunk`);
what was told is what is due with the cells used (`Told`), but for the end of a message
of length 0, which the next call of `check()` tells; and the counters are those of the
messages that have begun (`Counted`). The directions are tied together by `InTurn`, which
bounds how far one is ahead of the other in each order, and by `HeadComes`: the flag for a response
without payload is set exactly between a HEAD request and the header that answers it.
`Idle` says that nothing is left to do in a direction whose loop has ended, so that all that is due
was told then. After giving up only what was told and why remain (`ToldRight`,
`GivenUpForAReason`). That `DecodedAsSent` has a part about connections that were given up
is why `ToldRight` has to be in the invariant: the step that gives up forgets the rest.

The wire is what makes this long: a message is a header and a body whose cells come from
joining chunks, and each section has to know which cells follow. Its lemmas say where a
message and a chunk begin (`EndsOf`, `ChunkEndAt`), what is there, and what is due up to there;
inductions over messages and chunks are on the least counterexample. Then there is one
lemma per section and per thing that can arrive (`SectionInv`, `CaptureInv`), and each
section is shown to be the right one for the cells that come. `Conforming` is
needed there and nowhere else: without it `http_pipelined_head` is a counterexample for `HeadComes`,
and a message with two ways to end or one behind a body that ends with the connection has no
one meaning that listeners could be told.

`HTTPListenersProofs` proves of the LZW pair, for every number of bytes and dictionaries, every size of
dictionary and of word, every text and every payload:

- `CodecTyped`: `LZWSpec => [](DictTypeOK /\ PairTypeOK)`
- `WordsDecode`: `LZWSpec => []IndicesAreWords`
- `NothingLost`: `LZWSpec => []RoundTrip`

Assumption: `LZWAssumption` (there is a byte, a word has room for one, the
dictionary holds at least all bytes). The argument: `Sound` adds to the two
properties their types, that every byte is a word of each tree and each encoder stands on
a node of its own tree (`Standing`), and that, while one dictionary reads, the pending
word is the one its reader stands at, and there is none while nobody reads
(`PendingIsPath`). `RoundTrip` itself says that what the encoder holds is the word of
the node it stands at, so the index it writes decodes to exactly what `taken` has more
than `given`.

Of the whole chain it proves, for every configuration, any responses in any order
and number, any payload and any amount the libraries hold back:

- `UsesLZWDict`: `Spec => LZWSpec`, a refinement: each callback is a step of the LZW pair or none
- `NothingOfAnother`: `Spec => []PayloadComesBack`
- `FilesAreRight`: `Spec => []FilesTellPayload`
- `DamageStaysSmall`: `Spec => []DamageIsBounded`
- `SummaryIsRight`: `Spec => []SummaryTells`

Assumptions: those named in `HTTPAnalyzer` and `HTTPListeners`. One of them,
`OneByOneAssumption`, is needed for `DamageStaysSmall` alone: a dictionary is read
before the next one is made, as `Settings::addLZWDict()` constructs one and then loads
its file the number of times that is configured, before it returns. Two dictionaries
that took turns would spoil a word with every turn. The argument for
`NothingOfAnother` has three parts. `Chain`: the types of the sources and of the LZW pair, whose stream
is open while a response is on. `Coming`: until a response is complete, what a codec gave
and what it still holds are its payload together, and the compressor and the decompressor
are at the same point of an open stream; once it is complete, all of it has come back
(`Streaming`); and what the LZW pair took ends with the payload, of which nothing is held
once the response is complete (`Carried`). Opening establishes both whatever was there
before, because it resets first. For the LZW pair the theorem uses
`NothingLost` through `UsesLZWDict`: what is proved of the component holds in the
composition. The rest is about the word that is kept over `reset()`: `HeldInv` says that what
the pair took is such a word and the payload behind it. When a response begins, the word
is a node of the tree, as `RoundTrip` says of what the encoder holds, and it ends what was
taken before (`EndsWith`, `IsBehind`), which is what was left open, or nothing if the
last response was closed; what is left open only grows (`UnclosedGrows`), so a word that
is held stays one.

`FilesInv`, for the files, adds which one is open (`OpenIsLatest`): the last one, of a
response that nothing interrupted, which is on or has no payload at all; and that a
response that is exported and on has its file open until a request is done
(`LatestIsOpen`). So a byte goes to the file of its own response or to none. A
response without payload is the exception: nothing tells its end, and its file stays
open for what comes on the connection next, which `FilesTellPayload` allows.

`DamageInv`, for the dictionaries, says of the one that reads that all its words are
right, as are those of each one that is still to read (`Reads`). Of those read before,
each has spoiled at most one word; and as long as the static cursor is still in the
tree of another dictionary, there is one word less so far, as a word is spoiled by the
first byte that is not found there. After it the cursor is in the tree of the reader and
stays there, so the next word can only be spoiled by the next dictionary.

`SummaryInv`, for the counters, says of every type and class that what was counted and
what a compressor still holds of the response that is on (`Awaited`) is what came, and
not more than that if one of the responses was cut off or has no type (`Tells`). Each
step is shown to move bytes from what came to what is held, or from there to what is
counted (`PiecesTraffic`, `PiecesDone`), using `Coming` for the codecs and
`Sound` for the LZW pair, whose total over all types, with what its encoder holds,
is not more than the payload (`LZWTells`). The counters are sums; they are stated and
proved as numbers of elements of sets (which byte of which response), so no fold is
needed.

`ShutdownProofs` proves, for any windows, number of connections and of signals:

- `Typed`: `Spec => []TypeOK`
- `FocusIsFound`: `Spec => []FocusIsThere`
- `ExitIsClean`: `Spec => []CleanExit`

No assumption but those on the constants. `FocusInv` adds to `FocusIsThere` where the
threads are that open and close windows: a pop-up is on top of at most the windows made so
far, and the thread that closes one is that of the keys. `CleanInv` says, as long as
all signals came where they do no harm, which objects exist at each place of
`main()` (`Made`) and of `globals_cleanup()` (`Left`: the second of two signals, and
`main()` itself, find what the first has left), and that a thread has ended before what it
uses is deleted (`Stopped`).

`ReplayInvariant` and `ReplayProofs` prove, for every recording, any number of clients
and all their options, every compressor and any interruptions:

- `Typed`: `Spec => []TypeOK`
- `Unharmed`: `Spec => []ChecksumsMatch`
- `Implements`: `Spec => ImplementsFileService`, a refinement
- `NeverTooEarly`: `Spec => []NeverEarly`
- `OnlyWorkDelays`: `Spec => LateOnlyByWork`

Assumptions: those named in `Replay`. `ReplayInvariant` has the facts about data: a finite set
of numbers has one increasing sequence (so `Sorted` and the request map are well defined
and have all times of the recording, each once), and how a flattened sequence grows by a
file. The invariant `IInv` follows a file on its way:
`Place` (where each client is in its recording), `Queue` (a client is in the backlog or
served, once), `Orders` (what arrives at the server is the request of the file the client
waits for), `Supplies` (what the server and its compressor hold is what comes next of
that file) and `Gets` (what was delivered is all that comes before the file in the
recording, `Before`, and the first pieces of the file; the stream of the connection has
the following ones). The stream has no fixed
layout, as it is cut anywhere and starts in the middle of a chunk; so `Parsed` says there
are marks in it, each the beginning of a chunk with its header or the end, such that each mark
leads to the next one.

`ReplayProofs` has one lemma per action. The refinement follows from `Gets`: a step
that delivers appends the next pieces of the file, or its end once a chunk of size 0
arrives, so what was delivered stays a prefix of `Expected`; every other step is a stutter.
Of the timing, `Pace` says that a client asks no earlier than its request is due and no
later than that, what it was late, the waits planned up to now and its work add up to
(`Latest`). The rest is arithmetic with division: `RepeatWait` rounds down, so
repeating `count` times does not take more than the time until the next request, and the
due times of two requests, both rounded down, are at least their rounded distance apart.

Only model-checked:

- all liveness (`EveryoneServed`, `SignalEnds`, `MutexIsReleased`): neither fairness nor
  ENABLED is within reach of the prover;
- `HuffmanComesBack` and `HuffmanIsOptimal`: trees and words of bits come from folds
  over data, whose induction needs an operator as a parameter.

An induction over the numbers can still be had where it is needed, as one on the least
counterexample of a set, which is how sorting and flattening are reasoned about; the
modules that are proved about hold no recursive operator.

## 6. Not modelled

Vendored libraries (`lib/`: tinyxml2, QuickLZ and LZ4, a quarter of all lines), tests,
the content of the gui's windows, gnuplot and summary output, parsing of XML and of the command
line: they compute strings, pixels or tables and keep no state that other parts depend on.
These and the comments, declarations and older code that is commented out are most of
the lines no definition stands for. `PROJECT.json` lists each part with its reason.

Within what is modelled: the layout of packets in memory, memory exhaustion, the 4 GB
limits of `uint32_t` lengths, a data race of the gui or exporter threads on the
statistics; the DictFlex codec, the sizes that compression gives, the preset dictionary
of gzip (its decompressor is never given one) and the errors of the libraries, and pieces
of payload larger than the buffers of the wrappers (64 KB, 512 KB); lists and tabs within a
panel; more than
one connection behind the listeners at a time; averages and the table of words.
