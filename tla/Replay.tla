------------------------------- MODULE Replay -------------------------------
(***************************************************************************)
(* PowerAnalyzer: clients that ask a server for the files of a recording   *)
(* at the times they were recorded, over one TCP connection per file.      *)
(*                                                                         *)
(* Every process is one thread. A client (ClientApp) sleeps until a        *)
(* request is due, then asks for each file of it, receives it in chunks,   *)
(* and does so `count` times. The server (ServerApp) serves one connection *)
(* after the other. send() and recv() are those of Socket: recv() collects *)
(* as many bytes as were asked for, from whatever pieces have arrived.     *)
(*                                                                         *)
(* The stream of a connection is a sequence of cells: two for a request,   *)
(* two for the information on a chunk, one for each piece of payload.      *)
(* What a chunk holds is the same before and after compression; what       *)
(* compression changes is when it comes out of the compressor.             *)
(***************************************************************************)
EXTENDS Integers, Sequences, FiniteSets, SequencesExt

CONSTANTS
    Clients,
    Recording,  \* the lines of the .dat files of each client, as they are read
    Size,       \* of the files that were recorded
    MayMiss,    \* files that the server may not have
    Options,    \* the command line each client is started with
    Killable,   \* processes the operator may stop with ctrl-c
    MaxDelays   \* bound: how long something other than sleeping takes in all

ASSUME RecordingAssumption ==
    /\ Recording \in [Clients -> Seq([at : Nat, file : DOMAIN Size]) \ {<<>>}]
    /\ Size \in [DOMAIN Size -> Nat]

\* A replay speed of 0 divides by zero, a chunk size of 0 never reaches the
\* end of a file.
ASSUME OptionsAssumption ==
    Options \in [Clients -> [speed : Nat \ {0}, count : Nat, chunkSize : Nat \ {0},
                             verify : BOOLEAN, streaming : BOOLEAN]]

ASSUME BoundAssumption ==
    /\ MayMiss \subseteq DOMAIN Size
    /\ Killable \subseteq Clients \cup {"server"}
    /\ MaxDelays \in Nat

VARIABLES
    missing,    \* files that the server does not have; never changes
    now,        \* time since the clients were started
    delays,     \* how much of it passed while somebody was at work
    client,     \* ClientApp: where it is, and the locals of its methods
    busy,       \* history: time a client was at work since its last waitTillRequest()
    connection, \* the latest connection of each client
    backlog,    \* connections the server has not accepted
    server,     \* ServerApp and PayloadDirectory
    delivered   \* what each client passed on to its decompressor

vars == <<missing, now, delays, client, busy, connection, backlog, server, delivered>>

Smaller(a, b) == IF a < b THEN a ELSE b
Larger(a, b) == IF a < b THEN b ELSE a

-----------------------------------------------------------------------------
(* The recording *)

\* Mutant of Times: requests in the order of the lines
TimesAsRead(c) == [i \in DOMAIN Recording[c] |-> Recording[c][i].at]

\* The keys of a map, in their order
Sorted(S) ==
    CHOOSE s \in [1 .. Cardinality(S) -> S] :
        \A i, j \in 1 .. Cardinality(S) : i < j => s[i] < s[j]

Times(c) == Sorted({Recording[c][i].at : i \in DOMAIN Recording[c]})

FilesAt(c, t) ==
    LET lines == Sorted({i \in DOMAIN Recording[c] : Recording[c][i].at = t})
    IN  [i \in DOMAIN lines |-> Recording[c][lines[i]].file]

\* The map from time stamps to files, in the order of its keys
Requests ==
    [c \in Clients |-> [k \in DOMAIN Times(c) |->
        [at |-> Times(c)[k], files |-> FilesAt(c, Times(c)[k])]]]

\* When a request is due
DueAt(c, k) == (Requests[c][k].at - Requests[c][1].at) \div Options[c].speed

TillNext(c, k) == (Requests[c][k + 1].at - Requests[c][k].at) \div Options[c].speed

\* Mutant of RepeatWait: does not take into account that the client is late
RepeatWaitWhenLate(c, k, tooLate) ==
    IF Options[c].count > 1 /\ k < Len(Requests[c])
    THEN TillNext(c, k) \div Options[c].count
    ELSE 0

\* The time between two repetitions of a request
RepeatWait(c, k, tooLate) ==
    IF Options[c].count > 1 /\ k < Len(Requests[c])
    THEN Larger(TillNext(c, k) - tooLate, 0) \div Options[c].count
    ELSE 0

-----------------------------------------------------------------------------
(* Sockets *)

RequestSize == 2
InfoSize == 2

NoConnection ==
    [up |-> <<>>, down |-> <<>>, clientOpen |-> FALSE, serverOpen |-> FALSE, reset |-> FALSE]
NewConnection == [NoConnection EXCEPT !.clientOpen = TRUE, !.serverOpen = TRUE]

\* The kernel closes what a process leaves open.
ClosedByClient(n) == [n EXCEPT !.clientOpen = FALSE, !.down = <<>>]

Listening == server.pc \notin {"failed", "interrupted"}

RequestCells(f, o) == <<<<"file", f>>, <<"options", o>>>>

\* Mutant of InfoCells: the checksum is not set for every chunk.
InfoWithOldSum(chunk, verify) == <<<<"size", Len(chunk)>>, <<"sum", <<>>>>>>

InfoCells(chunk, verify) == <<<<"size", Len(chunk)>>, <<"sum", IF verify THEN chunk ELSE <<>>>>>>

-----------------------------------------------------------------------------
(* The client *)

Wanted(c) == IF client[c].pc = "info" THEN InfoSize ELSE client[c].info[1][2]

\* The client ends, its sockets are closed.
Ends(c, pc) ==
    /\ client' = [client EXCEPT ![c].pc = pc]
    /\ connection' = [connection EXCEPT ![c] = ClosedByClient(@)]
    /\ UNCHANGED <<missing, now, delays, busy, backlog, server, delivered>>

\* How late a client is with its next request
TooLate(c) == Larger(now - DueAt(c, client[c].request), 0)

\* Sleeps until the request is due, or finds how late it is.
WaitTillRequest(c) ==
    LET s == client[c]
        due == DueAt(c, s.request)
        tooLate == TooLate(c)
    IN  /\ s.pc = "due" /\ s.request <= Len(Requests[c])
        /\ client' = [client EXCEPT ![c] =
             [s EXCEPT !.pc = IF now < due THEN "waiting" ELSE "repeat",
                       !.until = Larger(now, due),
                       !.tooLate = tooLate,
                       !.repeatWait = RepeatWait(c, s.request, tooLate),
                       !.repeat = 0]]
        /\ busy' = [busy EXCEPT ![c] = 0]
        /\ UNCHANGED <<missing, now, delays, connection, backlog, server, delivered>>

\* Mutant of HandleRepeatedRequest: does not sleep.
HandleAtOnce(c) ==
    LET s == client[c]
    IN  /\ s.pc \in {"waiting", "repeat"}
        /\ client' = [client EXCEPT ![c] =
             IF s.repeat < Options[c].count
             THEN [s EXCEPT !.pc = "connect", !.repeat = @ + 1, !.file = 1, !.begun = now]
             ELSE [s EXCEPT !.pc = "due", !.request = @ + 1]]
        /\ UNCHANGED <<missing, now, delays, busy, connection, backlog, server, delivered>>

\* A client that slept long enough asks for the files of a request, again or
\* for the first time, or turns to the next request.
HandleRepeatedRequest(c) ==
    LET s == client[c]
    IN  /\ s.pc \in {"waiting", "repeat"} /\ now >= s.until
        /\ client' = [client EXCEPT ![c] =
             IF s.repeat < Options[c].count
             THEN [s EXCEPT !.pc = "connect", !.repeat = @ + 1, !.file = 1, !.begun = now]
             ELSE [s EXCEPT !.pc = "due", !.request = @ + 1]]
        /\ UNCHANGED <<missing, now, delays, busy, connection, backlog, server, delivered>>

Finish(c) ==
    /\ client[c].pc = "due" /\ client[c].request > Len(Requests[c])
    /\ client' = [client EXCEPT ![c].pc = "done"]
    /\ UNCHANGED <<missing, now, delays, busy, connection, backlog, server, delivered>>

Connect(c) ==
    /\ client[c].pc = "connect" /\ Listening
    /\ client' = [client EXCEPT ![c].pc = "request"]
    /\ connection' = [connection EXCEPT ![c] = NewConnection]
    /\ backlog' = Append(backlog, c)
    /\ UNCHANGED <<missing, now, delays, busy, server, delivered>>

ConnectFails(c) == client[c].pc = "connect" /\ ~Listening /\ Ends(c, "failed")

\* send() to a server that ended may go well; its kernel then answers with a
\* reset, which comes too late if the end of the stream was seen before.
RequestFile(c) ==
    LET s == client[c]
        file == Requests[c][s.request].files[s.file]
    IN  /\ s.pc = "request"
        /\ client' = [client EXCEPT ![c].pc = "info", ![c].buffer = <<>>]
        /\ IF connection[c].serverOpen
           THEN connection' = [connection EXCEPT ![c].up = RequestCells(file, Options[c])]
           ELSE \E seen \in BOOLEAN : connection' = [connection EXCEPT ![c].reset = @ \/ seen]
        /\ UNCHANGED <<missing, now, delays, busy, backlog, server, delivered>>

RequestFails(c) == client[c].pc = "request" /\ ~connection[c].serverOpen /\ Ends(c, "failed")

\* Some of the bytes that are still wanted have arrived.
Receive(c) ==
    LET s == client[c]
        down == connection[c].down
    IN  /\ s.pc \in {"info", "chunk"}
        /\ \E n \in 1 .. Smaller(Wanted(c) - Len(s.buffer), Len(down)) :
             /\ client' = [client EXCEPT ![c].buffer = @ \o SubSeq(down, 1, n)]
             /\ connection' = [connection EXCEPT ![c].down = SubSeq(down, n + 1, Len(down))]
        /\ UNCHANGED <<missing, now, delays, busy, backlog, server, delivered>>

\* recv() returns -1. When the server closed its end otherwise, recv() returns
\* 0, nothing changes and the loop goes on: no step at all.
ReceiveFails(c) ==
    /\ client[c].pc \in {"info", "chunk"} /\ Len(client[c].buffer) < Wanted(c)
    /\ connection[c].down = <<>> /\ connection[c].reset
    /\ Ends(c, "failed")

\* All files of a request are there: sleeps until the next repetition.
AfterRequest(c) ==
    LET s == client[c]
        requestTime == now - s.begun
    IN  [s EXCEPT !.pc = "repeat", !.until = now + Larger(s.repeatWait - requestTime, 0)]

UseInfo(c) ==
    LET s == client[c]
        file == Requests[c][s.request].files[s.file]
    IN  /\ s.pc = "info" /\ Len(s.buffer) = InfoSize
        /\ IF s.buffer[1][2] > 0
           THEN /\ client' = [client EXCEPT ![c] =
                     [s EXCEPT !.pc = "chunk", !.info = s.buffer, !.buffer = <<>>]]
                /\ UNCHANGED <<connection, delivered>>
           ELSE /\ client' = [client EXCEPT ![c] =
                     IF s.file < Len(Requests[c][s.request].files)
                     THEN [s EXCEPT !.pc = "connect", !.file = @ + 1]
                     ELSE AfterRequest(c)]
                /\ connection' = [connection EXCEPT ![c] = NoConnection]
                /\ delivered' = [delivered EXCEPT ![c] = Append(@, <<file, 0>>)]
        /\ UNCHANGED <<missing, now, delays, busy, backlog, server>>

Verified(c) == Options[c].verify => client[c].info[2][2] = client[c].buffer

\* A chunk goes to the decompressor, unless verifyChunk() ends the program.
UseChunk(c) ==
    LET s == client[c]
    IN  /\ s.pc = "chunk" /\ Len(s.buffer) = Wanted(c)
        /\ IF Verified(c)
           THEN /\ client' = [client EXCEPT ![c].pc = "info", ![c].buffer = <<>>]
                /\ delivered' = [delivered EXCEPT ![c] = @ \o s.buffer]
                /\ UNCHANGED connection
           ELSE /\ client' = [client EXCEPT ![c].pc = "corrupt"]
                /\ connection' = [connection EXCEPT ![c] = ClosedByClient(@)]
                /\ UNCHANGED delivered
        /\ UNCHANGED <<missing, now, delays, busy, backlog, server>>

-----------------------------------------------------------------------------
(* The server *)

\* The server ends, by an exception or by ctrl-c. A connection with unread
\* bytes, or one that was never accepted, is reset.
ServerEnds(pc) ==
    /\ server' = [server EXCEPT !.pc = pc]
    /\ connection' = [c \in Clients |->
         [connection[c] EXCEPT
            !.serverOpen = FALSE, !.up = <<>>,
            !.reset = @ \/ (connection[c].serverOpen
                              /\ (connection[c].up # <<>> \/ \E i \in DOMAIN backlog : backlog[i] = c))]]
    /\ backlog' = <<>>
    /\ UNCHANGED <<missing, now, delays, client, busy, delivered>>

Accept ==
    /\ server.pc = "accept" /\ backlog # <<>>
    /\ server' = [server EXCEPT !.pc = "request", !.client = Head(backlog), !.buffer = <<>>]
    /\ backlog' = Tail(backlog)
    /\ UNCHANGED <<missing, now, delays, client, busy, connection, delivered>>

\* As for the client, a connection that the client closed leaves it waiting.
ReceiveRequest ==
    LET up == connection[server.client].up
    IN  /\ server.pc = "request"
        /\ \E n \in 1 .. Smaller(RequestSize - Len(server.buffer), Len(up)) :
             /\ server' = [server EXCEPT !.buffer = @ \o SubSeq(up, 1, n)]
             /\ connection' = [connection EXCEPT ![server.client].up = SubSeq(up, n + 1, Len(up))]
        /\ UNCHANGED <<missing, now, delays, client, busy, backlog, delivered>>

Asked == server.buffer[1][2]
AskedOptions == server.buffer[2][2]

\* Mutant of Opened: the end of the last file is the end of this one.
OpenedAtEnd(s) == [s EXCEPT !.pc = "read", !.offset = 0, !.held = <<>>]

\* A new file, from its start, with a new compression stream
Opened(s) == [s EXCEPT !.pc = "read", !.offset = 0, !.eof = FALSE, !.held = <<>>]

OpenFile ==
    /\ server.pc = "request" /\ Len(server.buffer) = RequestSize
    /\ Asked \notin missing
    /\ server' = Opened(server)
    /\ UNCHANGED <<missing, now, delays, client, busy, connection, backlog, delivered>>

OpenFails ==
    /\ server.pc = "request" /\ Len(server.buffer) = RequestSize
    /\ Asked \in missing
    /\ ServerEnds("failed")

\* Mutant of ReachedEnd: only nothing at all is the end.
ReachedNothing(count) == count < 0

\* A read that returns less than was asked for
ReachedEnd(count) == count # AskedOptions.chunkSize

\* readFile(): what is read goes through the compressor, which keeps some of
\* it if it is a streaming one. Nothing is sent if nothing comes out.
ReadFile ==
    LET count == Smaller(AskedOptions.chunkSize, Size[Asked] - server.offset)
        data == server.held \o [i \in 1 .. count |-> <<Asked, server.offset + i>>]
    IN  /\ server.pc = "read" /\ ~server.eof
        /\ \E n \in (IF AskedOptions.streaming THEN 0 ELSE Len(data)) .. Len(data) :
             server' = [server EXCEPT !.pc = IF n = 0 THEN "read" ELSE "info",
                                      !.offset = @ + count, !.eof = ReachedEnd(count),
                                      !.chunk = SubSeq(data, 1, n),
                                      !.held = SubSeq(data, n + 1, Len(data)),
                                      !.last = FALSE]
        /\ UNCHANGED <<missing, now, delays, client, busy, connection, backlog, delivered>>

\* getRemainingData(): the compressor is closed.
GetRemainingData ==
    /\ server.pc = "read" /\ server.eof
    /\ server' = [server EXCEPT !.pc = IF server.held = <<>> THEN "end" ELSE "info",
                                !.chunk = server.held, !.held = <<>>, !.last = TRUE]
    /\ UNCHANGED <<missing, now, delays, client, busy, connection, backlog, delivered>>

Sent(cells) ==
    IF connection[server.client].clientOpen
    THEN [connection EXCEPT ![server.client].down = @ \o cells]
    ELSE connection

SendInfo ==
    /\ server.pc = "info"
    /\ connection' = Sent(InfoCells(server.chunk, AskedOptions.verify))
    /\ server' = [server EXCEPT !.pc = "chunk"]
    /\ UNCHANGED <<missing, now, delays, client, busy, backlog, delivered>>

SendChunk ==
    /\ server.pc = "chunk"
    /\ connection' = Sent(server.chunk)
    /\ server' = [server EXCEPT !.pc = IF server.last THEN "end" ELSE "read"]
    /\ UNCHANGED <<missing, now, delays, client, busy, backlog, delivered>>

\* The end of the file is told, and the socket is closed.
SendEnd ==
    /\ server.pc = "end"
    /\ connection' = [Sent(InfoCells(<<>>, FALSE)) EXCEPT ![server.client].serverOpen = FALSE]
    /\ server' = [server EXCEPT !.pc = "accept", !.client = "none", !.buffer = <<>>, !.chunk = <<>>]
    /\ UNCHANGED <<missing, now, delays, client, busy, backlog, delivered>>

\* send() to a client that ended fails sooner or later.
SendFails ==
    /\ server.pc \in {"info", "chunk", "end"} /\ ~connection[server.client].clientOpen
    /\ ServerEnds("failed")

-----------------------------------------------------------------------------
(* Time, the operator and the whole system *)

Ended == {"done", "failed", "corrupt", "interrupted"}
Asleep(c) == client[c].pc \in {"waiting", "repeat"} /\ now < client[c].until
AtWork(c) == client[c].pc \notin Ended /\ ~Asleep(c)

Tick ==
    /\ \E c \in Clients : AtWork(c) \/ Asleep(c)
    /\ (\E c \in Clients : AtWork(c)) => delays < MaxDelays
    /\ now' = now + 1
    /\ delays' = IF \E c \in Clients : AtWork(c) THEN delays + 1 ELSE delays
    /\ busy' = [c \in Clients |-> IF AtWork(c) THEN busy[c] + 1 ELSE busy[c]]
    /\ UNCHANGED <<missing, client, connection, backlog, server, delivered>>

InterruptClient(c) == c \in Killable /\ client[c].pc \notin Ended /\ Ends(c, "interrupted")
InterruptServer == "server" \in Killable /\ Listening /\ ServerEnds("interrupted")

Init ==
    /\ missing \in SUBSET MayMiss
    /\ now = 0 /\ delays = 0
    /\ client = [c \in Clients |->
         [pc |-> "due", request |-> 1, repeat |-> 0, file |-> 1, tooLate |-> 0, repeatWait |-> 0,
          begun |-> 0, until |-> 0, buffer |-> <<>>, info |-> <<>>]]
    /\ busy = [c \in Clients |-> 0]
    /\ connection = [c \in Clients |-> NoConnection]
    /\ backlog = <<>>
    /\ server = [pc |-> "accept", client |-> "none", buffer |-> <<>>, offset |-> 0,
                 eof |-> FALSE, held |-> <<>>, chunk |-> <<>>, last |-> FALSE]
    /\ delivered = [c \in Clients |-> <<>>]

Client(c) ==
    \/ WaitTillRequest(c) \/ HandleRepeatedRequest(c) \/ Finish(c)
    \/ Connect(c) \/ ConnectFails(c)
    \/ RequestFile(c) \/ RequestFails(c)
    \/ Receive(c) \/ ReceiveFails(c)
    \/ UseInfo(c) \/ UseChunk(c)

Server ==
    \/ Accept \/ ReceiveRequest \/ OpenFile \/ OpenFails
    \/ ReadFile \/ GetRemainingData
    \/ SendInfo \/ SendChunk \/ SendEnd \/ SendFails

Next ==
    \/ \E c \in Clients : Client(c)
    \/ Server
    \/ Tick
    \/ \E c \in Clients : InterruptClient(c)
    \/ InterruptServer

Spec == Init /\ [][Next]_vars

\* Each process is scheduled, and time passes.
Fairness == WF_vars(Server) /\ WF_vars(Tick) /\ \A c \in Clients : WF_vars(Client(c))

FairSpec == Spec /\ Fairness
-----------------------------------------------------------------------------
(* Properties *)

\* What a client is to get: for each time stamp, in their order, the contents
\* of its files with their ends, as often as the client repeats requests
FileCells(f) == [i \in 1 .. Size[f] |-> <<f, i>>] \o <<<<f, 0>>>>

KthTime(c, k) ==
    LET times == {Recording[c][i].at : i \in DOMAIN Recording[c]}
    IN  CHOOSE t \in times : Cardinality({u \in times : u < t}) = k - 1

Expected ==
    [c \in Clients |->
       LET times == {Recording[c][i].at : i \in DOMAIN Recording[c]}
           Group(k) == FlattenSeq([i \in DOMAIN FilesAt(c, KthTime(c, k)) |->
                                     FileCells(FilesAt(c, KthTime(c, k))[i])])
       IN  FlattenSeq([k \in 1 .. Cardinality(times) |->
               FlattenSeq([r \in 1 .. Options[c].count |-> Group(k)])])]

\* The replay implements the file service: whatever the chunks, the pieces
\* they arrive in, the compression and who is interrupted, a client only ever
\* gets what comes next in its recording.
Service == INSTANCE FileService
ImplementsFileService == Service!Spec

\* The checksum sent with a chunk is that of the bytes that arrive as the
\* chunk, so error() in verifyChunk() is never reached.
ChecksumsMatch == \A c \in Clients : client[c].pc # "corrupt"

\* No request is sent before its time, also after repetitions: the distance to
\* the first request, divided by the replay speed, has passed.
NeverEarly ==
    \A c \in Clients :
        client[c].pc \in {"connect", "request", "info", "chunk"} =>
            (now + 1) * Options[c].speed
                > Requests[c][client[c].request].at - Requests[c][1].at

\* Repeating a request does not make the next one late: it is late at most by
\* the time the client was at work, and by what the client was late already
\* and could not catch up in the time between the two requests.
LateOnlyByWork ==
    [][\A c \in Clients :
         /\ client[c].pc = "due" /\ client'[c].pc \in {"waiting", "repeat"}
         /\ client[c].request > 1
         => client'[c].tooLate <=
              busy[c] + Larger(client[c].tooLate - TillNext(c, client[c].request - 1), 0)]_vars

Undisturbed ==
    /\ missing = {}
    /\ \A c \in Clients : client[c].pc # "interrupted"
    /\ server.pc # "interrupted"

\* Unless somebody is interrupted or a file is missing, every client gets all of its files and
\* ends, and so does the wait of one client for the service of another.
EveryoneServed ==
    []Undisturbed => <>(Service!Complete /\ \A c \in Clients : client[c].pc = "done")

\* "Receive the file chunk after chunk till it is finished": a client that
\* waits for the next chunk goes on, or fails with an exception.
ReceivingEnds ==
    \A c \in Clients : client[c].pc = "info" ~> client[c].pc # "info"
=============================================================================
