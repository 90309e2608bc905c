---------------------------- MODULE ReplayProofs ----------------------------
(***************************************************************************)
(* What is proved of a replay, for every recording, every number of        *)
(* clients and all their options: the clients get their files completely   *)
(* and in order (it implements the file service), no checksum fails, no    *)
(* request is early, and only work makes one late.                         *)
(***************************************************************************)
EXTENDS ReplayInvariant

-----------------------------------------------------------------------------
(* What a step leaves alone *)

\* The server goes on with what it does for a client, or leaves it.
SameService(c) ==
    Serves(c)' =>
        /\ Serves(c) /\ Shown' = Shown
        /\ server'.pc = "chunk" <=> server.pc = "chunk"
        /\ server.pc = "chunk" => server'.chunk = server.chunk

\* A message stays one when it arrives, and when others are served.
LEMMA MessageKept ==
    ASSUME NEW c \in Clients, NEW marks, NEW i, NEW n, Message(c, marks, i, n),
           Stream(c)' = Stream(c), FileOf(c)' = FileOf(c), Waits(c)' => Waits(c), SameService(c)
    PROVE  Message(c, marks, i, n)'
  <1>1. i \in 1 .. Len(Stream(c)) + 1 /\ n \in 0 .. Size[FileOf(c)]
    BY DEF Message
  <1>2. i = Len(Stream(c)) + 1 => /\ Serves(c)' => server'.pc # "chunk" /\ n = Shown'
                                  /\ Waits(c)' => n = 0
    BY DEF Message, SameService
  <1>3. i <= Len(Stream(c)) =>
         /\ ~Waits(c)' /\ i + 1 <= Len(Stream(c))
         /\ \E m \in Nat, x \in Seq(Payload) :
              /\ Stream(c)[i] = <<"size", m>> /\ Stream(c)[i + 1] = <<"sum", x>>
              /\ Whole(c, marks, i, n, m, x)' \/ Begun(c, i, n, m, x)'
    <2> SUFFICES ASSUME i <= Len(Stream(c))
                 PROVE /\ ~Waits(c)' /\ i + 1 <= Len(Stream(c))
                       /\ \E m \in Nat, x \in Seq(Payload) :
                            /\ Stream(c)[i] = <<"size", m>> /\ Stream(c)[i + 1] = <<"sum", x>>
                            /\ Whole(c, marks, i, n, m, x)' \/ Begun(c, i, n, m, x)'
      OBVIOUS
    <2>1. ~Waits(c)' /\ i + 1 <= Len(Stream(c))
      BY DEF Message
    <2>2. PICK m \in Nat, x \in Seq(Payload) :
            /\ Stream(c)[i] = <<"size", m>> /\ Stream(c)[i + 1] = <<"sum", x>>
            /\ Whole(c, marks, i, n, m, x) \/ Begun(c, i, n, m, x)
      BY DEF Message
    <2>3. Whole(c, marks, i, n, m, x) => Whole(c, marks, i, n, m, x)'
      BY DEF Whole, SameService
    <2>4. Begun(c, i, n, m, x) => Begun(c, i, n, m, x)'
      BY DEF Begun, SameService
    <2> QED
      BY <2>1, <2>2, <2>3, <2>4
  <1> QED
    BY <1>1, <1>2, <1>3 DEF Message

\* So does a stream.
LEMMA ParsedKept ==
    ASSUME NEW c \in Clients, NEW n, Parsed(c, n),
           Stream(c)' = Stream(c), FileOf(c)' = FileOf(c), Waits(c)' => Waits(c), SameService(c)
    PROVE  Parsed(c, n)'
  <1>1. PICK marks \in SUBSET (Nat \X Nat) :
          <<1, n>> \in marks /\ \A p \in marks : Message(c, marks, p[1], p[2])
    BY DEF Parsed
  <1>2. \A p \in marks : Message(c, marks, p[1], p[2])'
    BY <1>1, MessageKept
  <1> QED
    BY <1>1, <1>2 DEF Parsed

\* What a client gets stays the same when others take a step.
LEMMA GetsKept ==
    ASSUME NEW c \in Clients, Gets(c), client'[c] = client[c], delivered'[c] = delivered[c],
           client[c].pc \in InTouch =>
               /\ connection'[c].down = connection[c].down
               /\ Waits(c)' => Waits(c)
               /\ SameService(c)
    PROVE  Gets(c)'
  <1>1. FileOf(c)' = FileOf(c)
    BY DEF FileOf, Files
  <1>2. client[c].pc \in InTouch => Stream(c)' = Stream(c)
    BY DEF Stream
  <1>3. ASSUME client[c].pc \in InTouch
        PROVE  \E n \in 0 .. Size[FileOf(c)] :
                 /\ delivered[c] = Before(c, client[c].request, client[c].repeat, client[c].file)
                                     \o Pieces(FileOf(c), 0, n)
                 /\ Parsed(c, n)'
                 /\ client[c].pc = "request" => n = 0 /\ Stream(c) = <<>>
    <2>1. PICK n \in 0 .. Size[FileOf(c)] :
                 /\ delivered[c] = Before(c, client[c].request, client[c].repeat, client[c].file)
                                     \o Pieces(FileOf(c), 0, n)
                 /\ Parsed(c, n)
                 /\ client[c].pc = "request" => n = 0 /\ Stream(c) = <<>>
      BY <1>3 DEF Gets
    <2>2. Parsed(c, n)'
      BY <1>1, <1>2, <1>3, <2>1, ParsedKept
    <2> QED
      BY <2>1, <2>2
  <1> QED
    BY <1>1, <1>2, <1>3 DEF Gets

\* So does what it asked for.
LEMMA OrderKept ==
    ASSUME NEW c \in Clients, Order(c),
           Serves(c)' \/ Waits(c)' => Serves(c) \/ Waits(c),
           Serves(c)' \/ Waits(c)' => Ordered(c)' = Ordered(c),
           client'[c].pc = "request" => client[c].pc = "request",
           client'[c].pc \in InTouch => client[c].pc \in InTouch /\ FileOf(c)' = FileOf(c)
    PROVE  Order(c)'
  <1>1. SUFFICES ASSUME Serves(c)' \/ Waits(c)'
                 PROVE  /\ Ordered(c)' # <<>> =>
                             \E f \in DOMAIN Size : /\ Ordered(c)' = RequestCells(f, Options[c])
                                                    /\ client'[c].pc \in InTouch => f = FileOf(c)'
                        /\ client'[c].pc = "request" => Ordered(c)' = <<>>
    BY DEF Order
  <1>2. /\ Ordered(c) # <<>> =>
             \E f \in DOMAIN Size : /\ Ordered(c) = RequestCells(f, Options[c])
                                    /\ client[c].pc \in InTouch => f = FileOf(c)
        /\ client[c].pc = "request" => Ordered(c) = <<>>
        /\ Ordered(c)' = Ordered(c)
    BY <1>1 DEF Order
  <1> QED
    BY <1>2

\* A step of a client keeps the invariant, if it does for this client.
LEMMA ClientStep ==
    ASSUME IInv, TypeOK', NEW c \in Clients, server' = server, backlog' = backlog,
           \A d \in Clients \ {c} : /\ client'[d] = client[d] /\ connection'[d] = connection[d]
                                    /\ delivered'[d] = delivered[d],
           Place(c)', Order(c)', Gets(c)',
           client'[c].pc \in Apart => ~Serves(c) /\ ~Waits(c),
           client'[c].pc \in InTouch => connection'[c].clientOpen
    PROVE  IInv'
  <1>1. \A d \in Clients : (Serves(d)' <=> Serves(d)) /\ (Waits(d)' <=> Waits(d))
    BY DEF Serves, Waits
  <1>2. \A d \in Clients : SameService(d)
    BY <1>1 DEF SameService, Shown
  <1>3. ASSUME NEW d \in Clients \ {c} PROVE Place(d)' /\ Order(d)' /\ Gets(d)'
    <2>1. Place(d)'
      BY SMTT(30) DEF IInv, Place, Files
    <2>2. Order(d)'
      <3>1. Ordered(d)' = Ordered(d) /\ FileOf(d)' = FileOf(d)
        BY <1>1 DEF Ordered, FileOf, Files
      <3>2. Order(d)
        BY DEF IInv, Data, Orders
      <3> QED
        BY <1>1, <3>1, <3>2, OrderKept
    <2>3. Gets(d)'
      <3>1. Gets(d)
        BY DEF IInv, Data
      <3> QED
        BY <1>1, <1>2, <3>1, GetsKept
    <2> QED
      BY <2>1, <2>2, <2>3
  <1>4. Queue'
    <2>1. Queue
      BY DEF IInv, Data
    <2>2. /\ server'.pc \in AtServer => server'.client \in Clients
          /\ \A i, j \in DOMAIN backlog' : backlog'[i] = backlog'[j] => i = j
      BY <2>1 DEF Queue
    <2>3. \A d \in Clients : /\ ~(Serves(d)' /\ Waits(d)')
                             /\ client'[d].pc \in Apart => ~Serves(d)' /\ ~Waits(d)'
                             /\ client'[d].pc \in InTouch => connection'[d].clientOpen
      <3> SUFFICES ASSUME NEW d \in Clients
                   PROVE  /\ ~(Serves(d)' /\ Waits(d)')
                          /\ client'[d].pc \in Apart => ~Serves(d)' /\ ~Waits(d)'
                          /\ client'[d].pc \in InTouch => connection'[d].clientOpen
        OBVIOUS
      <3>1. CASE d = c
        BY <1>1, <2>1, <3>1 DEF Queue
      <3>2. CASE d # c
        BY <1>1, <2>1, <3>2 DEF Queue
      <3> QED
        BY <3>1, <3>2
    <2> QED
      BY <2>2, <2>3 DEF Queue
  <1>5. Supplies'
    BY DEF IInv, Data, Supplies, Shown, Asked, Numbered
  <1> QED
    BY <1>3, <1>4, <1>5 DEF IInv, Data, Orders

\* A step of the server for its client keeps the invariant, if it does for
\* this client.
LEMMA ServerStep ==
    ASSUME IInv, TypeOK', server.pc \in AtServer, server'.pc \in AtServer,
           NEW c \in Clients, server.client = c, server'.client = c,
           client' = client, delivered' = delivered, backlog' = backlog,
           \A d \in Clients \ {c} : connection'[d] = connection[d],
           connection'[c].clientOpen = connection[c].clientOpen,
           Supplies', Order(c)', Gets(c)'
    PROVE  IInv'
  <1>1. \A d \in Clients : (Serves(d)' <=> Serves(d)) /\ (Waits(d)' <=> Waits(d))
    BY DEF Serves, Waits
  <1>2. ASSUME NEW d \in Clients \ {c} PROVE Order(d)' /\ Gets(d)'
    <2>1. ~Serves(d) /\ ~Serves(d)' /\ SameService(d)
      BY <1>1 DEF Serves, SameService
    <2>2. Order(d)'
      <3>1. Ordered(d)' = Ordered(d) /\ FileOf(d)' = FileOf(d)
        BY <2>1 DEF Ordered, FileOf, Files
      <3>2. Order(d)
        BY DEF IInv, Data, Orders
      <3> QED
        BY <1>1, <3>1, <3>2, OrderKept
    <2>3. Gets(d)'
      <3>1. Gets(d)
        BY DEF IInv, Data
      <3> QED
        BY <1>1, <2>1, <3>1, GetsKept
    <2> QED
      BY <2>2, <2>3
  <1>3. \A d \in Clients : Order(d)' /\ Gets(d)'
    BY <1>2
  <1>4. \A d \in Clients : Place(d)'
    BY DEF IInv, Place, Files
  <1>5. Queue'
    BY <1>1 DEF IInv, Data, Queue
  <1> QED
    BY <1>3, <1>4, <1>5 DEF IInv, Data, Orders

-----------------------------------------------------------------------------
(* The clients' steps *)

\* A client that is not in touch is neither served nor waits, and the request
\* it deals with is one of its recording.
LEMMA ApartIs ==
    ASSUME IInv, NEW c \in Clients
    PROVE  /\ client[c] \in ClientType /\ connection[c] \in ConnectionType
           /\ Place(c) /\ Order(c) /\ Gets(c) /\ Queue
           /\ client[c].pc \in Apart => ~Serves(c) /\ ~Waits(c)
           /\ client[c].pc \in InTouch => connection[c].clientOpen
           /\ connection[c].down \in Seq(Cells) /\ connection[c].up \in Seq(OrderCells)
           /\ delivered[c] \in Seq(Cells)
  BY DEF IInv, TypeOK, Data, Queue, Orders, ConnectionType

\* A client looks at the clock.
LEMMA WaitTillRequestKeeps ==
    ASSUME IInv, NEW c \in Clients, WaitTillRequest(c) PROVE IInv'
  <1> DEFINE s == client[c]
             t == client'[c]
  <1>1. /\ s \in ClientType /\ s.pc = "due" /\ s.request <= Len(Requests[c])
        /\ Place(c) /\ Order(c) /\ Gets(c) /\ ~Serves(c) /\ ~Waits(c)
    BY ApartIs DEF WaitTillRequest, Apart
  <1>2. t.pc \in {"waiting", "repeat"} /\ t.request = s.request /\ t.repeat = 0
    <2>1. client \in [Clients -> ClientType]
      BY DEF IInv, TypeOK
    <2> QED
      BY <1>1, <2>1 DEF WaitTillRequest, ClientType
  <1>3. /\ \A d \in Clients \ {c} : client'[d] = client[d]
        /\ connection' = connection /\ delivered' = delivered /\ server' = server /\ backlog' = backlog
    BY DEF IInv, TypeOK, WaitTillRequest
  <1>4. Place(c)'
    BY <1>1, <1>2, OptionsAre DEF Place, Asking, InTouch
  <1>5. Serves(c)' = Serves(c) /\ Waits(c)' = Waits(c)
    BY <1>3 DEF Serves, Waits
  <1>6. Order(c)'
    BY <1>1, <1>5 DEF Order
  <1>7. Gets(c)'
    <2>1. delivered[c] = Before(c, s.request, 1, 1)
      BY <1>1 DEF Gets
    <2>2. 0 + 1 = 1
      OBVIOUS
    <2> QED
      BY <1>2, <1>3, <2>1, <2>2 DEF Gets, InTouch
  <1> QED
    BY <1>1, <1>2, <1>3, <1>4, <1>6, <1>7, WaitTillRequestType, ClientStep DEF InTouch

\* A client turns to a request again, or to the next one.
LEMMA HandleRepeatedRequestKeeps ==
    ASSUME IInv, NEW c \in Clients, HandleRepeatedRequest(c) PROVE IInv'
  <1> DEFINE s == client[c]
             t == client'[c]
             count == Options[c].count
             k == s.request
  <1>1. /\ s \in ClientType /\ s.pc \in {"waiting", "repeat"}
        /\ Place(c) /\ Order(c) /\ Gets(c) /\ ~Serves(c) /\ ~Waits(c)
    BY ApartIs DEF HandleRepeatedRequest, Apart
  <1>2. /\ \A d \in Clients \ {c} : client'[d] = client[d]
        /\ connection' = connection /\ delivered' = delivered /\ server' = server /\ backlog' = backlog
    BY DEF IInv, TypeOK, HandleRepeatedRequest
  <1>3. /\ k \in 1 .. Len(Requests[c]) /\ s.repeat \in Nat /\ s.repeat <= count /\ count \in Nat
        /\ Len(Requests[c]) \in Nat
        /\ delivered[c] = Before(c, k, s.repeat + 1, 1)
    <2>1. k <= Len(Requests[c]) /\ s.repeat <= count /\ k \in 1 .. Len(Requests[c]) + 1
      BY <1>1 DEF Place
    <2> QED
      BY <1>1, <2>1, FieldTypes, OptionsAre, RequestsAre DEF Gets
  <1>4. Serves(c)' = Serves(c) /\ Waits(c)' = Waits(c)
    BY <1>2 DEF Serves, Waits
  <1>5. Order(c)'
    BY <1>1, <1>4 DEF Order
  <1>6. CASE s.repeat < count
    <2>1. t.pc = "connect" /\ t.request = k /\ t.repeat = s.repeat + 1 /\ t.file = 1
      <3>1. client \in [Clients -> ClientType]
        BY DEF IInv, TypeOK
      <3> QED
        BY <1>1, <1>6, <3>1 DEF HandleRepeatedRequest, ClientType
    <2>2. Place(c)'
      <3>1. Len(Files(c, k)) \in Nat \ {0}
        BY <1>3, RequestsAre DEF Files
      <3>2. 1 \in 1 .. Len(Files(c, k))
        BY <3>1
      <3> QED
        BY <1>3, <1>6, <2>1, <3>2, SMTT(30) DEF Place, Files
    <2>3. Gets(c)'
      BY <1>2, <1>3, <2>1 DEF Gets, InTouch
    <2> QED
      BY <1>1, <1>2, <1>5, <2>1, <2>2, <2>3, HandleRepeatedRequestType, ClientStep DEF InTouch
  <1>7. CASE ~(s.repeat < count)
    <2>1. t.pc = "due" /\ t.request = k + 1 /\ t.repeat = s.repeat
      <3>1. client \in [Clients -> ClientType]
        BY DEF IInv, TypeOK
      <3> QED
        BY <1>1, <1>7, <3>1 DEF HandleRepeatedRequest, ClientType
    <2>2. s.repeat = count
      BY <1>3, <1>7
    <2>3. Place(c)'
      BY <1>3, <2>1, <2>2 DEF Place, Asking, InTouch
    <2>4. Gets(c)'
      <3>1. Before(c, k, count + 1, 1) = Before(c, k + 1, 1, 1)
        BY <1>3, BeforeIs
      <3> QED
        BY <1>2, <1>3, <2>1, <2>2, <3>1 DEF Gets, InTouch
    <2> QED
      BY <1>1, <1>2, <1>5, <2>1, <2>3, <2>4, HandleRepeatedRequestType, ClientStep DEF InTouch
  <1> QED
    BY <1>6, <1>7

\* A client has got everything.
LEMMA FinishKeeps ==
    ASSUME IInv, NEW c \in Clients, Finish(c) PROVE IInv'
  <1>1. /\ client[c].pc = "due" /\ Place(c) /\ Order(c) /\ Gets(c) /\ ~Serves(c) /\ ~Waits(c)
    BY ApartIs DEF Finish, Apart
  <1>2. /\ \A d \in Clients \ {c} : client'[d] = client[d]
        /\ client'[c] = [client[c] EXCEPT !.pc = "done"]
        /\ connection' = connection /\ delivered' = delivered /\ server' = server /\ backlog' = backlog
    BY DEF IInv, TypeOK, Finish
  <1>3. client'[c].pc = "done" /\ client'[c].request = client[c].request
    BY <1>2, ApartIs DEF ClientType
  <1>4. Place(c)'
    BY <1>1, <1>3 DEF Place, Asking, InTouch
  <1>5. Serves(c)' = Serves(c) /\ Waits(c)' = Waits(c)
    BY <1>2 DEF Serves, Waits
  <1>6. Order(c)'
    BY <1>1, <1>5 DEF Order
  <1>7. Gets(c)'
    BY <1>3 DEF Gets, InTouch
  <1> QED
    BY <1>1, <1>2, <1>3, <1>4, <1>6, <1>7, FinishType, ClientStep DEF InTouch

\* A client ends early.
LEMMA EndsKeeps ==
    ASSUME IInv, NEW c \in Clients, NEW pc \in Gone, Ends(c, pc) PROVE IInv'
  <1>1. /\ client[c] \in ClientType /\ connection[c] \in ConnectionType
        /\ Place(c) /\ Order(c) /\ Gets(c)
    BY ApartIs
  <1>2. /\ \A d \in Clients \ {c} : client'[d] = client[d] /\ connection'[d] = connection[d]
        /\ client'[c] = [client[c] EXCEPT !.pc = pc]
        /\ connection'[c] = ClosedByClient(connection[c])
        /\ delivered' = delivered /\ server' = server /\ backlog' = backlog
    BY DEF IInv, TypeOK, Ends
  <1>3. /\ client'[c].pc = pc /\ client'[c].request = client[c].request
        /\ pc \notin Apart /\ pc \notin InTouch /\ pc \notin Asking
        /\ pc \notin {"due", "waiting", "repeat", "connect", "request", "info", "chunk"}
    BY <1>1, <1>2 DEF ClientType, Gone, Apart, InTouch, Asking
  <1>4. Place(c)'
    BY <1>1, <1>3 DEF Place, Asking
  <1>5. (Serves(c)' <=> Serves(c)) /\ (Waits(c)' <=> Waits(c))
    BY <1>2 DEF Serves, Waits
  <1>6. Order(c)'
    <2>1. connection'[c].up = connection[c].up
      BY <1>1, <1>2 DEF ClosedByClient, ConnectionType
    <2>2. Ordered(c)' = Ordered(c)
      BY <1>2, <1>5, <2>1 DEF Ordered
    <2> QED
      BY <1>1, <1>3, <1>5, <2>2, OrderKept
  <1>7. Gets(c)'
    BY <1>3 DEF Gets
  <1> QED
    BY <1>2, <1>3, <1>4, <1>6, <1>7, EndsType, ClientStep

\* A client connects: it waits to be served, and nothing has been said.
LEMMA ConnectKeeps ==
    ASSUME IInv, NEW c \in Clients, Connect(c) PROVE IInv'
  <1> DEFINE t == client'[c]
             n == Len(backlog)
  <1>1. /\ client[c] \in ClientType /\ client[c].pc = "connect" /\ client \in [Clients -> ClientType]
        /\ connection \in [Clients -> ConnectionType]
        /\ Place(c) /\ Order(c) /\ Gets(c) /\ ~Serves(c) /\ ~Waits(c) /\ Queue
    BY ApartIs DEF Connect, Apart, IInv, TypeOK
  <1>2. /\ \A d \in Clients \ {c} : client'[d] = client[d] /\ connection'[d] = connection[d]
        /\ t = [client[c] EXCEPT !.pc = "request"] /\ connection'[c] = NewConnection
        /\ delivered' = delivered /\ server' = server /\ backlog' = Append(backlog, c)
    BY <1>1 DEF Connect
  <1>3. /\ t.pc = "request" /\ t.request = client[c].request /\ t.repeat = client[c].repeat
        /\ t.file = client[c].file
    BY <1>1, <1>2 DEF ClientType
  <1>4. connection'[c].up = <<>> /\ connection'[c].down = <<>> /\ connection'[c].clientOpen
    BY <1>2 DEF NewConnection, NoConnection
  <1>5. /\ n \in Nat /\ DOMAIN backlog = 1 .. n /\ DOMAIN backlog' = 1 .. n + 1
        /\ backlog'[n + 1] = c /\ \A i \in 1 .. n : backlog'[i] = backlog[i]
    <2>1. backlog \in Seq(Clients)
      BY DEF IInv, TypeOK
    <2>2. n \in Nat /\ DOMAIN backlog = 1 .. n
      BY <2>1, LenProperties
    <2>3. backlog' \in Seq(Clients) /\ Len(backlog') = n + 1 /\ backlog'[n + 1] = c
          /\ \A i \in 1 .. n : backlog'[i] = backlog[i]
      BY <2>1, <1>2, AppendProperties
    <2>4. DOMAIN backlog' = 1 .. n + 1
      BY <2>3, LenProperties
    <2> QED
      BY <2>2, <2>3, <2>4
  <1> HIDE DEF n, t
  <1>6. \A d \in Clients : Serves(d)' <=> Serves(d)
    BY <1>2 DEF Serves
  <1>7. \A d \in Clients \ {c} : Waits(d)' <=> Waits(d)
    <2> SUFFICES ASSUME NEW d \in Clients \ {c} PROVE Waits(d)' <=> Waits(d)
      OBVIOUS
    <2>1. ASSUME Waits(d) PROVE Waits(d)'
      <3>1. PICK i \in 1 .. n : backlog[i] = d
        BY <1>5, <2>1 DEF Waits
      <3>2. i \in 1 .. n + 1 /\ backlog'[i] = d
        BY <1>5, <3>1
      <3> QED
        BY <1>5, <3>2 DEF Waits
    <2>2. ASSUME Waits(d)' PROVE Waits(d)
      <3>1. PICK i \in 1 .. n + 1 : backlog'[i] = d
        BY <1>5, <2>2 DEF Waits
      <3>2. i # n + 1
        BY <1>5, <3>1
      <3>3. i \in 1 .. n
        BY <1>5, <3>1, <3>2
      <3> QED
        BY <1>5, <3>1, <3>3 DEF Waits
    <2> QED
      BY <2>1, <2>2
  <1>8. Queue'
    <2>1. /\ server'.pc \in AtServer => server'.client \in Clients
      BY <1>1, <1>2 DEF Queue
    <2>2. ASSUME NEW i \in DOMAIN backlog', NEW j \in DOMAIN backlog', backlog'[i] = backlog'[j] PROVE i = j
      <3>1. \A k \in 1 .. n : backlog[k] # c
        BY <1>1, <1>5 DEF Waits
      <3>2. i \in 1 .. n + 1 /\ j \in 1 .. n + 1
        BY <1>5
      <3>3. CASE i = n + 1 /\ j # n + 1
        <4>1. j \in 1 .. n
          BY <1>5, <3>2, <3>3
        <4> QED
          BY <1>5, <2>2, <3>1, <3>3, <4>1
      <3>4. CASE i # n + 1 /\ j = n + 1
        <4>1. i \in 1 .. n
          BY <1>5, <3>2, <3>4
        <4> QED
          BY <1>5, <2>2, <3>1, <3>4, <4>1
      <3>5. CASE i # n + 1 /\ j # n + 1
        <4>1. i \in 1 .. n /\ j \in 1 .. n
          BY <1>5, <3>2, <3>5
        <4>2. backlog[i] = backlog[j]
          BY <1>5, <2>2, <4>1
        <4> QED
          BY <1>1, <1>5, <4>1, <4>2 DEF Queue
      <3> QED
        BY <3>3, <3>4, <3>5
    <2>3. \A d \in Clients : /\ ~(Serves(d)' /\ Waits(d)')
                             /\ client'[d].pc \in Apart => ~Serves(d)' /\ ~Waits(d)'
                             /\ client'[d].pc \in InTouch => connection'[d].clientOpen
      <3> SUFFICES ASSUME NEW d \in Clients
                   PROVE  /\ ~(Serves(d)' /\ Waits(d)')
                          /\ client'[d].pc \in Apart => ~Serves(d)' /\ ~Waits(d)'
                          /\ client'[d].pc \in InTouch => connection'[d].clientOpen
        OBVIOUS
      <3>1. CASE d = c
        BY <1>1, <1>3, <1>4, <1>6, <3>1 DEF t, Apart
      <3>2. CASE d # c
        BY <1>1, <1>2, <1>6, <1>7, <3>2 DEF Queue
      <3> QED
        BY <3>1, <3>2
    <2> QED
      BY <2>1, <2>2, <2>3 DEF Queue
  <1>9. ASSUME NEW d \in Clients \ {c} PROVE Place(d)' /\ Order(d)' /\ Gets(d)'
    <2>1. Place(d)'
      BY <1>2 DEF IInv, Place, Files
    <2>2. Order(d) /\ Gets(d)
      BY ApartIs
    <2>3. Ordered(d)' = Ordered(d) /\ FileOf(d)' = FileOf(d) /\ SameService(d)
      BY <1>2, <1>6 DEF Ordered, FileOf, Files, SameService, Shown
    <2>4. Order(d)'
      BY <1>2, <1>6, <1>7, <2>2, <2>3, OrderKept
    <2>5. Gets(d)'
      BY <1>2, <1>7, <2>2, <2>3, GetsKept
    <2> QED
      BY <2>1, <2>4, <2>5
  <1>10. Place(c)'
    BY <1>1, <1>3 DEF Place, Asking, InTouch, Files, t
  <1>11. Order(c)'
    <2>1. Ordered(c)' = <<>>
      BY <1>1, <1>4, <1>6 DEF Ordered
    <2> QED
      BY <2>1 DEF Order
  <1>12. Gets(c)'
    <2> DEFINE f == FileOf(c)
               b == Before(c, client[c].request, client[c].repeat, client[c].file)
    <2>1. f \in DOMAIN Size /\ Size[f] \in Nat /\ FileOf(c)' = f
      <3>1. f \in DOMAIN Size /\ Size[f] \in Nat
        BY <1>1, FileIs DEF Asking
      <3> QED
        BY <3>1, <1>3 DEF FileOf, Files, t
    <2>2. Stream(c)' = <<>>
      BY <1>3, <1>4 DEF Stream, t
    <2>3. delivered'[c] = b \o Pieces(f, 0, 0)
      <3>1. delivered[c] = b /\ delivered[c] \in Seq(Cells)
        BY <1>1, ApartIs DEF Gets
      <3>2. Pieces(f, 0, 0) = <<>>
        <4>1. Pieces(f, 0, 0) \in Seq(Payload) /\ Len(Pieces(f, 0, 0)) = 0
          BY <2>1, PiecesAre
        <4> QED
          BY <4>1, EmptySeq
      <3> HIDE DEF f, b
      <3> QED
        BY <1>2, <3>1, <3>2, ConcatEmptySeq
    <2>4. Parsed(c, 0)'
      <3> DEFINE marks == {<<1, 0>>}
      <3>1. Message(c, marks, 1, 0)'
        <4>1. Len(Stream(c)') = 0
          BY <2>2, EmptySeq
        <4>2. 1 \in 1 .. Len(Stream(c)') + 1 /\ 0 \in 0 .. Size[FileOf(c)'] /\ ~(1 <= Len(Stream(c)'))
          BY <2>1, <4>1
        <4> QED
          BY <1>1, <1>6, <4>2 DEF Message
      <3>2. marks \in SUBSET (Nat \X Nat)
        OBVIOUS
      <3> QED
        BY <3>1, <3>2 DEF Parsed
    <2>5. 0 \in 0 .. Size[f]
      BY <2>1
    <2> HIDE DEF f
    <2>6. \E n0 \in 0 .. Size[FileOf(c)'] :
             /\ delivered'[c] = Before(c, client'[c].request, client'[c].repeat, client'[c].file)
                                 \o Pieces(FileOf(c)', 0, n0)
             /\ Parsed(c, n0)'
             /\ client'[c].pc = "request" => n0 = 0 /\ Stream(c)' = <<>>
      BY <1>3, <2>1, <2>2, <2>3, <2>4, <2>5 DEF t
    <2> QED
      BY <1>3, <2>6 DEF Gets, t
  <1>13. \A d \in Clients : Place(d)' /\ Order(d)' /\ Gets(d)'
    BY <1>9, <1>10, <1>11, <1>12
  <1>14. Supplies'
    BY <1>2 DEF IInv, Data, Supplies, Shown, Asked, Numbered
  <1> QED
    BY <1>8, <1>13, <1>14, ConnectType DEF IInv, Data, Orders

\* A client asks for its file, or finds that nobody is there.
LEMMA RequestFileKeeps ==
    ASSUME IInv, NEW c \in Clients, RequestFile(c) PROVE IInv'
  <1> DEFINE f == FileOf(c)
  <1>1. /\ client[c] \in ClientType /\ client[c].pc = "request" /\ connection[c] \in ConnectionType
        /\ connection \in [Clients -> ConnectionType]
        /\ Place(c) /\ Order(c) /\ Gets(c) /\ connection[c].clientOpen /\ Queue /\ TypeOK
    BY ApartIs DEF RequestFile, InTouch, IInv, TypeOK
  <1>2. f = Requests[c][client[c].request].files[client[c].file] /\ f \in DOMAIN Size
    BY <1>1, FileIs DEF Asking, InTouch
  <1>3. /\ \A d \in Clients \ {c} : client'[d] = client[d]
        /\ client'[c] = [client[c] EXCEPT !.pc = "info", !.buffer = <<>>]
    <2>1. <<>> \in Seq(Cells) /\ "info" \in Apart \cup InTouch \cup Gone
      BY EmptySeq DEF InTouch
    <2>2. client' = [client EXCEPT ![c].pc = "info", ![c].buffer = <<>>]
      BY DEF RequestFile
    <2> QED
      BY <1>1, <2>1, <2>2, BufferUpdate
  <1>4. /\ client'[c].pc = "info" /\ client'[c].request = client[c].request /\ client'[c].buffer = <<>>
        /\ client'[c].repeat = client[c].repeat /\ client'[c].file = client[c].file
        /\ FileOf(c)' = f
    BY <1>1, <1>3 DEF ClientType, FileOf, Files
  <1>5. /\ \A d \in Clients \ {c} : connection'[d] = connection[d]
        /\ delivered' = delivered /\ server' = server /\ backlog' = backlog
        /\ connection'[c].down = connection[c].down /\ connection'[c].clientOpen = connection[c].clientOpen
    <2>1. CASE connection[c].serverOpen
      <3>1. connection' = [connection EXCEPT ![c].up = RequestCells(f, Options[c])]
        BY <1>2, <2>1 DEF RequestFile
      <3> HIDE DEF f
      <3> QED
        BY <1>1, <3>1 DEF RequestFile, ConnectionType
    <2>2. CASE ~connection[c].serverOpen
      <3>1. PICK seen \in BOOLEAN : connection' = [connection EXCEPT ![c].reset = @ \/ seen]
        BY <2>2 DEF RequestFile
      <3> QED
        BY <1>1, <3>1 DEF RequestFile, ConnectionType
    <2> QED
      BY <2>1, <2>2
  <1>6. Place(c)'
    BY <1>1, <1>4 DEF Place, Asking, InTouch, Files
  <1>7. (Serves(c)' <=> Serves(c)) /\ (Waits(c)' <=> Waits(c))
    BY <1>5 DEF Serves, Waits
  <1>8. Order(c)'
    <2>1. SUFFICES ASSUME Serves(c) \/ Waits(c)
                   PROVE Ordered(c)' = <<>> \/ Ordered(c)' = RequestCells(f, Options[c])
      BY <1>2, <1>4, <1>7 DEF Order
    <2> DEFINE b == IF Serves(c) THEN server.buffer ELSE <<>>
    <2>2. b \in Seq(OrderCells) /\ connection[c].up \in Seq(OrderCells)
          /\ b \o connection[c].up = <<>> /\ Ordered(c)' = b \o connection'[c].up
      <3>1. b \in Seq(OrderCells) /\ connection[c].up \in Seq(OrderCells)
        BY <1>1, ServerTypes, EmptySeq DEF ConnectionType
      <3> QED
        BY <1>1, <1>5, <1>7, <2>1, <3>1 DEF Order, Ordered
    <2> HIDE DEF b
    <2>3. b = <<>>
      <3>1. Len(b) + Len(connection[c].up) = 0 /\ Len(b) \in Nat /\ Len(connection[c].up) \in Nat
        BY <2>2, ConcatProperties, EmptySeq, LenProperties
      <3>2. Len(b) = 0
        BY <3>1
      <3> QED
        BY <2>2, <3>2, EmptySeq
    <2>4. CASE connection[c].serverOpen
      <3>1. connection' = [connection EXCEPT ![c].up = RequestCells(f, Options[c])]
        BY <1>2, <2>4 DEF RequestFile
      <3>2. connection'[c].up = RequestCells(f, Options[c])
        <4> HIDE DEF f
        <4> QED
          BY <1>1, <3>1 DEF ConnectionType
      <3>3. RequestCells(f, Options[c]) \in Seq(OrderCells)
        BY <1>2, RequestCellsAre
      <3> QED
        BY <2>2, <2>3, <3>2, <3>3, ConcatEmptySeq
    <2>5. CASE ~connection[c].serverOpen
      <3>1. PICK seen \in BOOLEAN : connection' = [connection EXCEPT ![c].reset = @ \/ seen]
        BY <2>5 DEF RequestFile
      <3>2. connection'[c].up = connection[c].up
        BY <1>1, <3>1 DEF ConnectionType
      <3> QED
        BY <2>2, <3>2
    <2> QED
      BY <2>4, <2>5
  <1>9. Gets(c)'
    <2>1. PICK n \in 0 .. Size[f] :
             /\ delivered[c] = Before(c, client[c].request, client[c].repeat, client[c].file) \o Pieces(f, 0, n)
             /\ Parsed(c, n)
             /\ n = 0 /\ Stream(c) = <<>>
      BY <1>1 DEF Gets, InTouch
    <2>2. Stream(c)' = Stream(c)
      <3>1. Stream(c) = connection[c].down
        BY <1>1 DEF Stream
      <3>2. Stream(c)' = <<>> \o connection[c].down
        BY <1>4, <1>5 DEF Stream
      <3> QED
        BY <3>1, <3>2, ApartIs, ConcatEmptySeq
    <2>3. SameService(c)
      BY <1>5, <1>7 DEF SameService, Shown
    <2>4. Parsed(c, n)'
      BY <1>4, <1>7, <2>1, <2>2, <2>3, ParsedKept
    <2>5. Len(client'[c].buffer) <= InfoSize
      BY <1>4, EmptySeq DEF InfoSize
    <2> HIDE DEF f
    <2> QED
      BY <1>4, <1>5, <2>1, <2>4, <2>5 DEF Gets, InTouch
  <1> QED
    BY <1>1, <1>3, <1>4, <1>5, <1>6, <1>8, <1>9, RequestFileType, ClientStep DEF Apart

\* Concatenation of what is sent is associative.
LEMMA CellsAssociative ==
    \A x, y, z \in Seq(Cells) : (x \o y) \o z = x \o (y \o z)
  BY ConcatAssociative

\* What arrives was in the stream before.
LEMMA ReceiveKeeps ==
    ASSUME IInv, NEW c \in Clients, Receive(c) PROVE IInv'
  <1> DEFINE down == connection[c].down
             buffer == client[c].buffer
  <1>1. /\ client[c] \in ClientType /\ client[c].pc \in {"info", "chunk"}
        /\ connection[c] \in ConnectionType /\ down \in Seq(Cells) /\ buffer \in Seq(Cells)
        /\ Place(c) /\ Order(c) /\ Gets(c) /\ connection[c].clientOpen /\ TypeOK
    BY ApartIs DEF Receive, InTouch, IInv, ClientType
  <1>2. PICK n \in 1 .. Len(down) :
          /\ Len(buffer) + n <= Wanted(c)
          /\ client' = [client EXCEPT ![c].buffer = @ \o SubSeq(down, 1, n)]
          /\ connection' = [connection EXCEPT ![c].down = SubSeq(down, n + 1, Len(down))]
    BY ReceivedIs
  <1> DEFINE x == SubSeq(down, 1, n)
             y == SubSeq(down, n + 1, Len(down))
  <1>3. x \in Seq(Cells) /\ y \in Seq(Cells) /\ x \o y = down /\ Len(x) = n
    <2>1. Len(down) \in Nat
      BY <1>1, LenProperties
    <2>2. n \in 0 .. Len(down)
      BY <2>1
    <2> QED
      BY <1>1, <2>2, PartType
  <1>4. /\ client' = [client EXCEPT ![c].buffer = @ \o x]
        /\ connection' = [connection EXCEPT ![c].down = y]
    BY <1>2
  <1> DEFINE z == buffer \o x
  <1> HIDE DEF x, y
  <1>5. /\ \A d \in Clients \ {c} : client'[d] = client[d] /\ connection'[d] = connection[d]
        /\ client'[c] = [client[c] EXCEPT !.buffer = z]
        /\ connection'[c] = [connection[c] EXCEPT !.down = y]
        /\ delivered' = delivered /\ server' = server /\ backlog' = backlog
    BY <1>1, <1>4 DEF TypeOK, Receive
  <1>6. /\ client'[c].pc = client[c].pc /\ client'[c].request = client[c].request
        /\ client'[c].repeat = client[c].repeat /\ client'[c].file = client[c].file
        /\ client'[c].info = client[c].info /\ client'[c].buffer = buffer \o x
        /\ connection'[c].down = y /\ connection'[c].up = connection[c].up
        /\ connection'[c].clientOpen = connection[c].clientOpen /\ FileOf(c)' = FileOf(c)
    <2> HIDE DEF z
    <2>1. /\ client'[c].pc = client[c].pc /\ client'[c].request = client[c].request
          /\ client'[c].repeat = client[c].repeat /\ client'[c].file = client[c].file
          /\ client'[c].info = client[c].info /\ client'[c].buffer = z
      BY <1>1, <1>5 DEF ClientType
    <2>2. /\ connection'[c].down = y /\ connection'[c].up = connection[c].up
          /\ connection'[c].clientOpen = connection[c].clientOpen
      BY <1>1, <1>5, ZenonT(60) DEF ConnectionType
    <2> QED
      BY <2>1, <2>2 DEF FileOf, Files, z
  <1>7. Place(c)'
    BY <1>1, <1>6 DEF Place, Asking, InTouch, Files
  <1>8. (Serves(c)' <=> Serves(c)) /\ (Waits(c)' <=> Waits(c)) /\ SameService(c)
    BY <1>5 DEF Serves, Waits, SameService, Shown
  <1>9. Order(c)'
    <2>1. Ordered(c)' = Ordered(c)
      BY <1>5, <1>6, <1>8 DEF Ordered
    <2> QED
      BY <1>1, <1>6, <1>8, <2>1, OrderKept
  <1>10. Stream(c)' = Stream(c)
    <2>1. (buffer \o x) \o y = buffer \o down
      <3>1. (buffer \o x) \o y = buffer \o (x \o y)
        <4>1. buffer \in Seq(Cells) /\ x \in Seq(Cells) /\ y \in Seq(Cells)
          BY <1>1, <1>3
        <4> HIDE DEF buffer
        <4> QED
          BY <4>1, CellsAssociative, Zenon
      <3> QED
        BY <1>3, <3>1
    <2>2. CASE client[c].pc = "info"
      BY <1>6, <2>1, <2>2 DEF Stream
    <2>3. CASE client[c].pc = "chunk"
      <3>1. Stream(c) = client[c].info \o (buffer \o down)
        BY <2>3 DEF Stream
      <3>2. Stream(c)' = client[c].info \o ((buffer \o x) \o y)
        BY <1>6, <2>3 DEF Stream
      <3> QED
        BY <2>1, <3>1, <3>2
    <2> QED
      BY <1>1, <2>2, <2>3
  <1>11. Len(buffer \o x) <= Wanted(c)
    <2>1. Len(buffer \o x) = Len(buffer) + Len(x)
      BY <1>1, <1>3, ConcatProperties, ZenonT(60)
    <2> QED
      BY <1>2, <1>3, <2>1
  <1>12. Gets(c)'
    <2>1. PICK m \in 0 .. Size[FileOf(c)] :
             /\ delivered[c] = Before(c, client[c].request, client[c].repeat, client[c].file)
                                 \o Pieces(FileOf(c), 0, m)
             /\ Parsed(c, m)
      BY <1>1 DEF Gets, InTouch
    <2>2. Parsed(c, m)'
      BY <1>6, <1>8, <1>10, <2>1, ParsedKept
    <2>3. client[c].pc = "info" => Len(client'[c].buffer) <= InfoSize
      BY <1>6, <1>11 DEF Wanted
    <2>4. client[c].pc = "chunk" =>
            Len(client[c].info) = InfoSize /\ Len(client'[c].buffer) <= client[c].info[1][2]
      BY <1>1, <1>6, <1>11 DEF Wanted, Gets
    <2>5. \E k \in 0 .. Size[FileOf(c)'] :
             /\ delivered'[c] = Before(c, client'[c].request, client'[c].repeat, client'[c].file)
                                 \o Pieces(FileOf(c)', 0, k)
             /\ Parsed(c, k)'
             /\ client'[c].pc = "request" => k = 0 /\ Stream(c)' = <<>>
      BY <1>1, <1>5, <1>6, <2>1, <2>2, SMTT(30)
    <2> QED
      BY <1>1, <1>6, <2>3, <2>4, <2>5 DEF Gets
  <1>13. client[c].pc \notin Apart
    BY <1>1 DEF Apart
  <1> QED
    BY <1>1, <1>5, <1>6, <1>7, <1>9, <1>12, <1>13, ReceiveType, ClientStep

\* What a client in touch has got of its file, and what is at the start of its stream
LEMMA StreamIs ==
    ASSUME IInv, NEW c \in Clients, client[c].pc \in {"info", "chunk"}
    PROVE  \E n \in 0 .. Size[FileOf(c)], marks \in SUBSET (Nat \X Nat) :
             /\ delivered[c] = Before(c, client[c].request, client[c].repeat, client[c].file)
                                 \o Pieces(FileOf(c), 0, n)
             /\ <<1, n>> \in marks /\ \A p \in marks : Message(c, marks, p[1], p[2])
             /\ Message(c, marks, 1, n)
  <1>1. PICK n \in 0 .. Size[FileOf(c)] :
             /\ delivered[c] = Before(c, client[c].request, client[c].repeat, client[c].file)
                                 \o Pieces(FileOf(c), 0, n)
             /\ Parsed(c, n)
    BY ApartIs DEF Gets, InTouch
  <1>2. PICK marks \in SUBSET (Nat \X Nat) :
            <<1, n>> \in marks /\ \A p \in marks : Message(c, marks, p[1], p[2])
    BY <1>1 DEF Parsed
  <1>3. Message(c, marks, 1, n)
    BY <1>2
  <1> QED
    BY <1>1, <1>2, <1>3

\* A file and its end, one after the other
LEMMA FileEnds ==
    ASSUME NEW f \in DOMAIN Size, NEW b \in Seq(Payload), NEW d, d = b \o Pieces(f, 0, Size[f])
    PROVE  Append(d, <<f, 0>>) = b \o FileCells(f)
  <1> DEFINE p == Pieces(f, 0, Size[f])
             e == <<<<f, 0>>>>
  <1>1. p \in Seq(Payload) /\ e \in Seq(Payload) /\ FileCells(f) = p \o e
    <2>1. \A i \in 1 .. Size[f] : 0 + i = i
      BY RecordingAssumption
    <2>2. p = [i \in 1 .. Size[f] |-> <<f, i>>]
      BY <2>1 DEF Pieces
    <2> QED
      BY <2>2, FileCellsAre DEF FileCells
  <1>2. d \in Seq(Payload) /\ <<f, 0>> \in Payload
    <2>1. d \in Seq(Payload)
      BY <1>1, ConcatProperties
    <2> QED
      BY <2>1 DEF Payload
  <1>3. Append(d, <<f, 0>>) = d \o e
    BY <1>2, AppendIsConcat
  <1>4. (b \o p) \o e = b \o (p \o e)
    <2> HIDE DEF p, e
    <2> QED
      BY <1>1, PayloadsAssociative, Zenon
  <1> QED
    BY <1>1, <1>3, <1>4

\* Information that has arrived: after it there is a chunk, or the client has
\* got all of the file.
LEMMA InfoIs ==
    ASSUME IInv, NEW c \in Clients, client[c].pc = "info", Len(client[c].buffer) = InfoSize
    PROVE  /\ Stream(c) = client[c].buffer \o connection[c].down /\ ~Waits(c)
           /\ \E n \in 0 .. Size[FileOf(c)], m \in Nat :
                /\ delivered[c] = Before(c, client[c].request, client[c].repeat, client[c].file)
                                    \o Pieces(FileOf(c), 0, n)
                /\ Parsed(c, n) /\ client[c].buffer[1][2] = m
                /\ m = 0 => n = Size[FileOf(c)] /\ ~Serves(c)
  <1> DEFINE s == client[c]
             down == connection[c].down
             buffer == client[c].buffer
             f == FileOf(c)
             b == Before(c, s.request, s.repeat, s.file)
  <1>1. /\ s \in ClientType /\ s.pc = "info" /\ Len(buffer) = 2
        /\ down \in Seq(Cells) /\ buffer \in Seq(Cells) /\ Place(c)
    BY ApartIs DEF ClientType, InfoSize
  <1>2. f \in DOMAIN Size /\ Size[f] \in Nat
    BY <1>1, FileIs DEF Asking, InTouch
  <1>3. PICK n \in 0 .. Size[f], marks \in SUBSET (Nat \X Nat) :
          /\ delivered[c] = b \o Pieces(f, 0, n)
          /\ <<1, n>> \in marks /\ \A p \in marks : Message(c, marks, p[1], p[2])
          /\ Message(c, marks, 1, n)
    BY <1>1, StreamIs
  <1>4. /\ Stream(c) = buffer \o down /\ Stream(c) \in Seq(Cells)
        /\ Len(Stream(c)) = 2 + Len(down) /\ Len(down) \in Nat
        /\ Stream(c)[1] = buffer[1]
    <2>1. Stream(c) = buffer \o down
      BY <1>1 DEF Stream
    <2> HIDE DEF buffer, down
    <2>2. Len(down) \in Nat
      BY <1>1, LenProperties
    <2>3. /\ buffer \o down \in Seq(Cells) /\ Len(buffer \o down) = 2 + Len(down)
          /\ \A i \in 1 .. 2 + Len(down) :
               (buffer \o down)[i] = IF i <= 2 THEN buffer[i] ELSE down[i - 2]
      <3>1. buffer \in Seq(Cells) /\ down \in Seq(Cells) /\ Len(buffer) = 2
        BY <1>1
      <3>2. /\ buffer \o down \in Seq(Cells) /\ Len(buffer \o down) = Len(buffer) + Len(down)
            /\ \A i \in 1 .. Len(buffer) + Len(down) :
                 (buffer \o down)[i] = IF i <= Len(buffer) THEN buffer[i] ELSE down[i - Len(buffer)]
        BY <3>1, ConcatProperties
      <3> QED
        BY <3>1, <3>2
    <2>4. 1 \in 1 .. 2 + Len(down)
      BY <2>2
    <2> QED
      BY <2>1, <2>2, <2>3, <2>4
  <1>5. PICK m \in Nat, x \in Seq(Payload) :
          /\ buffer[1] = <<"size", m>>
          /\ Whole(c, marks, 1, n, m, x) \/ Begun(c, 1, n, m, x)
    <2>1. 1 <= Len(Stream(c))
      BY <1>4
    <2> QED
      BY <1>3, <1>4, <2>1 DEF Message
  <1>6. ~Waits(c)
    <2>1. 1 <= Len(Stream(c))
      BY <1>4
    <2> QED
      BY <1>3, <2>1 DEF Message
  <1>7. buffer[1][2] = m
    BY <1>5
  <1>8. m = 0 => n = Size[f] /\ ~Serves(c)
    BY <1>5 DEF Whole, Begun
  <1>9. Parsed(c, n)
    BY <1>3 DEF Parsed
  <1> QED
    BY <1>3, <1>4, <1>5, <1>6, <1>7, <1>8, <1>9

\* A client looks at the information on a chunk, and waits for it or knows that
\* it has got all of the file.
LEMMA UseInfoKeeps ==
    ASSUME IInv, NEW c \in Clients, UseInfo(c) PROVE IInv'
  <1> DEFINE s == client[c]
             down == connection[c].down
             buffer == client[c].buffer
             f == FileOf(c)
             b == Before(c, s.request, s.repeat, s.file)
  <1>1. /\ s \in ClientType /\ s.pc = "info" /\ Len(buffer) = 2 /\ client \in [Clients -> ClientType]
        /\ connection[c] \in ConnectionType /\ connection \in [Clients -> ConnectionType]
        /\ down \in Seq(Cells) /\ buffer \in Seq(Cells)
        /\ delivered \in [Clients -> Seq(Cells)]
        /\ Place(c) /\ Order(c) /\ Gets(c) /\ connection[c].clientOpen /\ TypeOK
    BY ApartIs DEF UseInfo, InTouch, IInv, TypeOK, ClientType, InfoSize
  <1>2. /\ s.request \in 1 .. Len(Requests[c]) /\ f \in DOMAIN Size /\ Size[f] \in Nat
        /\ Files(c, s.request) = Requests[c][s.request].files
        /\ f = Requests[c][s.request].files[s.file]
    BY <1>1, FileIs DEF Asking, InTouch
  <1>3. PICK n \in 0 .. Size[f], m \in Nat :
          /\ delivered[c] = b \o Pieces(f, 0, n)
          /\ Parsed(c, n) /\ buffer[1][2] = m
          /\ m = 0 => n = Size[f] /\ ~Serves(c)
    BY <1>1, InfoIs DEF InfoSize
  <1>4. Stream(c) = buffer \o down
    BY <1>1, InfoIs DEF InfoSize
  <1>6. ~Waits(c)
    BY <1>1, InfoIs DEF InfoSize
  <1>7. buffer[1][2] = m
    BY <1>3
  <1>8. CASE m > 0
    <2>1. client' = [client EXCEPT ![c] = [s EXCEPT !.pc = "chunk", !.info = buffer, !.buffer = <<>>]]
          /\ connection' = connection /\ delivered' = delivered /\ server' = server /\ backlog' = backlog
      BY <1>7, <1>8 DEF UseInfo
    <2>2. /\ \A d \in Clients \ {c} : client'[d] = client[d]
          /\ client'[c] = [s EXCEPT !.pc = "chunk", !.info = buffer, !.buffer = <<>>]
      BY <1>1, <2>1
    <2>3. /\ client'[c].pc = "chunk" /\ client'[c].request = s.request
          /\ client'[c].repeat = s.repeat /\ client'[c].file = s.file
          /\ client'[c].info = buffer /\ client'[c].buffer = <<>> /\ FileOf(c)' = f
      BY <1>1, <2>2 DEF ClientType, FileOf, Files
    <2>4. Place(c)'
      BY <1>1, <2>3 DEF Place, Asking, InTouch, Files
    <2>5. (Serves(c)' <=> Serves(c)) /\ (Waits(c)' <=> Waits(c)) /\ SameService(c)
      BY <2>1 DEF Serves, Waits, SameService, Shown
    <2>6. Order(c)'
      <3>1. Ordered(c)' = Ordered(c)
        BY <2>1, <2>5 DEF Ordered
      <3> QED
        BY <1>1, <2>3, <2>5, <3>1, OrderKept DEF InTouch
    <2>7. Stream(c)' = Stream(c)
      <3>1. Stream(c)' = buffer \o (<<>> \o down)
        BY <2>1, <2>3 DEF Stream
      <3>2. <<>> \o down = down
        BY <1>1, ConcatEmptySeq
      <3> QED
        BY <1>4, <3>1, <3>2
    <2>8. Gets(c)'
      <3>1. Parsed(c, n)
        BY <1>3
      <3>2. Parsed(c, n)'
        BY <2>3, <2>5, <2>7, <3>1, ParsedKept
      <3>3. Len(client'[c].info) = InfoSize /\ Len(client'[c].buffer) <= client'[c].info[1][2]
        BY <1>1, <1>7, <2>3, EmptySeq DEF InfoSize
      <3>4. \E k \in 0 .. Size[FileOf(c)'] :
             /\ delivered'[c] = Before(c, client'[c].request, client'[c].repeat, client'[c].file)
                                 \o Pieces(FileOf(c)', 0, k)
             /\ Parsed(c, k)'
             /\ client'[c].pc = "request" => k = 0 /\ Stream(c)' = <<>>
        BY <1>3, <2>1, <2>3, <3>2
      <3> QED
        BY <2>3, <3>3, <3>4 DEF Gets
    <2>9. client'[c].pc \notin Apart
      BY <2>3 DEF Apart
    <2> QED
      BY <1>1, <2>1, <2>2, <2>4, <2>6, <2>8, <2>9, UseInfoType, ClientStep
  <1>9. CASE m = 0
    <2>1. n = Size[f] /\ ~Serves(c)
      BY <1>3, <1>9
    <2> DEFINE next == IF s.file < Len(Requests[c][s.request].files)
                       THEN [s EXCEPT !.pc = "connect", !.file = @ + 1]
                       ELSE AfterRequest(c)
    <2>2. /\ client' = [client EXCEPT ![c] = next]
          /\ connection' = [connection EXCEPT ![c] = NoConnection]
          /\ delivered' = [delivered EXCEPT ![c] = Append(@, <<f, 0>>)]
          /\ server' = server /\ backlog' = backlog
      BY <1>2, <1>7, <1>9 DEF UseInfo
    <2> HIDE DEF next
    <2>3. /\ \A d \in Clients \ {c} : /\ client'[d] = client[d] /\ connection'[d] = connection[d]
                                      /\ delivered'[d] = delivered[d]
          /\ client'[c] = next /\ delivered'[c] = Append(delivered[c], <<f, 0>>)
      <3> HIDE DEF f
      <3> QED
        BY <1>1, <2>2
    <2>4. (Serves(c)' <=> Serves(c)) /\ (Waits(c)' <=> Waits(c))
      BY <2>2 DEF Serves, Waits
    <2>5. Order(c)'
      BY <1>6, <2>1, <2>4 DEF Order
    <2>6. /\ s.repeat \in 1 .. Options[c].count
          /\ s.file \in 1 .. Len(Files(c, s.request)) /\ Len(Files(c, s.request)) \in Nat
      <3>1. s.repeat # 0 /\ s.repeat <= Options[c].count /\ s.file \in 1 .. Len(Files(c, s.request))
        BY <1>1 DEF Place, Asking, InTouch
      <3>2. s.repeat \in Nat /\ Options[c].count \in Nat
        BY <1>1, FieldTypes, OptionsAre
      <3>3. Len(Files(c, s.request)) \in Nat
        BY <1>2, RequestsAre
      <3> QED
        BY <3>1, <3>2, <3>3
    <2>7. /\ delivered'[c] = Before(c, s.request, s.repeat, s.file + 1)
          /\ s.file = Len(Files(c, s.request)) =>
               delivered'[c] = Before(c, s.request, s.repeat + 1, 1)
      <3>1. /\ b \in Seq(Payload)
            /\ Before(c, s.request, s.repeat, s.file + 1) = b \o FileCells(f)
            /\ Before(c, s.request, s.repeat, Len(Files(c, s.request)) + 1)
                 = Before(c, s.request, s.repeat + 1, 1)
        BY <1>2, <2>6, BeforeIs, ZenonT(60)
      <3>2. delivered[c] = b \o Pieces(f, 0, Size[f])
        BY <1>3, <2>1
      <3> HIDE DEF b, f
      <3>3. Append(delivered[c], <<f, 0>>) = b \o FileCells(f)
        BY <1>2, <3>1, <3>2, FileEnds
      <3> QED
        BY <2>3, <3>1, <3>3
    <2>8. CASE s.file < Len(Files(c, s.request))
      <3>1. next = [s EXCEPT !.pc = "connect", !.file = @ + 1]
        BY <1>2, <2>8 DEF next
      <3>2. /\ client'[c].pc = "connect" /\ client'[c].request = s.request
            /\ client'[c].repeat = s.repeat /\ client'[c].file = s.file + 1
        BY <1>1, <2>3, <3>1 DEF ClientType
      <3>3. Place(c)'
        <4>1. s.file + 1 \in 1 .. Len(Files(c, s.request))
          BY <2>6, <2>8
        <4> QED
          BY <1>1, <3>2, <4>1 DEF Place, Asking, InTouch, Files
      <3>4. Gets(c)'
        BY <2>7, <3>2 DEF Gets, InTouch
      <3>5. client'[c].pc \notin InTouch
        BY <3>2 DEF InTouch
      <3> QED
        BY <1>6, <2>1, <2>2, <2>3, <2>5, <3>3, <3>4, <3>5, UseInfoType, ClientStep
    <2>9. CASE ~(s.file < Len(Files(c, s.request)))
      <3>1. next = AfterRequest(c)
        BY <1>2, <2>9 DEF next
      <3>2. /\ client'[c].pc = "repeat" /\ client'[c].request = s.request
            /\ client'[c].repeat = s.repeat
        BY <1>1, <2>3, <3>1 DEF ClientType, AfterRequest
      <3>3. Place(c)'
        BY <1>1, <3>2 DEF Place, Asking, InTouch, Files
      <3>4. s.file = Len(Files(c, s.request))
        BY <2>6, <2>9
      <3>5. Gets(c)'
        BY <2>7, <3>2, <3>4 DEF Gets, InTouch
      <3>6. client'[c].pc \notin InTouch
        BY <3>2 DEF InTouch
      <3> QED
        BY <1>6, <2>1, <2>2, <2>3, <2>5, <3>3, <3>5, <3>6, UseInfoType, ClientStep
    <2> QED
      BY <2>8, <2>9
  <1> QED
    BY <1>8, <1>9

\* What follows in a stream stays when its start is taken away.
LEMMA MessageAdvances ==
    ASSUME NEW c \in Clients, NEW marks \in SUBSET (Nat \X Nat), NEW i \in Nat \ {0}, NEW n \in Nat,
           NEW s \in Nat, Message(c, marks, i + s, n),
           Stream(c) \in Seq(Cells), Stream(c)' \in Seq(Cells),
           Len(Stream(c)) = s + Len(Stream(c)'),
           \A j \in 1 .. Len(Stream(c)') : Stream(c)'[j] = Stream(c)[j + s],
           FileOf(c)' = FileOf(c), server' = server, backlog' = backlog
    PROVE  Message(c, {p \in (Nat \ {0}) \X Nat : <<p[1] + s, p[2]>> \in marks}, i, n)'
  <1> DEFINE t == Stream(c)
             u == Stream(c)'
             after == {p \in (Nat \ {0}) \X Nat : <<p[1] + s, p[2]>> \in marks}
  <1>1. /\ Len(t) \in Nat /\ Len(u) \in Nat /\ Len(t) = s + Len(u)
        /\ \A j \in 1 .. Len(u) : u[j] = t[j + s]
    BY LenProperties
  <1>2. (Serves(c)' <=> Serves(c)) /\ (Waits(c)' <=> Waits(c)) /\ Shown' = Shown
    BY DEF Serves, Waits, Shown
  <1>3. i + s \in 1 .. Len(t) + 1 /\ n \in 0 .. Size[FileOf(c)]
    BY DEF Message
  <1>4. i \in 1 .. Len(u) + 1
    <2> HIDE DEF t, u
    <2> QED
      BY <1>1, <1>3
  <1>5. i = Len(u) + 1 => /\ Serves(c)' => server'.pc # "chunk" /\ n = Shown'
                          /\ Waits(c)' => n = 0
    <2>1. i = Len(u) + 1 => i + s = Len(t) + 1
      <3> HIDE DEF t, u
      <3> QED
        BY <1>1
    <2> QED
      BY <1>2, <2>1 DEF Message
  <1>6. ASSUME i <= Len(u)
        PROVE  /\ ~Waits(c)' /\ i + 1 <= Len(u)
               /\ \E m \in Nat, x \in Seq(Payload) :
                    /\ u[i] = <<"size", m>> /\ u[i + 1] = <<"sum", x>>
                    /\ Whole(c, after, i, n, m, x)' \/ Begun(c, i, n, m, x)'
    <2>1. i + s <= Len(t)
      <3> HIDE DEF t, u
      <3> QED
        BY <1>1, <1>6
    <2>2. ~Waits(c) /\ (i + s) + 1 <= Len(t)
      BY <2>1 DEF Message
    <2>3. PICK m \in Nat, x \in Seq(Payload) :
            /\ t[i + s] = <<"size", m>> /\ t[(i + s) + 1] = <<"sum", x>>
            /\ Whole(c, marks, i + s, n, m, x) \/ Begun(c, i + s, n, m, x)
      BY <2>1 DEF Message
    <2>4. i + 1 <= Len(u) /\ u[i] = t[i + s] /\ u[i + 1] = t[(i + s) + 1]
      <3> HIDE DEF t, u
      <3>1. i + 1 <= Len(u)
        BY <1>1, <2>2
      <3>2. i \in 1 .. Len(u) /\ i + 1 \in 1 .. Len(u) /\ (i + 1) + s = (i + s) + 1
        <4>1. Len(u) \in Nat
          BY <1>1
        <4> QED
          BY <3>1, <4>1
      <3>3. u[i + 1] = t[(i + 1) + s]
        BY <1>1, <3>2
      <3> QED
        BY <1>1, <3>1, <3>2, <3>3
    <2>5. ASSUME Whole(c, marks, i + s, n, m, x) PROVE Whole(c, after, i, n, m, x)'
      <3>1. /\ ((i + s) + 1) + m <= Len(t) /\ <<((i + s) + 2) + m, n + m>> \in marks
            /\ \A j \in 1 .. m : t[((i + s) + 1) + j] = <<FileOf(c), n + j>>
            /\ Options[c].verify => x = Pieces(FileOf(c), n, m)
            /\ m = 0 => n = Size[FileOf(c)] /\ ~Serves(c)
        BY <2>5 DEF Whole
      <3>2. (i + 1) + m <= Len(u)
        <4> DEFINE a == Len(t)
                   b == Len(u)
        <4>1. a = s + b /\ b \in Nat /\ ((i + s) + 1) + m <= a
          BY <1>1, <3>1
        <4> HIDE DEF a, b
        <4>2. (i + 1) + m <= b
          BY <4>1
        <4> QED
          BY <4>2 DEF b
      <3>3. <<(i + 2) + m, n + m>> \in after
        <4>1. ((i + 2) + m) + s = ((i + s) + 2) + m /\ (i + 2) + m \in Nat \ {0} /\ n + m \in Nat
          OBVIOUS
        <4> QED
          BY <3>1, <4>1
      <3>4. \A j \in 1 .. m : u[(i + 1) + j] = <<FileOf(c), n + j>>
        <4> HIDE DEF t, u
        <4> SUFFICES ASSUME NEW j \in 1 .. m PROVE u[(i + 1) + j] = <<FileOf(c), n + j>>
          OBVIOUS
        <4>1. (i + 1) + j \in 1 .. Len(u) /\ ((i + 1) + j) + s = ((i + s) + 1) + j
          BY <1>1, <3>2
        <4>2. u[(i + 1) + j] = t[((i + 1) + j) + s]
          BY <1>1, <4>1
        <4> QED
          BY <3>1, <4>1, <4>2
      <3> HIDE DEF after
      <3> QED
        BY <1>2, <3>1, <3>2, <3>3, <3>4 DEF Whole
    <2>6. ASSUME Begun(c, i + s, n, m, x) PROVE Begun(c, i, n, m, x)'
      <3>1. (i + s) + 1 = Len(t)
        BY <2>6 DEF Begun
      <3>2. i + 1 = Len(u)
        <4> HIDE DEF t, u
        <4> QED
          BY <1>1, <3>1
      <3> QED
        BY <1>2, <2>6, <3>2 DEF Begun
    <2> HIDE DEF after
    <2> QED
      BY <1>2, <2>2, <2>3, <2>4, <2>5, <2>6
  <1> HIDE DEF after
  <1>7. Message(c, after, i, n)'
    BY <1>3, <1>4, <1>5, <1>6 DEF Message
  <1> QED
    BY <1>7 DEF after

\* Pieces that follow each other
LEMMA PiecesFollow ==
    ASSUME NEW f \in DOMAIN Size, NEW n \in Nat, NEW m \in Nat
    PROVE  Pieces(f, 0, n) \o Pieces(f, n, m) = Pieces(f, 0, n + m)
  <1> DEFINE a == Pieces(f, 0, n)
             b == Pieces(f, n, m)
             d == Pieces(f, 0, n + m)
  <1>1. /\ a \in Seq(Payload) /\ Len(a) = n /\ \A i \in 1 .. n : a[i] = <<f, 0 + i>>
        /\ b \in Seq(Payload) /\ Len(b) = m /\ \A i \in 1 .. m : b[i] = <<f, n + i>>
        /\ d \in Seq(Payload) /\ Len(d) = n + m /\ \A i \in 1 .. n + m : d[i] = <<f, 0 + i>>
    <2>1. n + m \in Nat /\ 0 \in Nat
      OBVIOUS
    <2> QED
      BY <2>1, PiecesAre
  <1> HIDE DEF a, b, d
  <1>2. /\ a \o b \in Seq(Payload) /\ Len(a \o b) = n + m
        /\ \A i \in 1 .. n + m : (a \o b)[i] = IF i <= n THEN a[i] ELSE b[i - n]
    BY <1>1, ConcatProperties
  <1>3. \A i \in 1 .. n + m : (a \o b)[i] = d[i]
    <2> SUFFICES ASSUME NEW i \in 1 .. n + m PROVE (a \o b)[i] = d[i]
      OBVIOUS
    <2>1. d[i] = <<f, 0 + i>>
      BY <1>1
    <2>2. CASE i <= n
      <3>1. i \in 1 .. n
        BY <2>2
      <3> QED
        BY <1>1, <1>2, <2>1, <2>2, <3>1
    <2>3. CASE ~(i <= n)
      <3>1. i - n \in 1 .. m /\ n + (i - n) = 0 + i
        BY <2>3
      <3>2. (a \o b)[i] = b[i - n] /\ b[i - n] = <<f, n + (i - n)>>
        BY <1>1, <1>2, <2>3, <3>1
      <3> QED
        BY <2>1, <3>1, <3>2
    <2> QED
      BY <2>2, <2>3
  <1>4. a \o b = d
    BY <1>1, <1>2, <1>3, SeqEqual
  <1> QED
    BY <1>4 DEF a, b, d

\* A chunk that has arrived: it is what comes next of the file, and its
\* checksum is the one that was sent with it.
LEMMA ChunkIs ==
    ASSUME IInv, NEW c \in Clients, client[c].pc = "chunk", Len(client[c].buffer) = Wanted(c)
    PROVE  /\ Verified(c)
           /\ \E n \in Nat, m \in Nat, marks \in SUBSET (Nat \X Nat) :
                /\ delivered[c] = Before(c, client[c].request, client[c].repeat, client[c].file)
                                    \o Pieces(FileOf(c), 0, n)
                /\ client[c].buffer = Pieces(FileOf(c), n, m) /\ n + m \in 0 .. Size[FileOf(c)]
                /\ <<1 + (2 + m), n + m>> \in marks
                /\ \A p \in marks : Message(c, marks, p[1], p[2])
                /\ Stream(c) \in Seq(Cells) /\ Len(Stream(c)) = (2 + m) + Len(connection[c].down)
                /\ \A j \in 1 .. Len(connection[c].down) :
                     connection[c].down[j] = Stream(c)[j + (2 + m)]
  <1> DEFINE info == client[c].info
             buffer == client[c].buffer
             down == connection[c].down
             f == FileOf(c)
             t == buffer \o down
             len == Len(buffer)
             s == info \o t
  <1>1. /\ info \in Seq(Cells) /\ buffer \in Seq(Cells) /\ down \in Seq(Cells)
        /\ Len(info) = 2 /\ info[1][2] = len /\ len \in Nat /\ Len(down) \in Nat
        /\ Place(c) /\ client[c].pc \in Asking
    <2>1. client[c] \in ClientType /\ Gets(c) /\ down \in Seq(Cells) /\ Place(c)
      BY ApartIs
    <2>2. info \in Seq(Cells) /\ buffer \in Seq(Cells)
      BY <2>1, FieldTypes
    <2> QED
      BY <2>1, <2>2, LenProperties DEF Gets, Wanted, InfoSize, Asking, InTouch
  <1>2. f \in DOMAIN Size /\ Size[f] \in Nat
    BY <1>1, FileIs
  <1>3. PICK n \in 0 .. Size[f], marks \in SUBSET (Nat \X Nat) :
          /\ delivered[c] = Before(c, client[c].request, client[c].repeat, client[c].file)
                              \o Pieces(f, 0, n)
          /\ <<1, n>> \in marks /\ \A p \in marks : Message(c, marks, p[1], p[2])
          /\ Message(c, marks, 1, n)
    BY StreamIs
  <1>4. Stream(c) = s
    BY DEF Stream
  <1>5. /\ t \in Seq(Cells) /\ Len(t) = len + Len(down)
        /\ \A i \in 1 .. len + Len(down) : t[i] = IF i <= len THEN buffer[i] ELSE down[i - len]
    <2> HIDE DEF buffer, down
    <2> QED
      BY <1>1, ConcatProperties
  <1>6. /\ s \in Seq(Cells) /\ Len(s) = 2 + Len(t)
        /\ \A i \in 1 .. 2 + Len(t) : s[i] = IF i <= 2 THEN info[i] ELSE t[i - 2]
    <2> HIDE DEF info, t
    <2>1. info \in Seq(Cells) /\ t \in Seq(Cells) /\ Len(info) = 2
      BY <1>1, <1>5
    <2>2. /\ s \in Seq(Cells) /\ Len(s) = Len(info) + Len(t)
          /\ \A i \in 1 .. Len(info) + Len(t) : s[i] = IF i <= Len(info) THEN info[i] ELSE t[i - Len(info)]
      BY <2>1, ConcatProperties
    <2> QED
      BY <2>1, <2>2
  <1> HIDE DEF s, t, info, buffer, down, len, f
  <1>7. /\ Len(s) = (2 + len) + Len(down) /\ s[1] = info[1] /\ s[2] = info[2]
        /\ \A j \in 1 .. len : s[2 + j] = buffer[j]
        /\ \A j \in 1 .. Len(down) : s[j + (2 + len)] = down[j]
    <2>1. Len(t) \in Nat /\ Len(t) = len + Len(down)
      BY <1>1, <1>5
    <2>2. Len(s) = (2 + len) + Len(down)
      BY <1>1, <1>6, <2>1
    <2>3. 1 \in 1 .. 2 + Len(t) /\ 2 \in 1 .. 2 + Len(t)
      BY <2>1
    <2>4. ASSUME NEW j \in 1 .. len PROVE s[2 + j] = buffer[j]
      <3>1. 2 + j \in 1 .. 2 + Len(t) /\ (2 + j) - 2 = j /\ ~(2 + j <= 2) /\ j \in 1 .. len + Len(down) /\ j <= len
        BY <1>1, <2>1
      <3>2. s[2 + j] = t[(2 + j) - 2]
        BY <1>6, <3>1
      <3> QED
        BY <1>5, <3>1, <3>2
    <2>5. ASSUME NEW j \in 1 .. Len(down) PROVE s[j + (2 + len)] = down[j]
      <3>1. /\ j + (2 + len) \in 1 .. 2 + Len(t) /\ (j + (2 + len)) - 2 = j + len
            /\ ~(j + (2 + len) <= 2)
            /\ j + len \in 1 .. len + Len(down) /\ ~(j + len <= len) /\ (j + len) - len = j
        BY <1>1, <2>1
      <3>2. s[j + (2 + len)] = t[j + len]
        BY <1>6, <3>1
      <3>3. t[j + len] = down[(j + len) - len]
        BY <1>5, <3>1
      <3> QED
        BY <3>1, <3>2, <3>3
    <2> QED
      BY <1>6, <2>2, <2>3, <2>4, <2>5
  <1>8. PICK m \in Nat, x \in Seq(Payload) :
          /\ s[1] = <<"size", m>> /\ s[1 + 1] = <<"sum", x>>
          /\ Whole(c, marks, 1, n, m, x) \/ Begun(c, 1, n, m, x)
    <2>1. 1 <= Len(Stream(c))
      BY <1>1, <1>4, <1>7
    <2> QED
      BY <1>3, <1>4, <2>1 DEF Message
  <1>9. m = len /\ info[2] = <<"sum", x>>
    BY <1>1, <1>7, <1>8
  <1>10. ~Begun(c, 1, n, m, x)
    <2>1. SUFFICES ASSUME Begun(c, 1, n, m, x) PROVE FALSE
      OBVIOUS
    <2>2. 1 + 1 = Len(s) /\ m # 0
      BY <1>4, <2>1 DEF Begun
    <2> QED
      BY <1>1, <1>7, <1>9, <2>2
  <1>11. /\ <<(1 + 2) + m, n + m>> \in marks
         /\ \A j \in 1 .. m : s[(1 + 1) + j] = <<f, n + j>>
         /\ Options[c].verify => x = Pieces(f, n, m)
    BY <1>4, <1>8, <1>10 DEF Whole, f
  <1>12. n \in Nat /\ n + m \in Nat /\ (1 + 2) + m = 1 + (2 + m)
    BY <1>2
  <1>13. n + m \in 0 .. Size[f]
    <2>1. Message(c, marks, (1 + 2) + m, n + m)
      BY <1>3, <1>11
    <2> QED
      BY <2>1 DEF Message, f
  <1>14. buffer = Pieces(f, n, m)
    <2> DEFINE p == Pieces(f, n, m)
    <2>1. p \in Seq(Payload) /\ Len(p) = m /\ \A i \in 1 .. m : p[i] = <<f, n + i>>
      BY <1>2, <1>12, PiecesAre
    <2>2. p \in Seq(Cells)
      BY <2>1, InfoCellsAre
    <2> HIDE DEF p
    <2>3. \A i \in 1 .. m : buffer[i] = p[i]
      <3> SUFFICES ASSUME NEW i \in 1 .. m PROVE buffer[i] = p[i]
        OBVIOUS
      <3>1. s[2 + i] = buffer[i] /\ s[2 + i] = <<f, n + i>>
        <4>1. (1 + 1) + i = 2 + i
          OBVIOUS
        <4> QED
          BY <1>7, <1>9, <1>11, <4>1
      <3> QED
        BY <2>1, <3>1
    <2>4. Len(buffer) = m
      BY <1>9 DEF len
    <2>5. buffer = p
      BY <1>1, <2>1, <2>2, <2>3, <2>4, SeqEqual
    <2> QED
      BY <2>5 DEF p
  <1>15. Verified(c)
    <2>1. info[2][2] = x
      BY <1>9
    <2> QED
      BY <1>11, <1>14, <2>1 DEF Verified, info, buffer
  <1>16. /\ Stream(c) \in Seq(Cells) /\ Len(Stream(c)) = (2 + m) + Len(down)
         /\ \A j \in 1 .. Len(down) : down[j] = Stream(c)[j + (2 + m)]
    BY <1>4, <1>6, <1>7, <1>9
  <1>17. <<1 + (2 + m), n + m>> \in marks
    BY <1>11, <1>12
  <1> QED
    BY <1>3, <1>12, <1>13, <1>14, <1>15, <1>16, <1>17 DEF f, buffer, down

\* A chunk goes to the decompressor.
LEMMA UseChunkKeeps ==
    ASSUME IInv, NEW c \in Clients, UseChunk(c) PROVE IInv'
  <1> DEFINE cl == client[c]
             down == connection[c].down
             f == FileOf(c)
             b == Before(c, cl.request, cl.repeat, cl.file)
  <1>1. /\ cl \in ClientType /\ cl.pc = "chunk" /\ cl.pc \in Asking /\ Len(cl.buffer) = Wanted(c)
        /\ client \in [Clients -> ClientType] /\ connection \in [Clients -> ConnectionType]
        /\ delivered \in [Clients -> Seq(Cells)] /\ down \in Seq(Cells)
        /\ Place(c) /\ Order(c) /\ Gets(c) /\ connection[c].clientOpen /\ TypeOK
    BY ApartIs DEF UseChunk, InTouch, Asking, IInv, TypeOK
  <1>2. /\ cl.request \in 1 .. Len(Requests[c]) /\ f \in DOMAIN Size /\ Size[f] \in Nat
    BY <1>1, FileIs
  <1>3. Verified(c)
    BY <1>1, ChunkIs
  <1>4. PICK n \in Nat, m \in Nat, marks \in SUBSET (Nat \X Nat) :
                /\ delivered[c] = b \o Pieces(f, 0, n)
                /\ cl.buffer = Pieces(f, n, m) /\ n + m \in 0 .. Size[f]
                /\ <<1 + (2 + m), n + m>> \in marks
                /\ \A p \in marks : Message(c, marks, p[1], p[2])
                /\ Stream(c) \in Seq(Cells) /\ Len(Stream(c)) = (2 + m) + Len(down)
                /\ \A j \in 1 .. Len(down) : down[j] = Stream(c)[j + (2 + m)]
    BY <1>1, ChunkIs
  <1>5. /\ \A d \in Clients \ {c} : /\ client'[d] = client[d] /\ connection'[d] = connection[d]
                                    /\ delivered'[d] = delivered[d]
        /\ client'[c] = [cl EXCEPT !.pc = "info", !.buffer = <<>>]
        /\ connection' = connection /\ delivered'[c] = delivered[c] \o cl.buffer
        /\ server' = server /\ backlog' = backlog
    <2>1. /\ client' = [client EXCEPT ![c].pc = "info", ![c].buffer = <<>>]
          /\ delivered' = [delivered EXCEPT ![c] = @ \o cl.buffer]
          /\ connection' = connection /\ server' = server /\ backlog' = backlog
      BY <1>3 DEF UseChunk
    <2>2. <<>> \in Seq(Cells) /\ "info" \in Apart \cup InTouch \cup Gone
      BY EmptySeq DEF InTouch
    <2>3. /\ \A d \in Clients \ {c} : client'[d] = client[d]
          /\ client'[c] = [cl EXCEPT !.pc = "info", !.buffer = <<>>]
      BY <1>1, <2>1, <2>2, BufferUpdate
    <2> HIDE DEF cl
    <2>4. /\ \A d \in Clients \ {c} : delivered'[d] = delivered[d]
          /\ delivered'[c] = delivered[c] \o cl.buffer
      BY <1>1, <2>1
    <2> QED
      BY <2>1, <2>3, <2>4 DEF cl
  <1>6. /\ client'[c].pc = "info" /\ client'[c].request = cl.request /\ client'[c].buffer = <<>>
        /\ client'[c].repeat = cl.repeat /\ client'[c].file = cl.file /\ FileOf(c)' = f
    BY <1>1, <1>5 DEF ClientType, FileOf, Files
  <1>7. Place(c)'
    BY <1>1, <1>6 DEF Place, Asking, InTouch, Files
  <1>8. (Serves(c)' <=> Serves(c)) /\ (Waits(c)' <=> Waits(c))
    BY <1>5 DEF Serves, Waits
  <1>9. Order(c)'
    <2>1. Ordered(c)' = Ordered(c)
      BY <1>5, <1>8 DEF Ordered
    <2> QED
      BY <1>1, <1>6, <1>8, <2>1, OrderKept DEF InTouch
  <1>10. Stream(c)' = down
    <2>1. Stream(c)' = <<>> \o down
      BY <1>5, <1>6 DEF Stream
    <2> QED
      BY <1>1, <2>1, ConcatEmptySeq
  <1>11. Parsed(c, n + m)'
    <2> DEFINE s == 2 + m
               after == {p \in (Nat \ {0}) \X Nat : <<p[1] + s, p[2]>> \in marks}
    <2>1. <<1, n + m>> \in after
      <3> DEFINE p == <<1, n + m>>
      <3>1. p \in (Nat \ {0}) \X Nat /\ p[1] = 1 /\ p[2] = n + m
        OBVIOUS
      <3>2. <<p[1] + s, p[2]>> \in marks
        BY <1>4, <3>1
      <3> HIDE DEF p
      <3>3. p \in after
        BY <3>1, <3>2
      <3> QED
        BY <3>3 DEF p
    <2>2. ASSUME NEW p \in after PROVE Message(c, after, p[1], p[2])'
      <3>1. p[1] \in Nat \ {0} /\ p[2] \in Nat /\ s \in Nat /\ marks \in SUBSET (Nat \X Nat)
        BY <2>2
      <3>2. Message(c, marks, p[1] + s, p[2])
        <4>1. <<p[1] + s, p[2]>> \in marks
          BY <2>2
        <4> QED
          BY <1>4, <4>1
      <3>3. /\ Stream(c) \in Seq(Cells) /\ Stream(c)' \in Seq(Cells)
            /\ Len(Stream(c)) = s + Len(Stream(c)')
            /\ \A j \in 1 .. Len(Stream(c)') : Stream(c)'[j] = Stream(c)[j + s]
            /\ FileOf(c)' = FileOf(c) /\ server' = server /\ backlog' = backlog
        BY <1>1, <1>4, <1>5, <1>6, <1>10
      <3> HIDE DEF s
      <3> QED
        BY <3>1, <3>2, <3>3, MessageAdvances, SMTT(30)
    <2>3. after \in SUBSET (Nat \X Nat)
      OBVIOUS
    <2> HIDE DEF after
    <2> QED
      BY <2>1, <2>2, <2>3 DEF Parsed
  <1>12. delivered'[c] = b \o Pieces(f, 0, n + m)
    <2> DEFINE p == Pieces(f, 0, n)
               q == Pieces(f, n, m)
    <2>1. b \in Seq(Payload)
      <3>1. cl.repeat \in 1 .. Options[c].count /\ cl.file \in 1 .. Len(Files(c, cl.request))
        <4>1. cl.repeat # 0 /\ cl.repeat <= Options[c].count /\ cl.file \in 1 .. Len(Files(c, cl.request))
          BY <1>1 DEF Place, Asking, InTouch
        <4>2. cl.repeat \in Nat /\ Options[c].count \in Nat
          BY <1>1, FieldTypes, OptionsAre
        <4> QED
          BY <4>1, <4>2
      <3> QED
        BY <1>2, <3>1, BeforeIs
    <2>2. p \in Seq(Payload) /\ q \in Seq(Payload) /\ p \o q = Pieces(f, 0, n + m)
      <3>1. 0 \in Nat
        OBVIOUS
      <3> QED
        BY <1>2, <3>1, PiecesAre, PiecesFollow
    <2>3. delivered'[c] = (b \o p) \o q
      BY <1>4, <1>5
    <2>4. (b \o p) \o q = b \o (p \o q)
      <3> HIDE DEF b, p, q
      <3> QED
        BY <2>1, <2>2, PayloadsAssociative, Zenon
    <2> QED
      BY <2>2, <2>3, <2>4
  <1>13. Gets(c)'
    <2>1. Len(client'[c].buffer) <= InfoSize
      BY <1>6, EmptySeq DEF InfoSize
    <2> DEFINE k == n + m
    <2>2. k \in 0 .. Size[f] /\ Parsed(c, k)' /\ delivered'[c] = b \o Pieces(f, 0, k)
      BY <1>4, <1>11, <1>12
    <2> HIDE DEF k
    <2>3. \E k0 \in 0 .. Size[FileOf(c)'] :
             /\ delivered'[c] = Before(c, client'[c].request, client'[c].repeat, client'[c].file)
                                 \o Pieces(FileOf(c)', 0, k0)
             /\ Parsed(c, k0)'
             /\ client'[c].pc = "request" => k0 = 0 /\ Stream(c)' = <<>>
      BY <1>6, <2>2
    <2> QED
      BY <1>6, <2>1, <2>3 DEF Gets
  <1>14. client'[c].pc \notin Apart
    BY <1>6 DEF Apart
  <1> QED
    BY <1>1, <1>5, <1>7, <1>9, <1>13, <1>14, UseChunkType, ClientStep

-----------------------------------------------------------------------------
(* The server's steps *)

\* The server takes the next connection.
LEMMA AcceptKeeps == ASSUME IInv, Accept PROVE IInv'
  <1> DEFINE n == Len(backlog)
  <1>1. /\ backlog \in Seq(Clients) /\ backlog # <<>> /\ server \in ServerType /\ Queue
        /\ server.pc = "accept"
    BY DEF IInv, TypeOK, Data, Accept
  <1> PICK h \in Clients : h = Head(backlog)
    BY <1>1, HeadTailProperties
  <1>2. /\ h = Head(backlog) /\ n \in Nat \ {0} /\ DOMAIN backlog = 1 .. n /\ backlog[1] = h
        /\ DOMAIN backlog' = 1 .. n - 1 /\ \A i \in 1 .. n - 1 : backlog'[i] = backlog[i + 1]
    <2>1. /\ Tail(backlog) \in Seq(Clients) /\ Len(Tail(backlog)) = n - 1
          /\ \A i \in 1 .. Len(Tail(backlog)) : Tail(backlog)[i] = backlog[i + 1]
      BY <1>1, HeadTailProperties
    <2>2. n \in Nat /\ DOMAIN backlog = 1 .. n /\ n # 0
      BY <1>1, LenProperties, EmptySeq
    <2>3. DOMAIN Tail(backlog) = 1 .. n - 1
      BY <2>1, LenProperties
    <2>4. backlog[1] = h
      BY <1>1, HeadTailProperties
    <2> QED
      BY <2>1, <2>2, <2>3, <2>4 DEF Accept
  <1>3. /\ server'.pc = "request" /\ server'.client = h /\ server'.buffer = <<>>
        /\ client' = client /\ connection' = connection /\ delivered' = delivered
    BY <1>1, <1>2 DEF Accept, ServerType
  <1> HIDE DEF n
  <1>4. Waits(h) /\ \A d \in Clients : ~Serves(d)
    <2>1. 1 \in 1 .. n
      BY <1>2
    <2> QED
      BY <1>1, <1>2, <2>1 DEF Waits, Serves, AtServer
  <1>5. \A d \in Clients : Serves(d)' <=> d = h
    BY <1>3 DEF Serves, AtServer
  <1>6. ~Waits(h)'
    <2>1. SUFFICES ASSUME NEW i \in 1 .. n - 1, backlog[i + 1] = h PROVE FALSE
      BY <1>2 DEF Waits
    <2>2. i + 1 \in 1 .. n /\ 1 \in 1 .. n /\ i + 1 # 1
      BY <1>2
    <2> QED
      BY <1>1, <1>2, <2>1, <2>2 DEF Queue
  <1>7. \A d \in Clients : Waits(d)' => Waits(d)
    <2> SUFFICES ASSUME NEW d \in Clients, Waits(d)' PROVE Waits(d)
      OBVIOUS
    <2>1. PICK i \in 1 .. n - 1 : backlog[i + 1] = d
      BY <1>2 DEF Waits
    <2>2. i + 1 \in 1 .. n
      BY <1>2
    <2> QED
      BY <1>2, <2>1, <2>2 DEF Waits
  <1>8. Queue'
    <2>1. server'.pc \in AtServer => server'.client \in Clients
      BY <1>2, <1>3
    <2>2. ASSUME NEW i \in DOMAIN backlog', NEW j \in DOMAIN backlog', backlog'[i] = backlog'[j] PROVE i = j
      <3>1. i \in 1 .. n - 1 /\ j \in 1 .. n - 1
        BY <1>2
      <3>2. i + 1 \in 1 .. n /\ j + 1 \in 1 .. n /\ backlog[i + 1] = backlog[j + 1]
        BY <1>2, <2>2, <3>1
      <3>3. i + 1 = j + 1
        BY <1>1, <1>2, <3>2 DEF Queue
      <3> QED
        BY <3>1, <3>3
    <2>3. ASSUME NEW d \in Clients
          PROVE  /\ ~(Serves(d)' /\ Waits(d)')
                 /\ client'[d].pc \in Apart => ~Serves(d)' /\ ~Waits(d)'
                 /\ client'[d].pc \in InTouch => connection'[d].clientOpen
      <3>1. /\ client[d].pc \in Apart => ~Serves(d) /\ ~Waits(d)
            /\ client[d].pc \in InTouch => connection[d].clientOpen
        BY <1>1 DEF Queue
      <3>2. Serves(d)' => d = h
        BY <1>5
      <3>3. Waits(d)' => Waits(d) /\ d # h
        BY <1>6, <1>7
      <3> QED
        BY <1>3, <1>4, <3>1, <3>2, <3>3
    <2> QED
      BY <2>1, <2>2, <2>3 DEF Queue
  <1>9. ASSUME NEW d \in Clients PROVE Order(d)'
    <2>1. Order(d) /\ FileOf(d)' = FileOf(d)
      BY <1>3, ApartIs DEF FileOf, Files
    <2>2. Serves(d)' \/ Waits(d)' => Serves(d) \/ Waits(d)
      BY <1>4, <1>5, <1>7
    <2>3. Ordered(d)' = Ordered(d)
      <3>1. Ordered(d) = <<>> \o connection[d].up
        BY <1>4 DEF Ordered
      <3>2. Ordered(d)' = <<>> \o connection[d].up
        BY <1>3, <1>5 DEF Ordered
      <3> QED
        BY <3>1, <3>2
    <2> QED
      BY <1>3, <2>1, <2>2, <2>3, OrderKept
  <1>10. ASSUME NEW d \in Clients \ {h} PROVE Gets(d)'
    <2>1. Gets(d) /\ SameService(d)
      BY <1>5, ApartIs DEF SameService
    <2> QED
      BY <1>3, <1>7, <2>1, GetsKept
  <1>11. Gets(h)'
    <2>1. Gets(h)
      BY <1>2, ApartIs
    <2>2. CASE client[h].pc \notin InTouch
      BY <1>2, <1>3, <2>1, <2>2, GetsKept
    <2>3. CASE client[h].pc \in InTouch
      <3>1. PICK k \in 0 .. Size[FileOf(h)] :
             /\ delivered[h] = Before(h, client[h].request, client[h].repeat, client[h].file)
                                 \o Pieces(FileOf(h), 0, k)
             /\ Parsed(h, k)
             /\ client[h].pc = "request" => k = 0 /\ Stream(h) = <<>>
        BY <2>1, <2>3 DEF Gets
      <3>2. PICK marks \in SUBSET (Nat \X Nat) :
              <<1, k>> \in marks /\ \A p \in marks : Message(h, marks, p[1], p[2])
        BY <3>1 DEF Parsed
      <3>3. FileOf(h)' = FileOf(h) /\ Stream(h)' = Stream(h) /\ Shown' = 0
        BY <1>3 DEF FileOf, Files, Stream, Shown
      <3>4. ASSUME NEW p \in marks PROVE Message(h, marks, p[1], p[2])'
        <4>1. Message(h, marks, p[1], p[2])
          BY <3>2
        <4>2. Stream(h) \in Seq(Cells)
          <5>1. client[h] \in ClientType /\ connection[h].down \in Seq(Cells)
            BY <1>2, ApartIs
          <5>2. client[h].buffer \in Seq(Cells) /\ client[h].info \in Seq(Cells)
            BY <5>1, FieldTypes
          <5>3. client[h].buffer \o connection[h].down \in Seq(Cells)
            BY <5>1, <5>2, ConcatProperties
          <5>4. client[h].info \o (client[h].buffer \o connection[h].down) \in Seq(Cells)
            BY <5>2, <5>3, ConcatProperties
          <5> QED
            BY <5>1, <5>3, <5>4 DEF Stream
        <4>3. Len(Stream(h)) \in Nat
          BY <4>2, LenProperties
        <4>4. p[1] = Len(Stream(h)) + 1 /\ p[2] = 0
          BY <1>4, <4>1, <4>3 DEF Message
        <4>5. ~(p[1] <= Len(Stream(h)))
          BY <4>3, <4>4
        <4> QED
          BY <1>3, <1>6, <3>3, <4>1, <4>4, <4>5 DEF Message
      <3>5. Parsed(h, k)'
        BY <3>2, <3>4 DEF Parsed
      <3>6. \E k0 \in 0 .. Size[FileOf(h)'] :
             /\ delivered'[h] = Before(h, client'[h].request, client'[h].repeat, client'[h].file)
                                 \o Pieces(FileOf(h)', 0, k0)
             /\ Parsed(h, k0)'
             /\ client'[h].pc = "request" => k0 = 0 /\ Stream(h)' = <<>>
        BY <1>3, <3>1, <3>3, <3>5
      <3>7. /\ client[h].pc = "info" => Len(client[h].buffer) <= InfoSize
            /\ client[h].pc = "chunk" =>
                 Len(client[h].info) = InfoSize /\ Len(client[h].buffer) <= client[h].info[1][2]
            /\ client[h].pc \notin {"due", "waiting", "repeat", "connect"}
        BY <2>1, <2>3 DEF Gets, InTouch
      <3> QED
        BY <1>3, <3>6, <3>7 DEF Gets
    <2> QED
      BY <2>2, <2>3
  <1>12. Supplies'
    BY <1>3 DEF Supplies, Supplying
  <1>13. \A d \in Clients : Place(d)' /\ Order(d)' /\ Gets(d)'
    <2>1. \A d \in Clients : Place(d)'
      BY <1>3 DEF IInv, Place, Files
    <2> QED
      BY <1>9, <1>10, <1>11, <2>1
  <1> QED
    BY <1>8, <1>12, <1>13, AcceptType DEF IInv, Data, Orders

\* The server ends: nobody is served any more.
LEMMA ServerEndsKeeps ==
    ASSUME IInv, NEW pc \in {"failed", "interrupted"}, ServerEnds(pc) PROVE IInv'
  <1>1. /\ client' = client /\ delivered' = delivered /\ backlog' = <<>>
        /\ server' = [server EXCEPT !.pc = pc] /\ server \in ServerType
    BY DEF ServerEnds, IInv, TypeOK
  <1>2. server'.pc \notin AtServer /\ server'.pc \notin Supplying
    BY <1>1 DEF ServerType, AtServer, Supplying
  <1>3. \A d \in Clients : ~Serves(d)' /\ ~Waits(d)'
    <2>1. DOMAIN backlog' = {}
      <3>1. backlog' \in Seq(Clients) /\ Len(backlog') = 0
        BY <1>1, EmptySeq
      <3> QED
        BY <1>1
    <2> QED
      BY <1>2, <2>1 DEF Serves, Waits
  <1>4. \A d \in Clients : /\ connection'[d].down = connection[d].down
                           /\ connection'[d].clientOpen = connection[d].clientOpen
    <2> SUFFICES ASSUME NEW d \in Clients
                 PROVE  /\ connection'[d].down = connection[d].down
                        /\ connection'[d].clientOpen = connection[d].clientOpen
      OBVIOUS
    <2> DEFINE r == connection[d].reset \/ (connection[d].serverOpen
                      /\ (connection[d].up # <<>> \/ \E i \in DOMAIN backlog : backlog[i] = d))
    <2>1. connection'[d] = [connection[d] EXCEPT !.serverOpen = FALSE, !.up = <<>>, !.reset = r]
      BY DEF ServerEnds
    <2>2. connection[d] \in ConnectionType
      BY DEF IInv, TypeOK
    <2> HIDE DEF r
    <2> QED
      BY <2>1, <2>2 DEF ConnectionType
  <1>5. \A d \in Clients : Place(d)' /\ Order(d)' /\ Gets(d)'
    <2> SUFFICES ASSUME NEW d \in Clients PROVE Place(d)' /\ Order(d)' /\ Gets(d)'
      OBVIOUS
    <2>1. Place(d)'
      BY <1>1 DEF IInv, Place, Files
    <2>2. Order(d)'
      BY <1>3 DEF Order
    <2>3. Gets(d)'
      <3>1. Gets(d) /\ SameService(d)
        BY <1>3, ApartIs DEF SameService
      <3> QED
        BY <1>1, <1>3, <1>4, <3>1, GetsKept
    <2> QED
      BY <2>1, <2>2, <2>3
  <1>6. Queue'
    <2>1. DOMAIN backlog' = {}
      <3>1. backlog' \in Seq(Clients) /\ Len(backlog') = 0
        BY <1>1, EmptySeq
      <3> QED
        BY <1>1
    <2> QED
      BY <1>1, <1>2, <1>3, <1>4, <2>1 DEF IInv, Data, Queue
  <1>7. Supplies'
    BY <1>2 DEF Supplies
  <1> QED
    BY <1>5, <1>6, <1>7, ServerEndsType DEF IInv, Data, Orders

\* Concatenation of what is asked is associative.
LEMMA OrdersAssociative ==
    \A x, y, z \in Seq(OrderCells) : (x \o y) \o z = x \o (y \o z)
  BY ConcatAssociative

\* A request arrives.
LEMMA ReceiveRequestKeeps == ASSUME IInv, ReceiveRequest PROVE IInv'
  <1> PICK c \in Clients : c = server.client
    BY RequestReceivedIs DEF IInv, Data
  <1> DEFINE up == connection[c].up
             b == server.buffer
  <1>1. PICK n \in 1 .. Len(up) :
          /\ server' = [server EXCEPT !.buffer = @ \o SubSeq(up, 1, n)]
          /\ connection' = [connection EXCEPT ![c].up = SubSeq(up, n + 1, Len(up))]
    BY RequestReceivedIs DEF IInv, Data
  <1>2. /\ c = server.client /\ TypeOK /\ server \in ServerType /\ server.pc = "request" /\ b \in Seq(OrderCells)
        /\ connection \in [Clients -> ConnectionType]
        /\ client' = client /\ delivered' = delivered /\ backlog' = backlog
    BY RequestReceivedIs, ServerTypes DEF IInv, Data, TypeOK, ReceiveRequest
  <1>3. up \in Seq(OrderCells) /\ connection[c] \in ConnectionType
    BY <1>2 DEF ConnectionType
  <1> DEFINE x == SubSeq(up, 1, n)
             y == SubSeq(up, n + 1, Len(up))
  <1>4. x \in Seq(OrderCells) /\ y \in Seq(OrderCells) /\ x \o y = up
    <2>1. Len(up) \in Nat
      BY <1>3, LenProperties
    <2>2. n \in 0 .. Len(up)
      BY <2>1
    <2> QED
      BY <1>3, <2>2, PartType
  <1> HIDE DEF x, y
  <1> DEFINE z == b \o x
  <1>5. server' = [server EXCEPT !.buffer = z] /\ connection' = [connection EXCEPT ![c].up = y]
    BY <1>1 DEF x, y
  <1> HIDE DEF z
  <1>6. /\ server'.pc = "request" /\ server'.client = c /\ server'.buffer = z
        /\ \A d \in Clients \ {c} : connection'[d] = connection[d]
        /\ connection'[c].down = connection[c].down /\ connection'[c].up = y
        /\ connection'[c].clientOpen = connection[c].clientOpen
    <2>1. server'.pc = "request" /\ server'.client = c /\ server'.buffer = z
      BY <1>2, <1>5 DEF ServerType
    <2>2. /\ \A d \in Clients \ {c} : connection'[d] = connection[d]
          /\ connection'[c] = [connection[c] EXCEPT !.up = y]
      BY <1>2, <1>5
    <2>3. /\ connection'[c].down = connection[c].down /\ connection'[c].up = y
          /\ connection'[c].clientOpen = connection[c].clientOpen
      BY <1>3, <2>2 DEF ConnectionType
    <2> QED
      BY <2>1, <2>2, <2>3
  <1>7. Serves(c) /\ Serves(c)' /\ (Waits(c)' <=> Waits(c))
    BY <1>2, <1>6 DEF Serves, Waits, AtServer
  <1>8. Order(c)'
    <2>1. (b \o x) \o y = b \o up
      <3>1. (b \o x) \o y = b \o (x \o y)
        <4>1. b \in Seq(OrderCells) /\ x \in Seq(OrderCells) /\ y \in Seq(OrderCells)
          BY <1>2, <1>4
        <4> HIDE DEF b
        <4> QED
          BY <4>1, OrdersAssociative, Zenon
      <3> QED
        BY <1>4, <3>1
    <2>2. Ordered(c)' = Ordered(c) /\ FileOf(c)' = FileOf(c)
      BY <1>2, <1>6, <1>7, <2>1 DEF Ordered, FileOf, Files, z
    <2>3. Order(c)
      BY <1>2, ApartIs
    <2> QED
      BY <1>2, <1>7, <2>2, <2>3, OrderKept
  <1>9. Gets(c)'
    <2>1. Gets(c) /\ SameService(c)
      BY <1>2, <1>6, <1>7, ApartIs DEF SameService, Shown
    <2> QED
      BY <1>2, <1>6, <1>7, <2>1, GetsKept
  <1>10. Supplies'
    BY <1>6 DEF Supplies, Supplying
  <1>11. server.pc \in AtServer /\ server'.pc \in AtServer
    BY <1>2, <1>6 DEF AtServer
  <1> QED
    BY <1>2, <1>6, <1>8, <1>9, <1>10, <1>11, ReceiveRequestType, ServerStep

\* The client of the server, as a constant of a step
LEMMA ClientOfServer ==
    ASSUME IInv, server.pc \in Supplying, NEW c \in Clients, c = server.client
    PROVE  /\ Serves(c) /\ ~Waits(c) /\ Len(server.buffer) = RequestSize
           /\ Asked \in DOMAIN Size /\ Size[Asked] \in Nat /\ AskedOptions = Options[c]
           /\ client[c].pc \in InTouch => Asked = FileOf(c) /\ connection[c].clientOpen
           /\ client[c].pc # "request" /\ client[c].pc \notin Apart
           /\ server \in ServerType /\ server.pc \in AtServer
           /\ Place(c) /\ Order(c) /\ Gets(c) /\ TypeOK
  <1>1. /\ Serves(c) /\ ~Waits(c) /\ Len(server.buffer) = RequestSize
        /\ Asked \in DOMAIN Size /\ Size[Asked] \in Nat /\ AskedOptions = Options[c]
        /\ client[c].pc \in InTouch => Asked = FileOf(c)
        /\ client[c].pc # "request"
    BY ServedIs
  <1>2. client[c].pc \notin Apart /\ (client[c].pc \in InTouch => connection[c].clientOpen)
    BY <1>1, ApartIs
  <1> QED
    BY <1>1, <1>2, ApartIs, ServerTypes DEF IInv, Supplying, AtServer

\* The file that was asked for is opened, at its start.
LEMMA OpenFileKeeps == ASSUME IInv, OpenFile PROVE IInv'
  <1>1. server.pc \in AtServer /\ Len(server.buffer) = RequestSize
    BY DEF OpenFile, AtServer
  <1> PICK c \in Clients : c = server.client
    BY <1>1, AskedIs DEF IInv, Data
  <1>2. /\ Asked \in DOMAIN Size /\ Size[Asked] \in Nat /\ Serves(c) /\ server \in ServerType
        /\ server.pc = "request"
    BY <1>1, AskedIs, ServerTypes DEF IInv, Data, OpenFile, Serves
  <1>3. /\ server'.pc = "read" /\ server'.client = c /\ server'.buffer = server.buffer
        /\ server'.offset = 0 /\ server'.eof = FALSE /\ server'.held = <<>>
        /\ client' = client /\ connection' = connection /\ delivered' = delivered /\ backlog' = backlog
    BY <1>2 DEF OpenFile, Opened, ServerType
  <1>4. Asked' = Asked /\ Shown = 0 /\ Shown' = 0 /\ Len(<<>>) = 0
    <2>1. Len(<<>>) = 0
      BY EmptySeq
    <2>2. Shown' = 0 - Len(<<>>) - 0
      BY <1>3 DEF Shown
    <2> QED
      BY <1>2, <1>3, <2>1, <2>2 DEF Asked, Shown
  <1>5. Supplies'
    <2>1. Numbered(server'.held, Asked', server'.offset - Len(server'.held))
      BY <1>3 DEF Numbered
    <2> QED
      BY <1>1, <1>2, <1>3, <1>4, <2>1 DEF Supplies, Supplying
  <1>6. Serves(c)' /\ (Waits(c)' <=> Waits(c))
    BY <1>3 DEF Serves, Waits, AtServer
  <1>7. Order(c)'
    <2>1. Ordered(c)' = Ordered(c) /\ FileOf(c)' = FileOf(c)
      BY <1>2, <1>3, <1>6 DEF Ordered, FileOf, Files
    <2> QED
      BY <1>2, <1>3, <1>6, <2>1, ApartIs, OrderKept
  <1>8. Gets(c)'
    <2>1. SameService(c)
      BY <1>2, <1>3, <1>4 DEF SameService
    <2> QED
      BY <1>3, <1>6, <2>1, ApartIs, GetsKept
  <1>9. server'.pc \in AtServer
    BY <1>3 DEF AtServer
  <1> QED
    BY <1>1, <1>3, <1>5, <1>7, <1>8, <1>9, OpenFileType, ServerStep

\* What is read comes after what the compressor holds.
LEMMA ReadFileKeeps == ASSUME IInv, ReadFile PROVE IInv'
  <1>1. server.pc = "read" /\ server.pc \in Supplying
    BY DEF ReadFile, Supplying
  <1> PICK c \in Clients : c = server.client
    BY <1>1, ServedIs
  <1> DEFINE f == Asked
             o == server.offset
             h == server.held
             k == Len(h)
  <1>2. /\ f \in DOMAIN Size /\ Size[f] \in Nat /\ Serves(c) /\ server \in ServerType
        /\ Len(server.buffer) = RequestSize
        /\ o \in Nat /\ h \in Seq(Payload) /\ k \in Nat
    BY <1>1, ClientOfServer, ServerTypes DEF IInv
  <1>3. /\ Shown = o - k /\ o - k \in Nat /\ Numbered(h, f, o - k)
    <2>1. Shown \in Nat /\ Numbered(h, f, o - k)
      BY <1>1 DEF IInv, Data, Supplies
    <2>2. Shown = o - k - 0
      BY <1>1 DEF Shown
    <2> HIDE DEF o, k
    <2> QED
      BY <1>2, <2>1, <2>2
  <1>4. PICK count \in Nat, n \in Nat :
          /\ o + count <= Size[f]
          /\ count # AskedOptions.chunkSize => o + count = Size[f]
          /\ n <= Len(h \o Pieces(f, o, count))
          /\ server' = [server EXCEPT !.pc = IF n = 0 THEN "read" ELSE "info",
               !.offset = @ + count, !.eof = (count # AskedOptions.chunkSize),
               !.chunk = SubSeq(h \o Pieces(f, o, count), 1, n),
               !.held = SubSeq(h \o Pieces(f, o, count), n + 1, Len(h \o Pieces(f, o, count))),
               !.last = FALSE]
    BY ReadIs DEF IInv, Data
  <1> DEFINE p == Pieces(f, o, count)
             s == h \o p
             a == SubSeq(s, 1, n)
             b == SubSeq(s, n + 1, Len(s))
  <1>5. p \in Seq(Payload) /\ Len(p) = count /\ \A i \in 1 .. count : p[i] = <<f, o + i>>
    BY <1>2, PiecesAre, ZenonT(60)
  <1> HIDE DEF f, o, h, p
  <1>6. s \in Seq(Payload) /\ Len(s) = k + count /\ \A i \in 1 .. k + count : s[i] = <<f, (o - k) + i>>
    <2>1. s \in Seq(Payload) /\ Len(s) = k + count
          /\ \A i \in 1 .. k + count : s[i] = IF i <= k THEN h[i] ELSE p[i - k]
      <3>1. /\ s \in Seq(Payload) /\ Len(s) = Len(h) + Len(p)
            /\ \A i \in 1 .. Len(h) + Len(p) : s[i] = IF i <= Len(h) THEN h[i] ELSE p[i - Len(h)]
        BY <1>2, <1>5, ConcatProperties
      <3> QED
        BY <1>5, <3>1
    <2>2. ASSUME NEW i \in 1 .. k + count PROVE s[i] = <<f, (o - k) + i>>
      <3> HIDE DEF s, k
      <3>1. CASE i <= k
        <4>1. i \in 1 .. k
          BY <1>2, <3>1
        <4>2. h[i] = <<f, (o - k) + i>>
          BY <1>3, <4>1 DEF Numbered, k
        <4> QED
          BY <2>1, <3>1, <4>2
      <3>2. CASE ~(i <= k)
        <4>1. i - k \in 1 .. count /\ o + (i - k) = (o - k) + i
          BY <1>2, <3>2
        <4>2. s[i] = p[i - k] /\ p[i - k] = <<f, o + (i - k)>>
          BY <1>5, <2>1, <3>2, <4>1
        <4> QED
          BY <4>1, <4>2
      <3> QED
        BY <3>1, <3>2
    <2> QED
      BY <2>1, <2>2
  <1>7. n \in 0 .. Len(s)
    <2>1. n <= Len(s)
      BY <1>4 DEF p, f, h, o
    <2> HIDE DEF s, k
    <2> QED
      BY <1>2, <1>6, <2>1
  <1> HIDE DEF k
  <1>8. /\ Len(a) = n /\ Len(b) = (k + count) - n
        /\ \A i \in 1 .. n : a[i] = <<f, (o - k) + i>>
        /\ \A i \in 1 .. (k + count) - n : b[i] = <<f, ((o - k) + n) + i>>
    <2> HIDE DEF s
    <2>1. /\ Len(a) = n /\ Len(b) = Len(s) - n
          /\ \A i \in 1 .. n : a[i] = s[i]
          /\ \A i \in 1 .. Len(s) - n : b[i] = s[n + i]
      BY <1>6, <1>7, PartType
    <2> HIDE DEF a, b
    <2>2. \A i \in 1 .. n : i \in 1 .. k + count
      BY <1>2, <1>6, <1>7
    <2>3. ASSUME NEW i \in 1 .. (k + count) - n PROVE b[i] = <<f, ((o - k) + n) + i>>
      <3>1. n + i \in 1 .. k + count /\ (o - k) + (n + i) = ((o - k) + n) + i
        BY <1>2, <1>6, <1>7
      <3>2. b[i] = s[n + i] /\ s[n + i] = <<f, (o - k) + (n + i)>>
        BY <1>6, <2>1, <3>1
      <3> QED
        BY <3>1, <3>2
    <2> QED
      BY <1>6, <2>1, <2>2, <2>3
  <1>9. server' = [server EXCEPT !.pc = IF n = 0 THEN "read" ELSE "info",
               !.offset = o + count, !.eof = (count # AskedOptions.chunkSize),
               !.chunk = a, !.held = b, !.last = FALSE]
    BY <1>4 DEF p, f, h, o
  <1> HIDE DEF a, b, s
  <1>10. /\ server'.pc = IF n = 0 THEN "read" ELSE "info"
         /\ server'.client = c /\ server'.buffer = server.buffer
         /\ server'.offset = o + count /\ server'.eof = (count # AskedOptions.chunkSize)
         /\ server'.chunk = a /\ server'.held = b /\ server'.last = FALSE
    BY <1>2, <1>9 DEF ServerType
  <1>11. client' = client /\ connection' = connection /\ delivered' = delivered /\ backlog' = backlog
    BY DEF ReadFile
  <1>12. /\ Shown' = Shown /\ Asked' = f
    <2>1. Asked' = f
      BY <1>10 DEF Asked, f
    <2>2. Shown' = (o + count) - ((k + count) - n) - (IF n = 0 THEN 0 ELSE n)
      BY <1>8, <1>10 DEF Shown
    <2>3. Shown' = o - k
      BY <1>2, <2>2
    <2> QED
      BY <1>3, <2>1, <2>3
  <1>13. Supplies'
    <2>1. Numbered(b, f, (o + count) - Len(b))
      <3>1. (o + count) - Len(b) = (o - k) + n
        BY <1>2, <1>8
      <3> QED
        BY <1>8, <3>1 DEF Numbered
    <2>2. Numbered(a, f, Shown')
      BY <1>3, <1>8, <1>12 DEF Numbered
    <2>3. n # 0 => a # <<>>
      BY <1>8, EmptySeq
    <2>4. server'.eof => o + count = Size[f]
      BY <1>4, <1>10 DEF f, o
    <2>5. Shown' \in Nat /\ o + count <= Size[f]
      BY <1>3, <1>4, <1>12 DEF f, o
    <2> QED
      BY <1>2, <1>10, <1>12, <2>1, <2>2, <2>3, <2>4, <2>5 DEF Supplies
  <1>14. server.pc \in AtServer /\ server'.pc \in AtServer /\ server'.pc # "chunk"
    BY <1>1, <1>10 DEF AtServer
  <1>15. Serves(c)' /\ (Waits(c)' <=> Waits(c))
    BY <1>10, <1>11, <1>14 DEF Serves, Waits
  <1>16. Order(c)'
    <2>1. Ordered(c)' = Ordered(c) /\ FileOf(c)' = FileOf(c)
      BY <1>2, <1>10, <1>11, <1>15 DEF Ordered, FileOf, Files
    <2> QED
      BY <1>2, <1>11, <1>15, <2>1, ApartIs, OrderKept
  <1>17. Gets(c)'
    <2>1. SameService(c)
      BY <1>1, <1>2, <1>12, <1>14 DEF SameService
    <2> QED
      BY <1>11, <1>15, <2>1, ApartIs, GetsKept
  <1> QED
    BY <1>10, <1>11, <1>13, <1>14, <1>16, <1>17, ReadFileType, ServerStep

\* The compressor gives what it holds.
LEMMA GetRemainingDataKeeps == ASSUME IInv, GetRemainingData PROVE IInv'
  <1>1. server.pc = "read" /\ server.pc \in Supplying /\ server.eof
    BY DEF GetRemainingData, Supplying
  <1> PICK c \in Clients : c = server.client
    BY <1>1, ServedIs
  <1> DEFINE h == server.held
             k == Len(h)
  <1>2. /\ Asked \in DOMAIN Size /\ Size[Asked] \in Nat /\ Serves(c) /\ server \in ServerType
        /\ Len(server.buffer) = RequestSize
        /\ server.offset \in Nat /\ h \in Seq(Payload) /\ k \in Nat
    BY <1>1, ClientOfServer, ServerTypes DEF IInv
  <1>3. /\ Shown = server.offset - k /\ Shown \in Nat /\ Numbered(h, Asked, server.offset - k)
        /\ server.offset = Size[Asked]
    <2>1. Shown \in Nat /\ Numbered(h, Asked, server.offset - k) /\ server.offset = Size[Asked]
      BY <1>1 DEF IInv, Data, Supplies
    <2>2. Shown = server.offset - k - 0
      BY <1>1 DEF Shown
    <2> HIDE DEF k
    <2> QED
      BY <1>2, <2>1, <2>2
  <1>4. /\ server'.pc = IF h = <<>> THEN "end" ELSE "info"
        /\ server'.client = c /\ server'.buffer = server.buffer /\ server'.offset = server.offset
        /\ server'.eof = server.eof /\ server'.chunk = h /\ server'.held = <<>> /\ server'.last = TRUE
        /\ client' = client /\ connection' = connection /\ delivered' = delivered /\ backlog' = backlog
    BY <1>2 DEF GetRemainingData, ServerType
  <1>5. Asked' = Asked /\ Shown' = Shown
    <2>1. Asked' = Asked
      BY <1>4 DEF Asked
    <2>2. CASE h = <<>>
      <3>1. k = 0
        BY <2>2, EmptySeq
      <3>2. Shown' = server.offset - 0 - 0
        BY <1>4, <2>2, EmptySeq DEF Shown
      <3> QED
        BY <1>2, <1>3, <2>1, <3>1, <3>2
    <2>3. CASE h # <<>>
      <3>1. Shown' = server.offset - 0 - k
        BY <1>4, <2>3, EmptySeq DEF Shown
      <3> QED
        BY <1>2, <1>3, <2>1, <3>1
    <2> QED
      BY <2>2, <2>3
  <1>6. Supplies'
    <2>1. Numbered(<<>>, Asked, server.offset - Len(<<>>))
      BY EmptySeq DEF Numbered
    <2> QED
      BY <1>2, <1>3, <1>4, <1>5, <2>1 DEF Supplies
  <1>7. server.pc \in AtServer /\ server'.pc \in AtServer /\ server'.pc # "chunk"
    BY <1>1, <1>4 DEF AtServer
  <1>8. Serves(c)' /\ (Waits(c)' <=> Waits(c))
    BY <1>4, <1>7 DEF Serves, Waits
  <1>9. Order(c)'
    <2>1. Ordered(c)' = Ordered(c) /\ FileOf(c)' = FileOf(c)
      BY <1>2, <1>4, <1>8 DEF Ordered, FileOf, Files
    <2> QED
      BY <1>2, <1>4, <1>8, <2>1, ApartIs, OrderKept
  <1>10. Gets(c)'
    <2>1. SameService(c)
      BY <1>1, <1>2, <1>5, <1>7 DEF SameService
    <2> QED
      BY <1>4, <1>8, <2>1, ApartIs, GetsKept
  <1> QED
    BY <1>4, <1>6, <1>7, <1>9, <1>10, GetRemainingDataType, ServerStep

\* What is sent comes at the end of the stream.
LEMMA StreamGrows ==
    ASSUME TypeOK, NEW c \in Clients, client' = client, client[c].pc \in {"info", "chunk"},
           NEW cells \in Seq(Cells), connection'[c].down = connection[c].down \o cells
    PROVE  /\ Stream(c) \in Seq(Cells) /\ Len(Stream(c)) \in Nat /\ Len(cells) \in Nat
           /\ Stream(c)' = Stream(c) \o cells
           /\ Len(Stream(c)') = Len(Stream(c)) + Len(cells)
           /\ \A i \in 1 .. Len(Stream(c)) : Stream(c)'[i] = Stream(c)[i]
           /\ \A i \in 1 .. Len(cells) : Stream(c)'[Len(Stream(c)) + i] = cells[i]
  <1> DEFINE info == client[c].info
             b == client[c].buffer
             d == connection[c].down
             s == Stream(c)
  <1>1. info \in Seq(Cells) /\ b \in Seq(Cells) /\ d \in Seq(Cells)
    BY DEF TypeOK, ClientType, ConnectionType
  <1>2. b \o d \in Seq(Cells) /\ info \o (b \o d) \in Seq(Cells)
    <2> HIDE DEF info, b, d
    <2>1. b \o d \in Seq(Cells)
      BY <1>1, ConcatProperties
    <2> QED
      BY <1>1, <2>1, ConcatProperties
  <1>3. (b \o d) \o cells = b \o (d \o cells)
    <2> HIDE DEF b, d
    <2>1. b \in Seq(Cells) /\ d \in Seq(Cells) /\ cells \in Seq(Cells)
      BY <1>1
    <2> QED
      BY <2>1, CellsAssociative, Zenon
  <1>4. (info \o (b \o d)) \o cells = info \o (b \o (d \o cells))
    <2> DEFINE t == b \o d
    <2> HIDE DEF info, b, d, t
    <2>1. t \in Seq(Cells) /\ info \in Seq(Cells) /\ cells \in Seq(Cells)
      BY <1>1, <1>2 DEF t
    <2>2. (info \o t) \o cells = info \o (t \o cells)
      BY <2>1, CellsAssociative, Zenon
    <2> QED
      BY <1>3, <2>2 DEF t
  <1>5. s \in Seq(Cells) /\ Stream(c)' = s \o cells
    <2>1. CASE client[c].pc = "info"
      <3>1. s = b \o d /\ Stream(c)' = b \o (d \o cells)
        BY <2>1 DEF Stream
      <3> HIDE DEF s, b, d
      <3> QED
        BY <1>2, <1>3, <3>1
    <2>2. CASE client[c].pc = "chunk"
      <3>1. s = info \o (b \o d) /\ Stream(c)' = info \o (b \o (d \o cells))
        BY <2>2 DEF Stream
      <3> HIDE DEF s, b, d, info
      <3> QED
        BY <1>2, <1>4, <3>1
    <2> QED
      BY <2>1, <2>2
  <1> HIDE DEF s
  <1>6. Len(s) \in Nat /\ Len(cells) \in Nat
    BY <1>5, LenProperties
  <1>7. /\ Len(s \o cells) = Len(s) + Len(cells)
        /\ \A i \in 1 .. Len(s) + Len(cells) :
             (s \o cells)[i] = IF i <= Len(s) THEN s[i] ELSE cells[i - Len(s)]
    BY <1>5, ConcatProperties
  <1>8. \A i \in 1 .. Len(s) : (s \o cells)[i] = s[i]
    BY <1>6, <1>7
  <1>9. \A i \in 1 .. Len(cells) : (s \o cells)[Len(s) + i] = cells[i]
    <2> SUFFICES ASSUME NEW i \in 1 .. Len(cells) PROVE (s \o cells)[Len(s) + i] = cells[i]
      OBVIOUS
    <2>1. Len(s) + i \in 1 .. Len(s) + Len(cells) /\ ~(Len(s) + i <= Len(s)) /\ (Len(s) + i) - Len(s) = i
      BY <1>6
    <2> QED
      BY <1>7, <2>1
  <1> QED
    BY <1>5, <1>6, <1>7, <1>8, <1>9 DEF s

\* A chunk that is in the stream stays there.
LEMMA WholeKept ==
    ASSUME NEW c \in Clients, NEW marks, NEW more, marks \subseteq more,
           NEW i \in Nat, NEW n, NEW m \in Nat, NEW x, Whole(c, marks, i, n, m, x),
           Len(Stream(c)) \in Nat, Len(Stream(c)') \in Nat, Len(Stream(c)) <= Len(Stream(c)'),
           \A j \in 1 .. Len(Stream(c)) : Stream(c)'[j] = Stream(c)[j],
           FileOf(c)' = FileOf(c), m = 0 => ~Serves(c)'
    PROVE  Whole(c, more, i, n, m, x)'
  <1> DEFINE s == Stream(c)
             t == Stream(c)'
  <1>1. /\ (i + 1) + m <= Len(s) /\ <<(i + 2) + m, n + m>> \in marks
        /\ \A j \in 1 .. m : s[(i + 1) + j] = <<FileOf(c), n + j>>
        /\ Options[c].verify => x = Pieces(FileOf(c), n, m)
        /\ m = 0 => n = Size[FileOf(c)]
    BY DEF Whole
  <1>2. (i + 1) + m <= Len(t)
    <2> HIDE DEF s, t
    <2>1. Len(s) \in Nat /\ Len(t) \in Nat /\ Len(s) <= Len(t)
      BY DEF s, t
    <2> QED
      BY <1>1, <2>1
  <1>3. \A j \in 1 .. m : t[(i + 1) + j] = <<FileOf(c), n + j>>
    <2> SUFFICES ASSUME NEW j \in 1 .. m PROVE t[(i + 1) + j] = <<FileOf(c), n + j>>
      OBVIOUS
    <2>1. Len(s) \in Nat
      OBVIOUS
    <2>2. (i + 1) + j \in 1 .. Len(s)
      <3> HIDE DEF s
      <3> QED
        BY <1>1, <2>1
    <2> QED
      BY <1>1, <2>2
  <1> QED
    BY <1>1, <1>2, <1>3 DEF Whole

\* What sending changes
LEMMA SentIs ==
    ASSUME TypeOK, NEW c \in Clients, c = server.client, NEW cells \in Seq(Cells)
    PROVE  /\ \A d \in Clients \ {c} : Sent(cells)[d] = connection[d]
           /\ Sent(cells)[c].up = connection[c].up
           /\ Sent(cells)[c].clientOpen = connection[c].clientOpen
           /\ connection[c].clientOpen => Sent(cells)[c].down = connection[c].down \o cells
           /\ Sent(cells) \in [Clients -> ConnectionType]
  <1> DEFINE z == connection[c].down \o cells
  <1>1. Sent(cells) = IF connection[c].clientOpen
                      THEN [connection EXCEPT ![c] = [connection[c] EXCEPT !.down = z]]
                      ELSE connection
    BY DEF Sent, TypeOK
  <1>2. connection \in [Clients -> ConnectionType] /\ connection[c] \in ConnectionType
    BY DEF TypeOK
  <1>3. Sent(cells) \in [Clients -> ConnectionType]
    BY SentType
  <1> HIDE DEF z
  <1>4. /\ \A d \in Clients \ {c} : Sent(cells)[d] = connection[d]
        /\ Sent(cells)[c].up = connection[c].up
        /\ Sent(cells)[c].clientOpen = connection[c].clientOpen
        /\ connection[c].clientOpen => Sent(cells)[c].down = z
    BY <1>1, <1>2 DEF ConnectionType
  <1> QED
    BY <1>3, <1>4 DEF z

\* The information on a chunk is sent.
LEMMA SendInfoKeeps == ASSUME IInv, SendInfo PROVE IInv'
  <1>1. server.pc = "info" /\ server.pc \in Supplying
    BY DEF SendInfo, Supplying
  <1> PICK c \in Clients : c = server.client
    BY <1>1, ServedIs
  <1> DEFINE verify == Options[c].verify
             chunk == server.chunk
             cells == InfoCells(chunk, verify)
  <1>2. /\ Serves(c) /\ ~Waits(c) /\ AskedOptions = Options[c] /\ verify \in BOOLEAN
        /\ client[c].pc \in InTouch => Asked = FileOf(c) /\ connection[c].clientOpen
        /\ client[c].pc # "request" /\ server \in ServerType /\ server.pc \in AtServer
        /\ chunk \in Seq(Payload) /\ Order(c) /\ Gets(c) /\ TypeOK /\ chunk # <<>>
    BY <1>1, ClientOfServer, ServerTypes, OptionsAre DEF IInv, Data, Supplies
  <1>3. PICK x \in Seq(Payload) :
          /\ cells \in Seq(Cells) /\ Len(cells) = 2
          /\ cells[1] = <<"size", Len(chunk)>> /\ cells[2] = <<"sum", x>>
          /\ x = IF verify THEN chunk ELSE <<>>
          /\ Len(chunk) \in Nat
    BY <1>2, InfoCellsAre DEF InfoSize
  <1>4. connection' = Sent(cells) /\ client' = client /\ delivered' = delivered /\ backlog' = backlog
    BY <1>2 DEF SendInfo
  <1> HIDE DEF cells, chunk, verify
  <1>5. /\ \A d \in Clients \ {c} : connection'[d] = connection[d]
        /\ connection'[c].up = connection[c].up /\ connection'[c].clientOpen = connection[c].clientOpen
        /\ connection[c].clientOpen => connection'[c].down = connection[c].down \o cells
    BY <1>2, <1>3, <1>4, SentIs
  <1>6. /\ server'.pc = "chunk" /\ server'.client = c /\ server'.buffer = server.buffer
        /\ server'.offset = server.offset /\ server'.eof = server.eof /\ server'.held = server.held
        /\ server'.chunk = chunk /\ server'.last = server.last
    BY <1>2 DEF SendInfo, ServerType, chunk
  <1>7. Asked' = Asked /\ Shown' = Shown
    BY <1>1, <1>6 DEF Asked, Shown, chunk
  <1>8. Supplies'
    BY <1>1, <1>6, <1>7 DEF IInv, Data, Supplies, chunk, Supplying
  <1>9. server'.pc \in AtServer
    BY <1>6 DEF AtServer
  <1>10. Serves(c)' /\ (Waits(c)' <=> Waits(c)) /\ FileOf(c)' = FileOf(c)
    BY <1>4, <1>6, <1>9 DEF Serves, Waits, FileOf, Files
  <1>11. Order(c)'
    <2>1. Ordered(c)' = Ordered(c)
      BY <1>2, <1>5, <1>6, <1>10 DEF Ordered
    <2> QED
      BY <1>2, <1>4, <1>10, <2>1, OrderKept
  <1>12. Gets(c)'
    <2>1. CASE client[c].pc \notin InTouch
      BY <1>2, <1>4, <2>1, GetsKept
    <2>2. CASE client[c].pc \in InTouch
      <3>1. client[c].pc \in {"info", "chunk"} /\ connection[c].clientOpen
        BY <1>2, <2>2 DEF InTouch
      <3>2. PICK n \in 0 .. Size[FileOf(c)], marks \in SUBSET (Nat \X Nat) :
             /\ delivered[c] = Before(c, client[c].request, client[c].repeat, client[c].file)
                                 \o Pieces(FileOf(c), 0, n)
             /\ <<1, n>> \in marks /\ \A p \in marks : Message(c, marks, p[1], p[2])
        BY <3>1, StreamIs
      <3> DEFINE s == Stream(c)
                 t == Stream(c)'
                 len == Len(s)
      <3>3. /\ s \in Seq(Cells) /\ len \in Nat /\ Len(t) = len + 2
            /\ \A i \in 1 .. len : t[i] = s[i]
            /\ t[len + 1] = cells[1] /\ t[len + 2] = cells[2]
        <4>1. /\ s \in Seq(Cells) /\ len \in Nat /\ Len(t) = len + Len(cells)
              /\ \A i \in 1 .. len : t[i] = s[i]
              /\ \A i \in 1 .. Len(cells) : t[len + i] = cells[i]
          BY <1>2, <1>3, <1>4, <1>5, <3>1, StreamGrows
        <4>2. 1 \in 1 .. Len(cells) /\ 2 \in 1 .. Len(cells)
          BY <1>3
        <4> HIDE DEF s, t
        <4> QED
          BY <1>3, <4>1, <4>2
      <3>4. ASSUME NEW p \in marks PROVE Message(c, marks, p[1], p[2])'
        <4> PICK i \in Nat, k \in Nat : i = p[1] /\ k = p[2]
          OBVIOUS
        <4>1. Message(c, marks, i, k) /\ i \in Nat /\ k \in Nat
          BY <3>2
        <4>2. i \in 1 .. len + 1 /\ k \in 0 .. Size[FileOf(c)] /\ 1 <= i
          BY <3>3, <4>1 DEF Message
        <4>3. i \in 1 .. Len(t) + 1 /\ i # Len(t) + 1 /\ i + 1 <= Len(t)
          <5>1. i <= len => i + 1 <= len
            BY <4>1 DEF Message
          <5> HIDE DEF s, t, len
          <5> QED
            BY <3>3, <4>1, <4>2, <5>1
        <4>4. CASE i <= len
          <5>1. PICK m \in Nat, y \in Seq(Payload) :
                  /\ s[i] = <<"size", m>> /\ s[i + 1] = <<"sum", y>>
                  /\ Whole(c, marks, i, k, m, y) \/ Begun(c, i, k, m, y)
            BY <4>1, <4>4 DEF Message
          <5>2. t[i] = s[i] /\ t[i + 1] = s[i + 1]
            <6>1. i + 1 <= len
              BY <4>1, <4>4 DEF Message
            <6>2. i \in 1 .. len /\ i + 1 \in 1 .. len
              <7> HIDE DEF len
              <7> QED
                BY <3>3, <4>1, <4>2, <6>1
            <6> QED
              BY <3>3, <6>2
          <5>3. ~Begun(c, i, k, m, y)
            BY <1>1, <1>2 DEF Begun
          <5>4. ~(m = 0)
            BY <1>2, <5>1, <5>3 DEF Whole
          <5>5. Whole(c, marks, i, k, m, y)'
            <6>1. Len(Stream(c)) \in Nat /\ Len(Stream(c)') \in Nat /\ Len(Stream(c)) <= Len(Stream(c)')
              <7> HIDE DEF s, t
              <7>1. Len(s) \in Nat /\ Len(t) \in Nat /\ Len(s) <= Len(t)
                BY <3>3
              <7> QED
                BY <7>1 DEF s, t
            <6>2. \A j \in 1 .. Len(Stream(c)) : Stream(c)'[j] = Stream(c)[j]
              BY <3>3
            <6> QED
              BY <1>10, <4>1, <5>1, <5>3, <5>4, <6>1, <6>2, WholeKept
          <5> QED
            BY <1>2, <1>10, <4>2, <4>3, <5>1, <5>2, <5>5 DEF Message
        <4>5. CASE ~(i <= len)
          <5>1. i = len + 1
            <6> HIDE DEF len
            <6> QED
              BY <3>3, <4>1, <4>2, <4>5
          <5>2. k = Shown
            BY <1>2, <4>1, <5>1 DEF Message
          <5> PICK m \in Nat : m = Len(chunk)
            BY <1>3
          <5>3. m = Len(chunk) /\ m # 0 /\ (verify => x = chunk)
            BY <1>2, <1>3, EmptySeq
          <5>4. i + 1 = Len(t) /\ t[i] = <<"size", m>> /\ t[i + 1] = <<"sum", x>>
            <6>1. i + 1 = len + 2 /\ Len(t) = len + 2
              <7> HIDE DEF s, t, len
              <7> QED
                BY <3>3, <5>1
            <6> QED
              BY <1>3, <3>3, <5>1, <5>3, <6>1
          <5>5. Begun(c, i, k, m, x)'
            BY <1>6, <1>7, <5>2, <5>3, <5>4 DEF Begun, verify
          <5> QED
            BY <1>2, <1>10, <4>2, <4>3, <5>3, <5>4, <5>5 DEF Message
        <4> QED
          BY <4>4, <4>5
      <3>5. Parsed(c, n)'
        BY <3>2, <3>4 DEF Parsed
      <3>6. \E k0 \in 0 .. Size[FileOf(c)'] :
             /\ delivered'[c] = Before(c, client'[c].request, client'[c].repeat, client'[c].file)
                                 \o Pieces(FileOf(c)', 0, k0)
             /\ Parsed(c, k0)'
             /\ client'[c].pc = "request" => k0 = 0 /\ Stream(c)' = <<>>
        BY <1>2, <1>4, <1>10, <3>2, <3>5
      <3>7. /\ client[c].pc = "info" => Len(client[c].buffer) <= InfoSize
            /\ client[c].pc = "chunk" =>
                 Len(client[c].info) = InfoSize /\ Len(client[c].buffer) <= client[c].info[1][2]
            /\ client[c].pc \notin {"due", "waiting", "repeat", "connect"}
        BY <1>2, <3>1 DEF Gets
      <3> QED
        BY <1>4, <3>6, <3>7 DEF Gets
    <2> QED
      BY <2>1, <2>2
  <1>13. TypeOK'
    BY SendType
  <1> QED
    BY <1>2, <1>4, <1>5, <1>6, <1>8, <1>9, <1>11, <1>12, <1>13, ServerStep

\* The chunk is sent.
LEMMA SendChunkKeeps == ASSUME IInv, SendChunk PROVE IInv'
  <1>1. server.pc = "chunk" /\ server.pc \in Supplying
    BY DEF SendChunk, Supplying
  <1> PICK c \in Clients : c = server.client
    BY <1>1, ServedIs
  <1> DEFINE chunk == server.chunk
  <1>2. /\ Serves(c) /\ ~Waits(c) /\ AskedOptions = Options[c]
        /\ Asked \in DOMAIN Size /\ Size[Asked] \in Nat
        /\ client[c].pc \in InTouch => Asked = FileOf(c) /\ connection[c].clientOpen
        /\ client[c].pc # "request" /\ server \in ServerType /\ server.pc \in AtServer
        /\ Order(c) /\ Gets(c) /\ TypeOK
    BY <1>1, ClientOfServer
  <1>3. /\ Len(server.buffer) = RequestSize /\ Shown \in Nat /\ server.offset <= Size[Asked]
        /\ server.eof => server.offset = Size[Asked]
        /\ Numbered(server.held, Asked, server.offset - Len(server.held))
        /\ chunk # <<>> /\ Numbered(chunk, Asked, Shown)
        /\ server.last => server.held = <<>> /\ server.offset = Size[Asked]
    BY <1>1 DEF IInv, Data, Supplies
  <1>4. /\ chunk \in Seq(Payload) /\ chunk \in Seq(Cells) /\ Len(chunk) \in Nat
        /\ server.offset \in Nat /\ Len(server.held) \in Nat
    BY <1>2, ServerTypes, InfoCellsAre
  <1>5. connection' = Sent(chunk) /\ client' = client /\ delivered' = delivered /\ backlog' = backlog
    BY DEF SendChunk
  <1>6. /\ \A d \in Clients \ {c} : connection'[d] = connection[d]
        /\ connection'[c].up = connection[c].up /\ connection'[c].clientOpen = connection[c].clientOpen
        /\ connection[c].clientOpen => connection'[c].down = connection[c].down \o chunk
    BY <1>2, <1>4, <1>5, SentIs
  <1>7. /\ server'.pc = IF server.last THEN "end" ELSE "read"
        /\ server'.client = c /\ server'.buffer = server.buffer
        /\ server'.offset = server.offset /\ server'.eof = server.eof /\ server'.held = server.held
        /\ server'.chunk = chunk /\ server'.last = server.last
    BY <1>2 DEF SendChunk, ServerType
  <1> HIDE DEF chunk
  <1>8. Asked' = Asked /\ Shown' = Shown + Len(chunk) /\ Shown' = server.offset - Len(server.held)
    <2>1. Shown = server.offset - Len(server.held) - Len(chunk)
      BY <1>1 DEF Shown, chunk
    <2>2. Shown' = server.offset - Len(server.held) - 0
      BY <1>7 DEF Shown
    <2>3. Asked' = Asked
      BY <1>7 DEF Asked
    <2> QED
      BY <1>4, <2>1, <2>2, <2>3
  <1>9. Shown' \in Nat /\ Shown' <= Size[Asked]
    BY <1>2, <1>3, <1>4, <1>8
  <1>10. Supplies'
    BY <1>3, <1>7, <1>8, <1>9 DEF Supplies
  <1>11. server'.pc \in AtServer /\ server'.pc # "chunk"
    BY <1>7 DEF AtServer
  <1>12. Serves(c)' /\ (Waits(c)' <=> Waits(c)) /\ FileOf(c)' = FileOf(c)
    BY <1>5, <1>7, <1>11 DEF Serves, Waits, FileOf, Files
  <1>13. Order(c)'
    <2>1. Ordered(c)' = Ordered(c)
      BY <1>2, <1>6, <1>7, <1>12 DEF Ordered
    <2> QED
      BY <1>2, <1>5, <1>12, <2>1, OrderKept
  <1>14. Gets(c)'
    <2>1. CASE client[c].pc \notin InTouch
      BY <1>2, <1>5, <2>1, GetsKept
    <2>2. CASE client[c].pc \in InTouch
      <3>1. client[c].pc \in {"info", "chunk"} /\ connection[c].clientOpen /\ Asked = FileOf(c)
        BY <1>2, <2>2 DEF InTouch
      <3>2. PICK n \in 0 .. Size[FileOf(c)], marks \in SUBSET (Nat \X Nat) :
             /\ delivered[c] = Before(c, client[c].request, client[c].repeat, client[c].file)
                                 \o Pieces(FileOf(c), 0, n)
             /\ <<1, n>> \in marks /\ \A p \in marks : Message(c, marks, p[1], p[2])
        BY <3>1, StreamIs
      <3> DEFINE s == Stream(c)
                 t == Stream(c)'
                 len == Len(s)
      <3>3. /\ s \in Seq(Cells) /\ len \in Nat /\ Len(t) = len + Len(chunk)
            /\ \A i \in 1 .. len : t[i] = s[i]
            /\ \A i \in 1 .. Len(chunk) : t[len + i] = chunk[i]
        BY <1>2, <1>4, <1>5, <1>6, <3>1, StreamGrows
      <3> PICK total \in Nat, shown \in Nat : total = Len(t) /\ shown = Shown'
        BY <1>4, <1>9, <3>3
      <3> DEFINE more == marks \cup {<<total + 1, shown>>}
      <3>4. ASSUME NEW i \in Nat, NEW k \in Nat, <<i, k>> \in marks PROVE Message(c, more, i, k)'
        <4>1. Message(c, marks, i, k)
          BY <3>2, <3>4
        <4>2. i \in 1 .. len + 1 /\ k \in 0 .. Size[FileOf(c)] /\ 1 <= i
          BY <3>3, <4>1 DEF Message
        <4>3. i <= len
          <5>1. ~(i = len + 1)
            BY <1>1, <1>2, <4>1 DEF Message
          <5> HIDE DEF len
          <5> QED
            BY <3>3, <4>2, <5>1
        <4>4. PICK m \in Nat, y \in Seq(Payload) :
                /\ s[i] = <<"size", m>> /\ s[i + 1] = <<"sum", y>> /\ i + 1 <= len
                /\ Whole(c, marks, i, k, m, y) \/ Begun(c, i, k, m, y)
          BY <4>1, <4>3 DEF Message
        <4>5. /\ i \in 1 .. Len(t) + 1 /\ i # Len(t) + 1 /\ i + 1 <= Len(t)
              /\ t[i] = s[i] /\ t[i + 1] = s[i + 1]
          <5>1. i \in 1 .. len /\ i + 1 \in 1 .. len
            <6> HIDE DEF len
            <6> QED
              BY <3>3, <4>2, <4>4
          <5> HIDE DEF s, t, len
          <5>2. i \in 1 .. Len(t) + 1 /\ i # Len(t) + 1 /\ i + 1 <= Len(t)
            BY <1>4, <3>3, <4>4, <5>1, SMTT(30)
          <5> QED
            BY <3>3, <5>1, <5>2
        <4>6. CASE Whole(c, marks, i, k, m, y)
          <5>1. ~(m = 0)
            BY <1>2, <4>6 DEF Whole
          <5>2. Len(Stream(c)) \in Nat /\ Len(Stream(c)') \in Nat /\ Len(Stream(c)) <= Len(Stream(c)')
            <6> HIDE DEF s, t
            <6>1. Len(s) \in Nat /\ Len(t) \in Nat /\ Len(s) <= Len(t)
              BY <1>4, <3>3
            <6> QED
              BY <6>1 DEF s, t
          <5>3. \A j \in 1 .. Len(Stream(c)) : Stream(c)'[j] = Stream(c)[j]
            BY <3>3
          <5>4. marks \subseteq more
            OBVIOUS
          <5> HIDE DEF more
          <5>5. Whole(c, more, i, k, m, y)'
            BY <1>12, <4>6, <5>1, <5>2, <5>3, <5>4, WholeKept
          <5> QED
            BY <1>2, <1>12, <4>2, <4>4, <4>5, <5>5 DEF Message
        <4>7. CASE Begun(c, i, k, m, y)
          <5>1. /\ i + 1 = len /\ m # 0 /\ m = Len(chunk) /\ k = Shown
                /\ Options[c].verify => y = chunk
            BY <1>2, <4>7 DEF Begun, chunk
          <5>2. (i + 1) + m <= Len(t) /\ <<(i + 2) + m, k + m>> \in more
            <6>1. (i + 1) + m = Len(t) /\ (i + 2) + m = total + 1 /\ k + m = shown
              <7>1. total = Len(t) /\ shown = Shown + Len(chunk)
                BY <1>8
              <7>2. Len(t) = len + Len(chunk) /\ len \in Nat /\ Shown \in Nat /\ Len(chunk) \in Nat
                BY <1>3, <1>4, <3>3
              <7> HIDE DEF s, t, len
              <7>3. (i + 1) + m = Len(t)
                BY <5>1, <7>2
              <7>4. (i + 2) + m = total + 1
                <8>1. (i + 1) + m = total
                  BY <7>1, <7>3
                <8> HIDE DEF t
                <8> QED
                  BY <8>1
              <7>5. k + m = shown
                BY <5>1, <7>1
              <7> QED
                BY <7>3, <7>4, <7>5
            <6> QED
              BY <6>1
          <5>3. \A j \in 1 .. m : t[(i + 1) + j] = <<FileOf(c), k + j>>
            <6> SUFFICES ASSUME NEW j \in 1 .. m PROVE t[(i + 1) + j] = <<FileOf(c), k + j>>
              OBVIOUS
            <6>1. t[len + j] = chunk[j]
              BY <3>3, <5>1
            <6>2. chunk[j] = <<FileOf(c), k + j>>
              BY <1>3, <3>1, <5>1 DEF Numbered
            <6> QED
              BY <5>1, <6>1, <6>2
          <5>4. Options[c].verify => y = Pieces(FileOf(c), k, m)
            <6>1. FileOf(c) \in DOMAIN Size
              BY <1>2, <3>1
            <6>2. /\ Pieces(FileOf(c), k, m) \in Seq(Payload) /\ Len(Pieces(FileOf(c), k, m)) = m
                  /\ \A j \in 1 .. m : Pieces(FileOf(c), k, m)[j] = <<FileOf(c), k + j>>
              BY <6>1, PiecesAre, ZenonT(60)
            <6>3. \A j \in 1 .. m : chunk[j] = <<FileOf(c), k + j>>
              BY <1>3, <3>1, <5>1 DEF Numbered
            <6>4. chunk = Pieces(FileOf(c), k, m)
              <7> DEFINE q == Pieces(FileOf(c), k, m)
              <7> HIDE DEF q
              <7>1. /\ q \in Seq(Payload) /\ Len(q) = Len(chunk)
                    /\ \A j \in 1 .. Len(chunk) : chunk[j] = q[j]
                BY <5>1, <6>2, <6>3 DEF q
              <7>2. chunk = q
                BY <1>4, <7>1, SeqEqual
              <7> QED
                BY <7>2 DEF q
            <6> QED
              BY <5>1, <6>4
          <5> HIDE DEF more
          <5>5. Whole(c, more, i, k, m, y)'
            BY <1>12, <5>1, <5>2, <5>3, <5>4 DEF Whole
          <5> QED
            BY <1>2, <1>12, <4>2, <4>4, <4>5, <5>5 DEF Message
        <4> QED
          BY <4>4, <4>6, <4>7
      <3>5. Message(c, more, total + 1, shown)'
        <4>1. total = Len(t)
          OBVIOUS
        <4>2. total + 1 \in 1 .. Len(t) + 1 /\ ~(total + 1 <= Len(t))
          <5> HIDE DEF t
          <5> QED
            BY <4>1
        <4>3. shown \in 0 .. Size[FileOf(c)]
          BY <1>9, <3>1, <1>2
        <4> HIDE DEF more
        <4> QED
          BY <1>2, <1>11, <1>12, <4>2, <4>3 DEF Message
      <3>6. \A p \in more : Message(c, more, p[1], p[2])'
        <4> SUFFICES ASSUME NEW p \in more PROVE Message(c, more, p[1], p[2])'
          OBVIOUS
        <4>1. CASE p \in marks
          <5> PICK i \in Nat, k \in Nat : p = <<i, k>> /\ i = p[1] /\ k = p[2]
            BY <4>1
          <5> QED
            BY <3>4, <4>1
        <4>2. CASE p = <<total + 1, shown>>
          BY <3>5, <4>2
        <4> QED
          BY <4>1, <4>2
      <3>7. Parsed(c, n)'
        <4>1. more \in SUBSET (Nat \X Nat) /\ <<1, n>> \in more
          BY <3>2
        <4> HIDE DEF more
        <4> QED
          BY <3>6, <4>1 DEF Parsed
      <3>8. \E k0 \in 0 .. Size[FileOf(c)'] :
             /\ delivered'[c] = Before(c, client'[c].request, client'[c].repeat, client'[c].file)
                                 \o Pieces(FileOf(c)', 0, k0)
             /\ Parsed(c, k0)'
             /\ client'[c].pc = "request" => k0 = 0 /\ Stream(c)' = <<>>
        BY <1>2, <1>5, <1>12, <3>2, <3>7
      <3>9. /\ client[c].pc = "info" => Len(client[c].buffer) <= InfoSize
            /\ client[c].pc = "chunk" =>
                 Len(client[c].info) = InfoSize /\ Len(client[c].buffer) <= client[c].info[1][2]
            /\ client[c].pc \notin {"due", "waiting", "repeat", "connect"}
        BY <1>2, <3>1 DEF Gets
      <3> QED
        BY <1>5, <3>8, <3>9 DEF Gets
    <2> QED
      BY <2>1, <2>2
  <1>15. TypeOK'
    BY SendType
  <1> QED
    BY <1>2, <1>5, <1>6, <1>7, <1>10, <1>11, <1>13, <1>14, <1>15, ServerStep

\* The end of the file is told.
LEMMA SendEndKeeps == ASSUME IInv, SendEnd PROVE IInv'
  <1>1. server.pc = "end" /\ server.pc \in Supplying
    BY DEF SendEnd, Supplying
  <1> PICK c \in Clients : c = server.client
    BY <1>1, ServedIs
  <1> DEFINE cells == InfoCells(<<>>, FALSE)
  <1>2. /\ Serves(c) /\ ~Waits(c) /\ Asked \in DOMAIN Size /\ Size[Asked] \in Nat
        /\ client[c].pc \in InTouch => Asked = FileOf(c) /\ connection[c].clientOpen
        /\ client[c].pc # "request" /\ client[c].pc \notin Apart
        /\ server \in ServerType /\ server.pc \in AtServer
        /\ Order(c) /\ Gets(c) /\ TypeOK /\ connection \in [Clients -> ConnectionType]
    BY <1>1, ClientOfServer DEF TypeOK
  <1>3. Shown = Size[Asked]
    <2>1. server.held = <<>> /\ server.offset = Size[Asked]
      BY <1>1 DEF IInv, Data, Supplies
    <2>2. Shown = server.offset - Len(server.held) - 0
      BY <1>1 DEF Shown
    <2>3. Len(server.held) = 0
      BY <2>1, EmptySeq
    <2> QED
      BY <1>2, <2>1, <2>2, <2>3
  <1>4. /\ cells \in Seq(Cells) /\ Len(cells) = 2
        /\ cells[1] = <<"size", 0>> /\ cells[2] = <<"sum", <<>>>>
    <2>1. <<>> \in Seq(Payload) /\ Len(<<>>) = 0 /\ FALSE \in BOOLEAN
      BY EmptySeq
    <2> QED
      BY <2>1, InfoCellsAre DEF InfoSize
  <1>5. /\ connection' = [Sent(cells) EXCEPT ![c].serverOpen = FALSE]
        /\ client' = client /\ delivered' = delivered /\ backlog' = backlog
    BY DEF SendEnd
  <1> HIDE DEF cells
  <1>6. /\ \A d \in Clients \ {c} : connection'[d] = connection[d]
        /\ connection'[c].clientOpen = connection[c].clientOpen
        /\ connection[c].clientOpen => connection'[c].down = connection[c].down \o cells
    <2>1. /\ \A d \in Clients \ {c} : Sent(cells)[d] = connection[d]
          /\ Sent(cells)[c].clientOpen = connection[c].clientOpen
          /\ connection[c].clientOpen => Sent(cells)[c].down = connection[c].down \o cells
          /\ Sent(cells) \in [Clients -> ConnectionType]
      BY <1>2, <1>4, SentIs
    <2>2. /\ \A d \in Clients \ {c} : connection'[d] = Sent(cells)[d]
          /\ connection'[c].clientOpen = Sent(cells)[c].clientOpen
          /\ connection'[c].down = Sent(cells)[c].down
      BY <1>5, <2>1 DEF ConnectionType
    <2> QED
      BY <2>1, <2>2
  <1>7. server'.pc = "accept"
    BY <1>2 DEF SendEnd, ServerType
  <1>8. /\ \A d \in Clients : ~Serves(d)' /\ (Waits(d)' <=> Waits(d)) /\ FileOf(d)' = FileOf(d)
        /\ \A d \in Clients \ {c} : ~Serves(d)
    BY <1>2, <1>5, <1>7 DEF Serves, Waits, FileOf, Files, AtServer
  <1>9. Supplies'
    BY <1>7 DEF Supplies, Supplying
  <1>10. Queue'
    BY <1>5, <1>6, <1>7, <1>8 DEF IInv, Data, Queue, AtServer
  <1>11. Gets(c)'
    <2>1. CASE client[c].pc \notin InTouch
      BY <1>2, <1>5, <2>1, GetsKept
    <2>2. CASE client[c].pc \in InTouch
      <3>1. client[c].pc \in {"info", "chunk"} /\ connection[c].clientOpen /\ Asked = FileOf(c)
        BY <1>2, <2>2 DEF InTouch
      <3>2. PICK n \in 0 .. Size[FileOf(c)], marks \in SUBSET (Nat \X Nat) :
             /\ delivered[c] = Before(c, client[c].request, client[c].repeat, client[c].file)
                                 \o Pieces(FileOf(c), 0, n)
             /\ <<1, n>> \in marks /\ \A p \in marks : Message(c, marks, p[1], p[2])
        BY <3>1, StreamIs
      <3> DEFINE s == Stream(c)
                 t == Stream(c)'
                 len == Len(s)
      <3>3. /\ s \in Seq(Cells) /\ len \in Nat /\ Len(t) = len + 2
            /\ \A i \in 1 .. len : t[i] = s[i]
            /\ t[len + 1] = cells[1] /\ t[len + 2] = cells[2]
        <4>1. /\ s \in Seq(Cells) /\ len \in Nat /\ Len(t) = len + Len(cells)
              /\ \A i \in 1 .. len : t[i] = s[i]
              /\ \A i \in 1 .. Len(cells) : t[len + i] = cells[i]
          BY <1>2, <1>4, <1>5, <1>6, <3>1, StreamGrows, ZenonT(60)
        <4>2. 1 \in 1 .. Len(cells) /\ 2 \in 1 .. Len(cells)
          BY <1>4
        <4> HIDE DEF s, t
        <4> QED
          BY <1>4, <4>1, <4>2
      <3> PICK total \in Nat, all \in Nat : total = Len(t) /\ all = Size[FileOf(c)]
        BY <1>2, <3>1, <3>3
      <3> DEFINE more == marks \cup {<<total + 1, all>>}
      <3>4. ASSUME NEW i \in Nat, NEW k \in Nat, <<i, k>> \in marks PROVE Message(c, more, i, k)'
        <4>1. Message(c, marks, i, k)
          BY <3>2, <3>4
        <4>2. i \in 1 .. len + 1 /\ k \in 0 .. Size[FileOf(c)] /\ 1 <= i
          BY <3>3, <4>1 DEF Message
        <4>3. i \in 1 .. Len(t) + 1 /\ i # Len(t) + 1 /\ i + 1 <= Len(t)
          <5>1. i <= len => i + 1 <= len
            BY <4>1 DEF Message
          <5> HIDE DEF s, t, len
          <5> QED
            BY <3>3, <4>2, <5>1
        <4>4. CASE i <= len
          <5>1. PICK m \in Nat, y \in Seq(Payload) :
                  /\ s[i] = <<"size", m>> /\ s[i + 1] = <<"sum", y>> /\ i + 1 <= len
                  /\ Whole(c, marks, i, k, m, y) \/ Begun(c, i, k, m, y)
            BY <4>1, <4>4 DEF Message
          <5>2. t[i] = s[i] /\ t[i + 1] = s[i + 1]
            <6>1. i \in 1 .. len /\ i + 1 \in 1 .. len
              <7> HIDE DEF len
              <7> QED
                BY <3>3, <4>2, <5>1
            <6> QED
              BY <3>3, <6>1
          <5>3. ~Begun(c, i, k, m, y)
            BY <1>1, <1>2 DEF Begun
          <5>4. Len(Stream(c)) \in Nat /\ Len(Stream(c)') \in Nat /\ Len(Stream(c)) <= Len(Stream(c)')
            <6> HIDE DEF s, t
            <6>1. Len(s) \in Nat /\ Len(t) \in Nat /\ Len(s) <= Len(t)
              BY <3>3
            <6> QED
              BY <6>1 DEF s, t
          <5>5. \A j \in 1 .. Len(Stream(c)) : Stream(c)'[j] = Stream(c)[j]
            BY <3>3
          <5>6. marks \subseteq more
            OBVIOUS
          <5> HIDE DEF more
          <5>7. Whole(c, more, i, k, m, y)'
            BY <1>8, <5>1, <5>3, <5>4, <5>5, <5>6, WholeKept
          <5> QED
            BY <1>2, <1>8, <4>2, <4>3, <5>1, <5>2, <5>7 DEF Message
        <4>5. CASE ~(i <= len)
          <5>1. i = len + 1
            <6> HIDE DEF len
            <6> QED
              BY <3>3, <4>2, <4>5
          <5>2. k = all
            BY <1>1, <1>2, <1>3, <3>1, <4>1, <5>1 DEF Message
          <5>3. /\ t[i] = <<"size", 0>> /\ t[i + 1] = <<"sum", <<>>>>
                /\ (i + 1) + 0 <= Len(t) /\ (i + 2) + 0 = total + 1 /\ k + 0 = all
            <6>1. total = Len(t) /\ i + 1 = len + 2
              BY <5>1, <3>3
            <6>2. (i + 1) + 0 <= Len(t) /\ (i + 2) + 0 = total + 1
              <7> HIDE DEF s, t, len
              <7> QED
                BY <3>3, <5>1, <6>1
            <6> QED
              BY <1>4, <3>3, <5>1, <5>2, <6>1, <6>2
          <5>4. Pieces(FileOf(c), k, 0) = <<>>
            <6>1. Pieces(FileOf(c), k, 0) \in Seq(Payload) /\ Len(Pieces(FileOf(c), k, 0)) = 0
              BY <1>2, <3>1, PiecesAre, ZenonT(60)
            <6> QED
              BY <6>1, EmptySeq
          <5>5. <<(i + 2) + 0, k + 0>> \in more
            BY <5>3
          <5> HIDE DEF more
          <5>6. Whole(c, more, i, k, 0, <<>>)'
            BY <1>8, <5>2, <5>3, <5>4, <5>5 DEF Whole
          <5>7. 0 \in Nat /\ <<>> \in Seq(Payload)
            BY EmptySeq
          <5>8. \E m \in Nat, y \in Seq(Payload) :
                  /\ t[i] = <<"size", m>> /\ t[i + 1] = <<"sum", y>>
                  /\ Whole(c, more, i, k, m, y)' \/ Begun(c, i, k, m, y)'
            BY <5>3, <5>6, <5>7
          <5> QED
            BY <1>2, <1>8, <4>2, <4>3, <5>8 DEF Message
        <4> QED
          BY <4>4, <4>5
      <3>5. Message(c, more, total + 1, all)'
        <4>1. total = Len(t)
          OBVIOUS
        <4>2. total + 1 \in 1 .. Len(t) + 1 /\ ~(total + 1 <= Len(t))
          <5> HIDE DEF t
          <5> QED
            BY <4>1
        <4>3. all \in 0 .. Size[FileOf(c)]
          OBVIOUS
        <4> HIDE DEF more
        <4> QED
          BY <1>2, <1>8, <4>2, <4>3 DEF Message
      <3>6. \A p \in more : Message(c, more, p[1], p[2])'
        <4> SUFFICES ASSUME NEW p \in more PROVE Message(c, more, p[1], p[2])'
          OBVIOUS
        <4>1. CASE p \in marks
          <5> PICK i \in Nat, k \in Nat : p = <<i, k>> /\ i = p[1] /\ k = p[2]
            BY <4>1
          <5> QED
            BY <3>4, <4>1
        <4>2. CASE p = <<total + 1, all>>
          BY <3>5, <4>2
        <4> QED
          BY <4>1, <4>2
      <3>7. Parsed(c, n)'
        <4>1. more \in SUBSET (Nat \X Nat) /\ <<1, n>> \in more
          BY <3>2
        <4> HIDE DEF more
        <4> QED
          BY <3>6, <4>1 DEF Parsed
      <3>8. \E k0 \in 0 .. Size[FileOf(c)'] :
             /\ delivered'[c] = Before(c, client'[c].request, client'[c].repeat, client'[c].file)
                                 \o Pieces(FileOf(c)', 0, k0)
             /\ Parsed(c, k0)'
             /\ client'[c].pc = "request" => k0 = 0 /\ Stream(c)' = <<>>
        BY <1>2, <1>5, <1>8, <3>2, <3>7
      <3>9. /\ client[c].pc = "info" => Len(client[c].buffer) <= InfoSize
            /\ client[c].pc = "chunk" =>
                 Len(client[c].info) = InfoSize /\ Len(client[c].buffer) <= client[c].info[1][2]
            /\ client[c].pc \notin {"due", "waiting", "repeat", "connect"}
        BY <1>2, <3>1 DEF Gets
      <3> QED
        BY <1>5, <3>8, <3>9 DEF Gets
    <2> QED
      BY <2>1, <2>2
  <1>12. ASSUME NEW d \in Clients PROVE Place(d)' /\ Order(d)' /\ Gets(d)'
    <2>1. Place(d)'
      BY <1>5 DEF IInv, Place, Files
    <2>2. CASE d = c
      BY <1>2, <1>8, <1>11, <2>1, <2>2 DEF Order
    <2>3. CASE d # c
      <3>1. Ordered(d)' = Ordered(d)
        BY <1>6, <1>8, <2>3 DEF Ordered
      <3>2. Order(d)'
        BY <1>5, <1>8, <3>1, ApartIs, OrderKept
      <3>3. SameService(d)
        BY <1>8 DEF SameService
      <3>4. Gets(d)'
        BY <1>5, <1>6, <1>8, <2>3, <3>3, ApartIs, GetsKept
      <3> QED
        BY <2>1, <3>2, <3>4
    <2> QED
      BY <2>2, <2>3
  <1>13. TypeOK'
    BY SendType
  <1> QED
    BY <1>9, <1>10, <1>12, <1>13 DEF IInv, Data, Orders

-----------------------------------------------------------------------------
(* The invariant holds. *)

\* The invariant says nothing of the time.
LEMMA UnchangedKeeps ==
    ASSUME IInv, TypeOK', client' = client, connection' = connection, backlog' = backlog,
           server' = server, delivered' = delivered
    PROVE  IInv'
  <1>1. \A d \in Clients : (Serves(d)' <=> Serves(d)) /\ (Waits(d)' <=> Waits(d))
    BY DEF Serves, Waits
  <1>2. \A d \in Clients : SameService(d)
    BY <1>1 DEF SameService, Shown
  <1>3. ASSUME NEW d \in Clients PROVE Place(d)' /\ Order(d)' /\ Gets(d)'
    <2>1. Place(d) /\ Order(d) /\ Gets(d)
      BY DEF IInv, Data, Orders
    <2>2. Place(d)'
      BY <2>1 DEF Place, Files
    <2>3. Ordered(d)' = Ordered(d) /\ FileOf(d)' = FileOf(d)
      BY <1>1 DEF Ordered, FileOf, Files
    <2>4. Order(d)'
      BY <1>1, <2>1, <2>3, OrderKept
    <2>5. Gets(d)'
      BY <1>1, <1>2, <2>1, GetsKept
    <2> QED
      BY <2>2, <2>4, <2>5
  <1>4. Queue'
    BY <1>1 DEF IInv, Data, Queue
  <1>5. Supplies'
    BY DEF IInv, Data, Supplies, Shown, Asked, Numbered
  <1> QED
    BY <1>3, <1>4, <1>5 DEF IInv, Data, Orders

\* Initially every client is before its first request, and nobody has said
\* anything.
LEMMA InvInit == Init => IInv
  <1> SUFFICES ASSUME Init PROVE IInv
    OBVIOUS
  <1>1. TypeOK
    BY TypeInit
  <1>2. \A c \in Clients : ~Serves(c) /\ ~Waits(c)
    BY DEF Init, Serves, Waits, AtServer
  <1>3. ASSUME NEW c \in Clients PROVE Place(c) /\ Order(c) /\ Gets(c)
    <2>1. client[c].pc = "due" /\ client[c].request = 1 /\ delivered[c] = <<>>
      BY DEF Init
    <2>2. Place(c)
      BY <2>1, RequestsAre DEF Place, Asking, InTouch
    <2>3. Order(c)
      BY <1>2 DEF Order
    <2>4. Before(c, 1, 1, 1) = <<>>
      <3>1. Before(c, 1, 1, 1)
              = (Flat(Repeated(c), 0) \o Flat(Copies(c, 1), 0)) \o Flat(OfFiles(c, 1), 0)
        BY DEF Before
      <3>2. Before(c, 1, 1, 1) = (<<>> \o <<>>) \o <<>>
        BY <3>1 DEF Flat
      <3>3. <<>> \o <<>> = <<>>
        BY EmptySeq, ConcatEmptySeq
      <3> QED
        BY <3>2, <3>3
    <2>5. Gets(c)
      BY <2>1, <2>4 DEF Gets, InTouch
    <2> QED
      BY <2>2, <2>3, <2>5
  <1>4. Queue
    <2>1. /\ server.pc \notin AtServer /\ backlog = <<>>
          /\ \A c \in Clients : client[c].pc = "due"
      BY DEF Init, AtServer
    <2>2. "due" \notin InTouch
      BY DEF InTouch
    <2>3. DOMAIN backlog = {}
      BY <2>1
    <2> QED
      BY <1>2, <2>1, <2>2, <2>3 DEF Queue
  <1>5. Supplies
    BY DEF Init, Supplies, Supplying
  <1> QED
    BY <1>1, <1>3, <1>4, <1>5 DEF IInv, Data, Orders

\* A step of a client keeps the invariant.
LEMMA ClientKeeps == ASSUME IInv, NEW c \in Clients, Client(c) PROVE IInv'
  <1>1. "failed" \in Gone
    BY DEF Gone
  <1>2. CASE WaitTillRequest(c)
    BY <1>2, WaitTillRequestKeeps
  <1>3. CASE HandleRepeatedRequest(c)
    BY <1>3, HandleRepeatedRequestKeeps
  <1>4. CASE Finish(c)
    BY <1>4, FinishKeeps
  <1>5. CASE Connect(c)
    BY <1>5, ConnectKeeps
  <1>6. CASE ConnectFails(c) \/ RequestFails(c) \/ ReceiveFails(c)
    <2>1. Ends(c, "failed")
      BY <1>6 DEF ConnectFails, RequestFails, ReceiveFails
    <2> QED
      BY <1>1, <2>1, EndsKeeps
  <1>7. CASE RequestFile(c)
    BY <1>7, RequestFileKeeps
  <1>8. CASE Receive(c)
    BY <1>8, ReceiveKeeps
  <1>9. CASE UseInfo(c)
    BY <1>9, UseInfoKeeps
  <1>10. CASE UseChunk(c)
    BY <1>10, UseChunkKeeps
  <1> QED
    BY <1>2, <1>3, <1>4, <1>5, <1>6, <1>7, <1>8, <1>9, <1>10 DEF Client

\* A step of the server keeps the invariant.
LEMMA ServerKeeps == ASSUME IInv, Server PROVE IInv'
  <1>1. CASE Accept
    BY <1>1, AcceptKeeps
  <1>2. CASE ReceiveRequest
    BY <1>2, ReceiveRequestKeeps
  <1>3. CASE OpenFile
    BY <1>3, OpenFileKeeps
  <1>4. CASE OpenFails \/ SendFails
    BY <1>4, ServerEndsKeeps DEF OpenFails, SendFails
  <1>5. CASE ReadFile
    BY <1>5, ReadFileKeeps
  <1>6. CASE GetRemainingData
    BY <1>6, GetRemainingDataKeeps
  <1>7. CASE SendInfo
    BY <1>7, SendInfoKeeps
  <1>8. CASE SendChunk
    BY <1>8, SendChunkKeeps
  <1>9. CASE SendEnd
    BY <1>9, SendEndKeeps
  <1> QED
    BY <1>1, <1>2, <1>3, <1>4, <1>5, <1>6, <1>7, <1>8, <1>9 DEF Server

\* Every step keeps the invariant.
LEMMA StepKeeps == IInv /\ [Next]_vars => IInv'
  <1> SUFFICES ASSUME IInv, [Next]_vars PROVE IInv'
    OBVIOUS
  <1>1. ASSUME NEW c \in Clients, Client(c) PROVE IInv'
    BY <1>1, ClientKeeps
  <1>2. CASE Server
    BY <1>2, ServerKeeps
  <1>3. CASE Tick
    <2>1. TypeOK'
      BY <1>3, TickType DEF IInv
    <2> QED
      BY <1>3, <2>1, UnchangedKeeps DEF Tick
  <1>4. ASSUME NEW c \in Clients, InterruptClient(c) PROVE IInv'
    <2>1. Ends(c, "interrupted") /\ "interrupted" \in Gone
      BY <1>4 DEF InterruptClient, Gone
    <2> QED
      BY <2>1, EndsKeeps
  <1>5. CASE InterruptServer
    BY <1>5, ServerEndsKeeps DEF InterruptServer
  <1>6. CASE UNCHANGED vars
    <2>1. TypeOK'
      BY <1>6 DEF IInv, TypeOK, vars
    <2> QED
      BY <1>6, <2>1, UnchangedKeeps DEF vars
  <1> QED
    BY <1>1, <1>2, <1>3, <1>4, <1>5, <1>6 DEF Next

\* The invariant holds of a replay.
LEMMA Invariance == Spec => []IInv
  <1> QED
    BY InvInit, StepKeeps, PTL DEF Spec

\* Every field of a client, of a connection and of the server keeps its type:
\* in particular what was asked is a file with its options, sizes are numbers.
THEOREM Typed == Spec => []TypeOK
  <1>1. IInv => TypeOK
    BY DEF IInv
  <1> QED
    BY <1>1, Invariance, PTL

-----------------------------------------------------------------------------
(* What the checksums and the clients see *)

\* No step of a client makes a chunk corrupt.
LEMMA ChecksumsStep ==
    ASSUME IInv, NEW c \in Clients, Client(c) \/ InterruptClient(c), client[c].pc # "corrupt"
    PROVE  /\ client'[c].pc # "corrupt"
           /\ \A d \in Clients \ {c} : client'[d] = client[d]
  <1> DEFINE s == client[c]
  <1>1. s \in ClientType /\ client \in [Clients -> ClientType]
    BY DEF IInv, TypeOK
  <1>2. CASE WaitTillRequest(c)
    <2> DEFINE late == TooLate(c)
               wait == RepeatWait(c, s.request, late)
               till == Larger(now, DueAt(c, s.request))
               pc == IF now < DueAt(c, s.request) THEN "waiting" ELSE "repeat"
    <2>1. client' = [client EXCEPT ![c] = [s EXCEPT !.pc = pc, !.until = till, !.tooLate = late,
                                                    !.repeatWait = wait, !.repeat = 0]]
      BY <1>2 DEF WaitTillRequest
    <2>2. pc # "corrupt"
      OBVIOUS
    <2> HIDE DEF late, wait, till, pc
    <2> QED
      BY <1>1, <2>1, <2>2 DEF ClientType
  <1>3. CASE HandleRepeatedRequest(c)
    BY <1>1, <1>3 DEF HandleRepeatedRequest, ClientType
  <1>4. CASE Finish(c)
    BY <1>1, <1>4 DEF Finish, ClientType
  <1>5. CASE Connect(c)
    BY <1>1, <1>5 DEF Connect, ClientType
  <1>6. CASE ConnectFails(c) \/ RequestFails(c) \/ ReceiveFails(c) \/ InterruptClient(c)
    <2>1. PICK pc \in {"failed", "interrupted"} : Ends(c, pc)
      BY <1>6 DEF ConnectFails, RequestFails, ReceiveFails, InterruptClient
    <2> QED
      BY <1>1, <2>1 DEF Ends, ClientType
  <1>7. CASE RequestFile(c)
    BY <1>1, <1>7 DEF RequestFile, ClientType
  <1>8. CASE Receive(c)
    <2>1. PICK n : client' = [client EXCEPT ![c].buffer = @ \o SubSeq(connection[c].down, 1, n)]
      BY <1>8 DEF Receive
    <2> QED
      BY <1>1, <2>1 DEF ClientType
  <1>9. CASE UseInfo(c)
    <2> DEFINE till == now + Larger(s.repeatWait - (now - s.begun), 0)
    <2>1. \/ client' = [client EXCEPT ![c] = [s EXCEPT !.pc = "chunk", !.info = s.buffer, !.buffer = <<>>]]
          \/ client' = [client EXCEPT ![c] = [s EXCEPT !.pc = "connect", !.file = @ + 1]]
          \/ client' = [client EXCEPT ![c] = [s EXCEPT !.pc = "repeat", !.until = till]]
      BY <1>9 DEF UseInfo, AfterRequest
    <2> HIDE DEF till
    <2>2. PICK new : client' = [client EXCEPT ![c] = new] /\ new.pc \in {"chunk", "connect", "repeat"}
      <3>1. /\ [s EXCEPT !.pc = "chunk", !.info = s.buffer, !.buffer = <<>>].pc = "chunk"
            /\ [s EXCEPT !.pc = "connect", !.file = @ + 1].pc = "connect"
            /\ [s EXCEPT !.pc = "repeat", !.until = till].pc = "repeat"
        BY <1>1 DEF ClientType
      <3> HIDE DEF s
      <3> QED
        BY <2>1, <3>1
    <2>3. client'[c] = new /\ \A d \in Clients \ {c} : client'[d] = client[d]
      BY <1>1, <2>2
    <2> QED
      BY <2>2, <2>3
  <1>10. CASE UseChunk(c)
    <2>1. Verified(c)
      BY <1>10, ChunkIs DEF UseChunk
    <2>2. client' = [client EXCEPT ![c].pc = "info", ![c].buffer = <<>>]
      BY <1>10, <2>1 DEF UseChunk
    <2> QED
      BY <1>1, <2>2 DEF ClientType
  <1> QED
    BY <1>2, <1>3, <1>4, <1>5, <1>6, <1>7, <1>8, <1>9, <1>10 DEF Client

\* The others leave the clients alone.
LEMMA ClientsLeft ==
    ASSUME Server \/ Tick \/ InterruptServer \/ UNCHANGED vars
    PROVE  client' = client /\ delivered' = delivered
  <1>1. ASSUME NEW pc, ServerEnds(pc) PROVE client' = client /\ delivered' = delivered
    BY <1>1 DEF ServerEnds
  <1>2. CASE Server
    <2>1. CASE OpenFails \/ SendFails
      BY <1>1, <2>1 DEF OpenFails, SendFails
    <2>2. CASE Accept \/ ReceiveRequest \/ OpenFile
      BY <2>2 DEF Accept, ReceiveRequest, OpenFile
    <2>3. CASE ReadFile \/ GetRemainingData
      BY <2>3 DEF ReadFile, GetRemainingData
    <2>4. CASE SendInfo \/ SendChunk \/ SendEnd
      BY <2>4 DEF SendInfo, SendChunk, SendEnd
    <2> QED
      BY <1>2, <2>1, <2>2, <2>3, <2>4 DEF Server
  <1>3. CASE Tick
    BY <1>3 DEF Tick
  <1>4. CASE InterruptServer
    BY <1>1, <1>4 DEF InterruptServer
  <1>5. CASE UNCHANGED vars
    BY <1>5 DEF vars
  <1> QED
    BY <1>2, <1>3, <1>4, <1>5

\* The checksum sent with a chunk is that of the bytes that arrive as the
\* chunk, however they arrive and whoever is interrupted.
THEOREM Unharmed == Spec => []ChecksumsMatch
  <1>1. Init => ChecksumsMatch
    BY DEF Init, ChecksumsMatch
  <1>2. IInv /\ ChecksumsMatch /\ [Next]_vars => ChecksumsMatch'
    <2> SUFFICES ASSUME IInv, ChecksumsMatch, [Next]_vars PROVE ChecksumsMatch'
      OBVIOUS
    <2>1. ASSUME NEW c \in Clients, Client(c) \/ InterruptClient(c) PROVE ChecksumsMatch'
      <3>1. /\ client'[c].pc # "corrupt"
            /\ \A d \in Clients \ {c} : client'[d] = client[d]
        BY <2>1, ChecksumsStep DEF ChecksumsMatch
      <3> QED
        BY <3>1 DEF ChecksumsMatch
    <2>2. CASE Server \/ Tick \/ InterruptServer \/ UNCHANGED vars
      <3>1. client' = client
        BY <2>2, ClientsLeft
      <3> QED
        BY <3>1 DEF ChecksumsMatch
    <2> QED
      BY <2>1, <2>2 DEF Next
  <1> QED
    BY <1>1, <1>2, Invariance, PTL DEF Spec

-----------------------------------------------------------------------------
(* The file service *)

\* A client that gets more of what it is to get is served.
LEMMA MoreIsDelivered ==
    ASSUME IInv, NEW c \in Clients, NEW d \in Seq(Payload), Begins(d, Expected[c]),
           Len(delivered[c]) < Len(d), delivered' = [delivered EXCEPT ![c] = d]
    PROVE  Service!Next
  <1> DEFINE e == Expected[c]
             n == Len(d)
  <1>1. e \in Seq(Payload) /\ delivered[c] \in Seq(Cells)
    <2>1. e = FlattenSeq(Repeated(c)) /\ Repeated(c) \in Seq(Seq(Payload))
      BY ExpectedIs
    <2> QED
      BY <2>1, FlatIs DEF IInv, TypeOK
  <1>2. d = SubSeq(e, 1, n)
    BY <1>1, BeginningIsCut
  <1>3. n \in Nat /\ Len(e) \in Nat /\ Len(delivered[c]) \in Nat /\ n <= Len(e)
    BY <1>1, LenProperties DEF Begins
  <1>4. n \in Len(delivered[c]) + 1 .. Len(Expected[c])
    BY <1>3
  <1>5. delivered' = [delivered EXCEPT ![c] = SubSeq(Expected[c], 1, n)]
    BY <1>2
  <1> HIDE DEF e, n
  <1>6. \E k \in Len(delivered[c]) + 1 .. Len(Expected[c]) :
          delivered' = [delivered EXCEPT ![c] = SubSeq(Expected[c], 1, k)]
    BY <1>4, <1>5
  <1>7. Service!Deliver(c)
    BY <1>6 DEF Service!Deliver
  <1> QED
    BY <1>7 DEF Service!Next

\* The first pieces of a file begin it.
LEMMA PiecesBegin ==
    ASSUME NEW f \in DOMAIN Size, NEW n \in 0 .. Size[f]
    PROVE  Pieces(f, 0, n) \in Seq(Payload) /\ Begins(Pieces(f, 0, n), FileCells(f))
  <1>1. Size[f] \in Nat /\ n \in Nat /\ 0 \in Nat
    BY RecordingAssumption
  <1>2. /\ Pieces(f, 0, n) \in Seq(Payload) /\ Len(Pieces(f, 0, n)) = n
        /\ \A i \in 1 .. n : Pieces(f, 0, n)[i] = <<f, 0 + i>>
    BY <1>1, PiecesAre
  <1>3. Len(FileCells(f)) = Size[f] + 1
    BY FileCellsAre
  <1>4. ASSUME NEW i \in 1 .. n PROVE FileCells(f)[i] = <<f, i>>
    <2> DEFINE s == [j \in 1 .. Size[f] |-> <<f, j>>]
               e == <<<<f, 0>>>>
    <2>1. s \in Seq(Payload) /\ e \in Seq(Payload) /\ FileCells(f) = s \o e
      BY FileCellsAre DEF FileCells
    <2>2. i \in 1 .. Size[f] /\ s[i] = <<f, i>>
      BY <1>1
    <2>3. Len(s) = Size[f]
      BY <1>1
    <2>4. Len(e) = 1
      OBVIOUS
    <2> HIDE DEF s, e
    <2>5. (s \o e)[i] = s[i]
      <3>1. \A j \in 1 .. Len(s) + Len(e) :
              (s \o e)[j] = IF j <= Len(s) THEN s[j] ELSE e[j - Len(s)]
        BY <2>1, ConcatProperties
      <3>2. i \in 1 .. Len(s) + Len(e) /\ i <= Len(s)
        BY <1>1, <2>2, <2>3, <2>4
      <3> QED
        BY <3>1, <3>2
    <2> QED
      BY <2>1, <2>2, <2>5
  <1>5. ASSUME NEW i \in 1 .. n PROVE Pieces(f, 0, n)[i] = FileCells(f)[i]
    <2>1. Pieces(f, 0, n)[i] = <<f, 0 + i>> /\ 0 + i = i
      BY <1>1, <1>2
    <2> QED
      BY <2>1, <1>4
  <1>6. n <= Size[f] + 1
    BY <1>1
  <1> QED
    BY <1>2, <1>3, <1>5, <1>6 DEF Begins

\* Where a client is that has a file to get: all up to this file, and this
\* file, begin what it is to get.
LEMMA FilePlace ==
    ASSUME IInv, NEW c \in Clients, client[c].pc \in {"info", "chunk"}
    PROVE  LET b == Before(c, client[c].request, client[c].repeat, client[c].file)
           IN  /\ FileOf(c) \in DOMAIN Size /\ Size[FileOf(c)] \in Nat
               /\ b \in Seq(Payload) /\ Expected[c] \in Seq(Payload)
               /\ b \o FileCells(FileOf(c)) \in Seq(Payload)
               /\ Begins(b \o FileCells(FileOf(c)), Expected[c])
               /\ FileOf(c) = Requests[c][client[c].request].files[client[c].file]
  <1> DEFINE s == client[c]
             f == FileOf(c)
             b == Before(c, s.request, s.repeat, s.file)
  <1>1. s \in ClientType /\ Place(c) /\ s.pc \in Asking
    BY ApartIs DEF Asking, InTouch
  <1>2. /\ s.request \in 1 .. Len(Requests[c]) /\ f \in DOMAIN Size /\ Size[f] \in Nat
        /\ f = Requests[c][s.request].files[s.file]
    BY <1>1, FileIs
  <1>3. s.repeat \in 1 .. Options[c].count /\ s.file \in 1 .. Len(Files(c, s.request))
    <2>1. s.repeat # 0 /\ s.repeat <= Options[c].count /\ s.file \in 1 .. Len(Files(c, s.request))
      BY <1>1 DEF Place, Asking, InTouch
    <2>2. s.repeat \in Nat /\ Options[c].count \in Nat
      BY <1>1, FieldTypes, OptionsAre
    <2> QED
      BY <2>1, <2>2
  <1>4. /\ b \in Seq(Payload)
        /\ Before(c, s.request, s.repeat, s.file + 1) = b \o FileCells(f)
        /\ Begins(Before(c, s.request, s.repeat, s.file + 1), Expected[c])
    BY <1>2, <1>3, BeforeIs DEF FileOf
  <1>5. b \o FileCells(f) \in Seq(Payload)
    <2>1. FileCells(f) \in Seq(Payload)
      BY <1>2, FileCellsAre
    <2> QED
      BY <1>4, <2>1, ConcatProperties
  <1>6. Expected[c] \in Seq(Payload)
    <2>1. Expected[c] = FlattenSeq(Repeated(c)) /\ Repeated(c) \in Seq(Seq(Payload))
      BY ExpectedIs
    <2> QED
      BY <2>1, FlatIs
  <1> QED
    BY <1>2, <1>4, <1>5, <1>6

\* The end of a file is something that a client is to get.
LEMMA EndIsDelivered ==
    ASSUME IInv, NEW c \in Clients, UseInfo(c)
    PROVE  delivered' = delivered \/ Service!Next
  <1> DEFINE s == client[c]
             f == FileOf(c)
             b == Before(c, s.request, s.repeat, s.file)
             d == Append(delivered[c], <<f, 0>>)
  <1>1. s.pc = "info" /\ Len(s.buffer) = InfoSize
    BY DEF UseInfo
  <1>2. /\ f \in DOMAIN Size /\ Size[f] \in Nat /\ b \in Seq(Payload)
        /\ Begins(b \o FileCells(f), Expected[c]) /\ b \o FileCells(f) \in Seq(Payload)
        /\ f = Requests[c][s.request].files[s.file]
    BY <1>1, FilePlace
  <1>3. PICK n \in 0 .. Size[f], m \in Nat :
          /\ delivered[c] = b \o Pieces(f, 0, n) /\ s.buffer[1][2] = m
          /\ m = 0 => n = Size[f]
    BY <1>1, InfoIs
  <1>4. CASE m > 0
    BY <1>3, <1>4 DEF UseInfo
  <1>5. CASE m = 0
    <2>1. delivered' = [delivered EXCEPT ![c] = d]
      <3>1. s.buffer[1][2] = 0
        BY <1>3, <1>5
      <3>2. f = Requests[c][s.request].files[s.file]
        BY <1>2
      <3>3. ~(s.buffer[1][2] > 0)
        BY <3>1
      <3>4. delivered' = [delivered EXCEPT
              ![c] = Append(@, <<Requests[c][s.request].files[s.file], 0>>)]
        BY <3>3 DEF UseInfo
      <3> HIDE DEF f
      <3> QED
        BY <3>2, <3>4
    <2>2. d = b \o FileCells(f)
      <3>1. delivered[c] = b \o Pieces(f, 0, Size[f])
        BY <1>3, <1>5
      <3> HIDE DEF b, f
      <3> QED
        BY <1>2, <3>1, FileEnds
    <2>3. Len(delivered[c]) < Len(d)
      <3>1. delivered[c] \in Seq(Cells)
        BY DEF IInv, TypeOK
      <3>2. <<f, 0>> \in Cells
        BY <1>2 DEF Cells, Payload
      <3> HIDE DEF f
      <3>3. Len(d) = Len(delivered[c]) + 1 /\ Len(delivered[c]) \in Nat
        BY <3>1, <3>2, AppendProperties, LenProperties
      <3> QED
        BY <3>3
    <2> HIDE DEF d
    <2>4. d \in Seq(Payload) /\ Begins(d, Expected[c])
      BY <1>2, <2>2
    <2> QED
      BY <2>1, <2>3, <2>4, MoreIsDelivered
  <1> QED
    BY <1>3, <1>4, <1>5

\* A chunk is something that a client is to get.
LEMMA ChunkIsDelivered ==
    ASSUME IInv, NEW c \in Clients, UseChunk(c)
    PROVE  delivered' = delivered \/ Service!Next
  <1> DEFINE s == client[c]
             f == FileOf(c)
             b == Before(c, s.request, s.repeat, s.file)
             d == delivered[c] \o s.buffer
  <1>1. s.pc = "chunk" /\ Len(s.buffer) = Wanted(c)
    BY DEF UseChunk
  <1>2. /\ f \in DOMAIN Size /\ Size[f] \in Nat /\ b \in Seq(Payload)
        /\ Begins(b \o FileCells(f), Expected[c]) /\ b \o FileCells(f) \in Seq(Payload)
        /\ Expected[c] \in Seq(Payload)
    BY <1>1, FilePlace
  <1>3. PICK n \in Nat, m \in Nat :
          /\ delivered[c] = b \o Pieces(f, 0, n)
          /\ s.buffer = Pieces(f, n, m) /\ n + m \in 0 .. Size[f]
    BY <1>1, ChunkIs
  <1>4. delivered' = [delivered EXCEPT ![c] = d]
    <2>1. Verified(c)
      BY <1>1, ChunkIs
    <2> QED
      BY <2>1 DEF UseChunk
  <1> DEFINE p == Pieces(f, 0, n)
             q == Pieces(f, n, m)
             a == Pieces(f, 0, n + m)
  <1>5. /\ p \in Seq(Payload) /\ q \in Seq(Payload) /\ Len(p) = n /\ Len(q) = m
        /\ p \o q = a
    <2>1. 0 \in Nat
      OBVIOUS
    <2> QED
      BY <1>2, <2>1, PiecesAre, PiecesFollow
  <1>6. a \in Seq(Payload) /\ Begins(a, FileCells(f)) /\ FileCells(f) \in Seq(Payload)
    BY <1>2, <1>3, PiecesBegin, FileCellsAre
  <1>7. d = b \o a
    <2>1. d = (b \o p) \o q
      BY <1>3
    <2>2. (b \o p) \o q = b \o (p \o q)
      <3> HIDE DEF b, p, q
      <3> QED
        BY <1>2, <1>5, PayloadsAssociative, ZenonT(60)
    <2> QED
      BY <1>5, <2>1, <2>2
  <1>8. d \in Seq(Payload) /\ Begins(d, Expected[c])
    <2> HIDE DEF a, b, d, f
    <2>1. b \o a \in Seq(Payload) /\ b \o FileCells(f) \in Seq(Payload)
      BY <1>2, <1>6, ConcatProperties
    <2>2. Begins(b \o a, b \o FileCells(f))
      BY <1>2, <1>6, BeginsConcat
    <2>3. Begins(b \o a, Expected[c])
      BY <1>2, <2>1, <2>2, BeginsOn
    <2> QED
      BY <1>7, <2>1, <2>3
  <1>9. CASE m = 0
    <2>1. s.buffer = <<>>
      BY <1>3, <1>5, <1>9, EmptySeq
    <2>2. b \o p \in Seq(Payload)
      BY <1>2, <1>5, ConcatProperties
    <2>3. delivered[c] \o <<>> = delivered[c]
      BY <1>3, <2>2, ConcatEmptySeq
    <2>4. delivered \in [Clients -> Seq(Cells)]
      BY DEF IInv, TypeOK
    <2> QED
      BY <1>4, <2>1, <2>3, <2>4
  <1>10. CASE m # 0
    <2>1. Len(delivered[c]) < Len(d)
      <3>1. delivered[c] \in Seq(Payload) /\ s.buffer \in Seq(Payload)
        BY <1>2, <1>3, <1>5, ConcatProperties
      <3>2. Len(delivered[c]) \in Nat /\ Len(s.buffer) = m
        BY <1>3, <1>5, <3>1, LenProperties
      <3>3. Len(d) = Len(delivered[c]) + m
        BY <3>1, <3>2, ConcatProperties
      <3> QED
        BY <1>10, <3>2, <3>3
    <2> HIDE DEF d
    <2> QED
      BY <1>4, <1>8, <2>1, MoreIsDelivered
  <1> QED
    BY <1>9, <1>10

\* Every step delivers what comes next, or nothing.
LEMMA StepDelivers == IInv /\ [Next]_vars => [Service!Next]_delivered
  <1> SUFFICES ASSUME IInv, [Next]_vars PROVE delivered' = delivered \/ Service!Next
    OBVIOUS
  <1>1. ASSUME NEW c \in Clients, Client(c) PROVE delivered' = delivered \/ Service!Next
    <2>1. CASE WaitTillRequest(c) \/ HandleRepeatedRequest(c) \/ Finish(c) \/ Connect(c)
      BY <2>1 DEF WaitTillRequest, HandleRepeatedRequest, Finish, Connect
    <2>2. CASE ConnectFails(c) \/ RequestFails(c) \/ ReceiveFails(c)
      BY <2>2 DEF ConnectFails, RequestFails, ReceiveFails, Ends
    <2>3. CASE RequestFile(c) \/ Receive(c)
      BY <2>3 DEF RequestFile, Receive
    <2>4. CASE UseInfo(c)
      BY <2>4, EndIsDelivered
    <2>5. CASE UseChunk(c)
      BY <2>5, ChunkIsDelivered
    <2> QED
      BY <1>1, <2>1, <2>2, <2>3, <2>4, <2>5 DEF Client
  <1>2. CASE Server \/ Tick \/ InterruptServer \/ UNCHANGED vars
    BY <1>2, ClientsLeft
  <1>3. ASSUME NEW c \in Clients, InterruptClient(c) PROVE delivered' = delivered
    BY <1>3 DEF InterruptClient, Ends
  <1> QED
    BY <1>1, <1>2, <1>3 DEF Next

\* The replay implements the file service: every client gets the files of its
\* recording, and nothing else, in their order.
THEOREM Implements == Spec => ImplementsFileService
  <1>1. Init => Service!Init
    BY DEF Init, Service!Init
  <1>2. Spec => Service!Spec
    BY <1>1, StepDelivers, Invariance, PTL DEF Spec, Service!Spec
  <1> QED
    BY <1>2 DEF ImplementsFileService

-----------------------------------------------------------------------------
(* Pace *)

\* Division rounds down.
LEMMA Quotient ==
    ASSUME NEW x \in Nat, NEW s \in Nat \ {0}
    PROVE  x \div s \in Nat /\ s * (x \div s) <= x /\ x < s * (x \div s) + s
  OBVIOUS

\* There is only one quotient.
LEMMA QuotientIs ==
    ASSUME NEW x \in Nat, NEW s \in Nat \ {0}, NEW q \in Nat, s * q <= x
    PROVE  q <= x \div s
  <1> DEFINE d == x \div s
  <1>1. d \in Nat /\ x < s * d + s
    BY Quotient
  <1> HIDE DEF d
  <1>2. SUFFICES ASSUME d < q PROVE FALSE
    BY <1>1 DEF d
  <1>3. q - (d + 1) \in Nat
    BY <1>1, <1>2
  <1>4. s * q = s * (d + 1) + s * (q - (d + 1))
    BY <1>1, <1>3
  <1>5. s * (q - (d + 1)) \in Nat /\ s * (d + 1) = s * d + s
    BY <1>1, <1>3
  <1> DEFINE a == s * q
             b == s * d
             e == s * (q - (d + 1))
  <1>6. a \in Nat /\ b \in Nat /\ e \in Nat
    BY <1>1, <1>5
  <1>7. a = (b + s) + e /\ a <= x /\ x < b + s
    BY <1>1, <1>4, <1>5
  <1> HIDE DEF a, b, e
  <1> QED
    BY <1>6, <1>7

\* The quotients of two numbers are at most that of their sum.
LEMMA QuotientsAdd ==
    ASSUME NEW x \in Nat, NEW y \in Nat, NEW s \in Nat \ {0}
    PROVE  (x \div s) + (y \div s) <= (x + y) \div s
  <1> DEFINE p == x \div s
             q == y \div s
  <1>1. p \in Nat /\ q \in Nat /\ s * p <= x /\ s * q <= y
    BY Quotient
  <1> HIDE DEF p, q
  <1>2. s * (p + q) = s * p + s * q /\ s * p \in Nat /\ s * q \in Nat
    BY <1>1
  <1>3. s * (p + q) <= x + y /\ p + q \in Nat /\ x + y \in Nat
    <2> DEFINE a == s * p
               b == s * q
               d == s * (p + q)
    <2>1. d = a + b /\ a \in Nat /\ b \in Nat /\ a <= x /\ b <= y
      BY <1>1, <1>2
    <2> HIDE DEF a, b, d
    <2>2. d <= x + y
      BY <2>1
    <2> QED
      BY <1>1, <2>2 DEF d
  <1>4. p + q <= (x + y) \div s
    BY <1>3, QuotientIs
  <1> QED
    BY <1>4 DEF p, q

\* The time between two requests is not more than what lies between the times
\* they are due, and a request that is due is not early.
LEMMA DueIs ==
    ASSUME NEW c \in Clients, NEW k \in 1 .. Len(Requests[c])
    PROVE  /\ k < Len(Requests[c]) =>
                /\ k + 1 \in 1 .. Len(Requests[c]) /\ DueAt(c, k + 1) \in Nat
                /\ DueAt(c, k) + TillNext(c, k) <= DueAt(c, k + 1)
           /\ \A n \in Nat : DueAt(c, k) <= n =>
                (n + 1) * Options[c].speed > Requests[c][k].at - Requests[c][1].at
  <1> DEFINE len == Len(Requests[c])
             at == [i \in 1 .. len |-> Requests[c][i].at]
             speed == Options[c].speed
  <1>1. len \in Nat \ {0} /\ \A i \in 1 .. len : at[i] = Times(c)[i] /\ at[i] \in Nat
    BY RequestsAre
  <1>2. \A i, j \in 1 .. len : i < j => at[i] < at[j]
    <2>1. DOMAIN Times(c) = 1 .. len
      BY RequestsAre
    <2> QED
      BY <2>1, <1>1, TimesAre
  <1>3. speed \in Nat \ {0}
    BY OptionsAre
  <1>4. \A i \in 1 .. len : DueAt(c, i) = (at[i] - at[1]) \div speed
    BY <1>1 DEF DueAt
  <1>5. k < len => TillNext(c, k) = (at[k + 1] - at[k]) \div speed
    BY <1>1 DEF TillNext
  <1>6. Requests[c][k].at = at[k] /\ Requests[c][1].at = at[1]
    BY <1>1
  <1>7. k < len => k + 1 \in 1 .. len /\ DueAt(c, k + 1) \in Nat
    <2>1. k < len => k + 1 \in 1 .. len
      BY <1>1
    <2> QED
      BY <2>1, TimesOf
  <1> HIDE DEF len, at, speed
  <1>8. at[k] - at[1] \in Nat
    <2>1. 1 \in 1 .. len /\ k \in 1 .. len /\ (k = 1 \/ 1 < k)
      BY <1>1 DEF len
    <2> QED
      BY <2>1, <1>1, <1>2
  <1>9. ASSUME k < len PROVE DueAt(c, k) + TillNext(c, k) <= DueAt(c, k + 1)
    <2> DEFINE x == at[k] - at[1]
               y == at[k + 1] - at[k]
    <2>1. x \in Nat /\ y \in Nat /\ at[k + 1] - at[1] = x + y
      <3>1. k + 1 \in 1 .. len /\ k \in 1 .. len /\ 1 \in 1 .. len /\ k < k + 1
        BY <1>1, <1>7, <1>9 DEF len
      <3> QED
        BY <1>1, <1>2, <1>8, <3>1
    <2>2. /\ DueAt(c, k) = x \div speed /\ TillNext(c, k) = y \div speed
          /\ DueAt(c, k + 1) = (x + y) \div speed
      <3>1. k + 1 \in 1 .. len /\ k \in 1 .. len
        BY <1>7, <1>9 DEF len
      <3> QED
        BY <1>4, <1>5, <1>9, <2>1, <3>1
    <2> HIDE DEF x, y
    <2> QED
      BY <1>3, <2>1, <2>2, QuotientsAdd
  <1>10. ASSUME NEW n \in Nat, DueAt(c, k) <= n PROVE (n + 1) * speed > at[k] - at[1]
    <2> DEFINE x == at[k] - at[1]
               d == x \div speed
    <2>1. d = DueAt(c, k) /\ x \in Nat
      BY <1>4, <1>8 DEF len
    <2> HIDE DEF x
    <2>2. d \in Nat /\ x < speed * d + speed
      BY <1>3, <2>1, Quotient
    <2>3. d <= n
      BY <1>10, <2>1
    <2> HIDE DEF d
    <2>4. speed * n = speed * d + speed * (n - d) /\ speed * (n - d) \in Nat /\ speed * d \in Nat
      <3>1. n - d \in Nat
        BY <2>2, <2>3
      <3> QED
        BY <1>3, <2>2, <3>1
    <2>5. (n + 1) * speed = speed * n + speed
      BY <1>3
    <2> DEFINE a == speed * n
               b == speed * d
               e == speed * (n - d)
               z == (n + 1) * speed
    <2>6. a = b + e /\ b \in Nat /\ e \in Nat /\ x < b + speed /\ z = a + speed
      BY <2>2, <2>4, <2>5
    <2> HIDE DEF a, b, e, z
    <2>7. z > x
      BY <1>3, <2>1, <2>6
    <2> QED
      BY <2>7 DEF x, z
  <1> QED
    BY <1>6, <1>7, <1>9, <1>10 DEF len, speed

\* All repetitions of a request wait, with what the client is late, no longer
\* than till the next request, or than the client is late.
LEMMA WaitsAre ==
    ASSUME NEW c \in Clients, NEW k \in 1 .. Len(Requests[c]), k < Len(Requests[c]), NEW late \in Nat
    PROVE  /\ RepeatWait(c, k, late) \in Nat /\ TillNext(c, k) \in Nat
           /\ Options[c].count * RepeatWait(c, k, late) \in Nat
           /\ late + Options[c].count * RepeatWait(c, k, late) <= Larger(TillNext(c, k), late)
  <1> DEFINE t == TillNext(c, k)
             count == Options[c].count
             w == RepeatWait(c, k, late)
  <1>1. w \in Nat /\ t \in Nat /\ count \in Nat
    BY TimesOf, OptionsAre
  <1>2. w = IF count > 1 THEN Larger(t - late, 0) \div count ELSE 0
    BY DEF RepeatWait
  <1> HIDE DEF t, count, w
  <1>3. CASE count > 1
    <2> DEFINE x == Larger(t - late, 0)
    <2>1. x \in Nat /\ late + x <= Larger(t, late)
      BY <1>1 DEF Larger
    <2> HIDE DEF x
    <2>2. w = x \div count /\ count \in Nat \ {0}
      BY <1>1, <1>2, <1>3 DEF x
    <2>3. count * w <= x
      BY <2>1, <2>2, Quotient
    <2>4. count * w \in Nat /\ Larger(t, late) \in Nat
      BY <1>1 DEF Larger
    <2> DEFINE y == count * w
               l == Larger(t, late)
    <2> HIDE DEF y, l
    <2>5. late + y <= l
      <3>1. y \in Nat /\ l \in Nat /\ y <= x /\ late + x <= l
        BY <2>1, <2>3, <2>4 DEF y, l
      <3> QED
        BY <2>1, <3>1
    <2> QED
      BY <1>1, <2>4, <2>5 DEF y, l, t, count, w
  <1>4. CASE ~(count > 1)
    <2>1. w = 0
      BY <1>2, <1>4
    <2>2. count * w = 0
      BY <1>1, <2>1
    <2>3. late + 0 <= Larger(t, late)
      BY <1>1 DEF Larger
    <2> QED
      BY <1>1, <2>2, <2>3 DEF t, count, w
  <1> QED
    BY <1>3, <1>4

\* How late it can be, when a client turns to its kth request after r repetitions
Latest(c, k, r) ==
    DueAt(c, k) + client[c].tooLate + r * client[c].repeatWait + busy[c]

Planned(c, k) == client[c].repeatWait = RepeatWait(c, k, client[c].tooLate)

\* A client neither asks before a request is due, nor later than the work it did
\* and the waits it planned explain.
Pace(c) ==
    LET s == client[c]
    IN  /\ s.pc \in {"waiting", "repeat"} =>
             /\ DueAt(c, s.request) <= s.until
             /\ s.until <= Latest(c, s.request, s.repeat)
             /\ now <= Latest(c, s.request, s.repeat)
        /\ s.pc \in Asking =>
             /\ DueAt(c, s.request) <= now
             /\ now <= Latest(c, s.request, s.repeat - 1)
             /\ s.begun <= Latest(c, s.request, s.repeat - 1)
        /\ s.pc \in {"waiting", "repeat"} \cup Asking => Planned(c, s.request)
        /\ s.pc = "due" /\ s.request # 1 =>
             Planned(c, s.request - 1) /\ now <= Latest(c, s.request - 1, s.repeat)

Pacing == \A c \in Clients : Pace(c)

\* A client that goes on asking keeps its pace.
LEMMA AskingOn ==
    ASSUME NEW c \in Clients, Pace(c), client[c].pc \in Asking, client'[c].pc \in Asking,
           client'[c].request = client[c].request, client'[c].repeat = client[c].repeat,
           client'[c].tooLate = client[c].tooLate, client'[c].repeatWait = client[c].repeatWait,
           client'[c].begun = client[c].begun, busy' = busy, now' = now
    PROVE  Pace(c)'
  <1>1. client'[c].pc \notin {"waiting", "repeat"} /\ client'[c].pc # "due"
    BY DEF Asking, InTouch
  <1>2. \A k, r : Latest(c, k, r)' = Latest(c, k, r)
    BY DEF Latest, DueAt
  <1>3. \A k : Planned(c, k)' = Planned(c, k)
    BY DEF Planned, RepeatWait, TillNext
  <1>4. \A k : DueAt(c, k)' = DueAt(c, k)
    BY DEF DueAt
  <1> QED
    BY <1>1, <1>2, <1>3, <1>4 DEF Pace

\* A client that ended has no pace.
LEMMA NoPace ==
    ASSUME NEW c \in Clients, client'[c].pc \in {"done"} \cup Gone
    PROVE  Pace(c)'
  BY DEF Pace, Gone, Asking, InTouch

\* Looking at the clock sets the pace of a request.
LEMMA WaitTillRequestPaces ==
    ASSUME IInv, NEW c \in Clients, WaitTillRequest(c) PROVE Pace(c)'
  <1> DEFINE s == client[c]
             due == DueAt(c, s.request)
             late == TooLate(c)
             wait == RepeatWait(c, s.request, late)
             till == Larger(now, due)
             pc == IF now < due THEN "waiting" ELSE "repeat"
  <1>1. s \in ClientType /\ client \in [Clients -> ClientType] /\ s.request \in 1 .. Len(Requests[c])
        /\ now \in Nat /\ busy \in [Clients -> Nat]
    BY RequestsAre DEF IInv, TypeOK, Place, WaitTillRequest
  <1>2. due \in Nat
    BY <1>1, TimesOf
  <1>3. late = Larger(now - due, 0)
    BY DEF TooLate
  <1>4. late \in Nat /\ till \in Nat /\ due + late = till /\ due <= till /\ now <= till
    <2> HIDE DEF due, late
    <2> QED
      BY <1>1, <1>2, <1>3 DEF Larger
  <1>5. wait \in Nat
    BY <1>1, <1>4, TimesOf
  <1>6. client' = [client EXCEPT ![c] = [s EXCEPT !.pc = pc, !.until = till, !.tooLate = late,
                                                  !.repeatWait = wait, !.repeat = 0]]
        /\ busy' = [busy EXCEPT ![c] = 0] /\ now' = now
    BY DEF WaitTillRequest
  <1>7. pc \in {"waiting", "repeat"}
    OBVIOUS
  <1> HIDE DEF due, late, wait, till, pc
  <1>8. /\ client'[c].pc = pc /\ client'[c].request = s.request /\ client'[c].until = till
        /\ client'[c].tooLate = late /\ client'[c].repeatWait = wait /\ client'[c].repeat = 0
        /\ busy'[c] = 0
    BY <1>1, <1>6 DEF ClientType
  <1>9. client'[c].pc \in {"waiting", "repeat"} /\ client'[c].pc \notin Asking /\ client'[c].pc # "due"
    BY <1>7, <1>8 DEF Asking, InTouch
  <1>10. Latest(c, s.request, 0)' = till
    <2>1. Latest(c, s.request, 0)' = due + late + 0 * wait + 0
      BY <1>8 DEF Latest, due, DueAt
    <2> QED
      BY <1>2, <1>4, <1>5, <2>1
  <1>11. DueAt(c, client'[c].request) = due
    BY <1>8 DEF due
  <1>12. Planned(c, s.request)'
    BY <1>8 DEF Planned, wait, RepeatWait, TillNext
  <1>13. /\ DueAt(c, client'[c].request) <= client'[c].until
         /\ client'[c].until <= Latest(c, client[c].request, 0)'
         /\ now' <= Latest(c, client[c].request, 0)'
    BY <1>4, <1>6, <1>8, <1>10, <1>11
  <1> QED
    BY <1>8, <1>9, <1>12, <1>13 DEF Pace

\* The numbers of a client's pace
LEMMA PaceTypes ==
    ASSUME IInv, NEW c \in Clients
    PROVE  /\ client[c] \in ClientType /\ client \in [Clients -> ClientType]
           /\ now \in Nat /\ busy \in [Clients -> Nat] /\ busy[c] \in Nat
           /\ client[c].tooLate \in Nat /\ client[c].repeatWait \in Nat /\ client[c].until \in Nat
           /\ client[c].begun \in Nat /\ client[c].repeat \in Nat /\ client[c].request \in Nat
           /\ client[c].pc \in {"waiting", "repeat"} \cup Asking =>
                client[c].request \in 1 .. Len(Requests[c]) /\ DueAt(c, client[c].request) \in Nat
           /\ client[c].request \in 1 .. Len(Requests[c]) + 1 /\ Len(Requests[c]) \in Nat
  <1>1. /\ client[c] \in ClientType /\ client \in [Clients -> ClientType]
        /\ now \in Nat /\ busy \in [Clients -> Nat] /\ Place(c)
    BY DEF IInv, TypeOK
  <1>2. Len(Requests[c]) \in Nat /\ client[c].request \in 1 .. Len(Requests[c]) + 1
    BY <1>1, RequestsAre DEF Place
  <1>3. client[c].pc \in {"waiting", "repeat"} \cup Asking => client[c].request \in 1 .. Len(Requests[c])
    BY <1>1, <1>2 DEF Place
  <1> QED
    BY <1>1, <1>2, <1>3, FieldTypes, TimesOf

\* A client that slept long enough is not early, and no later than planned.
LEMMA HandleRepeatedRequestPaces ==
    ASSUME IInv, Pacing, NEW c \in Clients, HandleRepeatedRequest(c) PROVE Pace(c)'
  <1> DEFINE s == client[c]
  <1>0. PICK k, r : k = s.request /\ r = s.repeat
    OBVIOUS
  <1> DEFINE l == Latest(c, k, r)
  <1>1. /\ s \in ClientType /\ client \in [Clients -> ClientType]
        /\ now \in Nat /\ s.until \in Nat /\ r \in Nat /\ k \in Nat /\ DueAt(c, k) \in Nat
    BY <1>0, PaceTypes DEF HandleRepeatedRequest
  <1>2. /\ DueAt(c, k) <= s.until /\ now <= l /\ Planned(c, k) /\ s.until <= now
    BY <1>0, <1>1 DEF Pacing, Pace, HandleRepeatedRequest
  <1>3. busy' = busy /\ now' = now
    BY DEF HandleRepeatedRequest
  <1>4. CASE r < Options[c].count
    <2>1. client' = [client EXCEPT ![c] =
             [s EXCEPT !.pc = "connect", !.repeat = @ + 1, !.file = 1, !.begun = now]]
      BY <1>0, <1>4 DEF HandleRepeatedRequest
    <2>2. /\ client'[c].pc = "connect" /\ client'[c].request = k /\ client'[c].repeat = r + 1
          /\ client'[c].begun = now /\ client'[c].tooLate = s.tooLate
          /\ client'[c].repeatWait = s.repeatWait
      BY <1>0, <1>1, <2>1 DEF ClientType
    <2>3. (r + 1) - 1 = r /\ DueAt(c, k) <= now
      BY <1>1, <1>2
    <2>4. Latest(c, k, r)' = l
      BY <1>3, <2>2 DEF Latest, DueAt
    <2>5. Planned(c, k)'
      BY <1>2, <2>2 DEF Planned, RepeatWait, TillNext
    <2>6. DueAt(c, client'[c].request) <= now'
      BY <1>3, <2>2, <2>3
    <2>7. /\ now' <= Latest(c, client[c].request, client[c].repeat - 1)'
          /\ client'[c].begun <= Latest(c, client[c].request, client[c].repeat - 1)'
      BY <1>2, <1>3, <2>2, <2>3, <2>4
    <2>8. Planned(c, client[c].request)'
      BY <2>2, <2>5
    <2>9. DueAt(c, client[c].request)' <= now'
      BY <2>2, <2>6 DEF DueAt
    <2>10. client'[c].pc \notin {"waiting", "repeat", "due"}
      BY <2>2
    <2> QED
      BY <2>7, <2>8, <2>9, <2>10 DEF Pace
  <1>5. CASE ~(r < Options[c].count)
    <2>1. client' = [client EXCEPT ![c] = [s EXCEPT !.pc = "due", !.request = @ + 1]]
      BY <1>0, <1>5 DEF HandleRepeatedRequest
    <2>2. /\ client'[c].pc = "due" /\ client'[c].request = k + 1 /\ client'[c].repeat = r
          /\ client'[c].tooLate = s.tooLate /\ client'[c].repeatWait = s.repeatWait
      BY <1>0, <1>1, <2>1 DEF ClientType
    <2>3. (k + 1) - 1 = k
      BY <1>1
    <2>4. Latest(c, k, r)' = l
      BY <1>3, <2>2 DEF Latest, DueAt
    <2>5. Planned(c, k)'
      BY <1>2, <2>2 DEF Planned, RepeatWait, TillNext
    <2>6. /\ Planned(c, client[c].request - 1)'
          /\ now' <= Latest(c, client[c].request - 1, client[c].repeat)'
      BY <1>2, <1>3, <2>2, <2>3, <2>4, <2>5
    <2>7. client'[c].pc \notin {"waiting", "repeat"} \cup Asking
      BY <2>2 DEF Asking, InTouch
    <2> QED
      BY <2>6, <2>7 DEF Pace
  <1> QED
    BY <1>4, <1>5

\* After a request a client sleeps what is left of the wait it planned.
LEMMA UseInfoPaces ==
    ASSUME IInv, Pacing, NEW c \in Clients, UseInfo(c) PROVE Pace(c)'
  <1> DEFINE s == client[c]
             k == s.request
             r == s.repeat
             w == s.repeatWait
             till == now + Larger(w - (now - s.begun), 0)
  <1>1. s.pc = "info" /\ s.pc \in Asking /\ busy' = busy /\ now' = now
    BY DEF UseInfo, Asking, InTouch
  <1>2. /\ s \in ClientType /\ client \in [Clients -> ClientType]
        /\ now \in Nat /\ w \in Nat /\ r \in Nat /\ k \in Nat /\ DueAt(c, k) \in Nat
        /\ s.begun \in Nat /\ busy[c] \in Nat /\ s.tooLate \in Nat
    BY <1>1, PaceTypes
  <1>3. /\ Pace(c) /\ DueAt(c, k) <= now /\ now <= Latest(c, k, r - 1)
        /\ s.begun <= Latest(c, k, r - 1) /\ Planned(c, k)
    BY <1>1 DEF Pacing, Pace
  <1>4. \/ client' = [client EXCEPT ![c] = [s EXCEPT !.pc = "chunk", !.info = s.buffer, !.buffer = <<>>]]
        \/ client' = [client EXCEPT ![c] = [s EXCEPT !.pc = "connect", !.file = @ + 1]]
        \/ client' = [client EXCEPT ![c] = [s EXCEPT !.pc = "repeat", !.until = till]]
    BY DEF UseInfo, AfterRequest
  <1>5. CASE \/ client' = [client EXCEPT ![c] = [s EXCEPT !.pc = "chunk", !.info = s.buffer, !.buffer = <<>>]]
             \/ client' = [client EXCEPT ![c] = [s EXCEPT !.pc = "connect", !.file = @ + 1]]
    <2>1. /\ client'[c].pc \in {"chunk", "connect"} /\ client'[c].request = k /\ client'[c].repeat = r
          /\ client'[c].tooLate = s.tooLate /\ client'[c].repeatWait = w /\ client'[c].begun = s.begun
      <3> HIDE DEF till
      <3>1. CASE client' = [client EXCEPT ![c] = [s EXCEPT !.pc = "chunk", !.info = s.buffer, !.buffer = <<>>]]
        BY <1>2, <3>1 DEF ClientType
      <3>2. CASE client' = [client EXCEPT ![c] = [s EXCEPT !.pc = "connect", !.file = @ + 1]]
        BY <1>2, <3>2 DEF ClientType
      <3> QED
        BY <1>5, <3>1, <3>2
    <2>2. client'[c].pc \in Asking
      BY <2>1 DEF Asking, InTouch
    <2> QED
      BY <1>1, <1>3, <2>1, <2>2, AskingOn
  <1>6. CASE client' = [client EXCEPT ![c] = [s EXCEPT !.pc = "repeat", !.until = till]]
    <2>1. /\ client'[c].pc = "repeat" /\ client'[c].request = k /\ client'[c].repeat = r
          /\ client'[c].tooLate = s.tooLate /\ client'[c].repeatWait = w /\ client'[c].until = till
      <3> HIDE DEF till
      <3> QED
        BY <1>2, <1>6 DEF ClientType
    <2>2. Latest(c, k, r)' = DueAt(c, k) + s.tooLate + r * w + busy[c]
      BY <1>1, <2>1 DEF Latest, DueAt
    <2>3. Latest(c, k, r - 1) = DueAt(c, k) + s.tooLate + (r - 1) * w + busy[c]
      BY DEF Latest
    <2> DEFINE d == DueAt(c, k)
               a == (r - 1) * w
               e == r * w
               b == s.begun
               v == busy[c]
               late == s.tooLate
               n == now
    <2>4. e = a + w /\ a \in Int /\ e \in Nat
      BY <1>2
    <2>5. till = n + Larger(w - (n - b), 0)
      OBVIOUS
    <2> HIDE DEF a, b, d, e, till, v, late, n, w
    <2>6. d <= till /\ till <= d + late + e + v /\ n <= d + late + e + v
      <3>1. /\ n \in Nat /\ w \in Nat /\ d \in Nat /\ b \in Nat /\ v \in Nat /\ late \in Nat
            /\ d <= n /\ n <= d + late + a + v /\ b <= d + late + a + v
        BY <1>2, <1>3, <2>3 DEF a, b, d, v, late, n, w
      <3> QED
        BY <2>4, <2>5, <3>1 DEF Larger
    <2>7. /\ client'[c].until <= Latest(c, client[c].request, client[c].repeat)'
          /\ now' <= Latest(c, client[c].request, client[c].repeat)'
      BY <1>1, <2>1, <2>2, <2>6 DEF d, e, v, late, n, w
    <2>8. DueAt(c, client[c].request)' <= client'[c].until
      <3>1. DueAt(c, client[c].request)' = DueAt(c, k)
        BY <2>1 DEF DueAt
      <3> QED
        BY <2>1, <2>6, <3>1 DEF d
    <2>9. Planned(c, client[c].request)'
      BY <1>3, <2>1 DEF Planned, RepeatWait, TillNext, w
    <2>10. client'[c].pc \notin Asking /\ client'[c].pc # "due"
      BY <2>1 DEF Asking, InTouch
    <2> QED
      BY <2>7, <2>8, <2>9, <2>10 DEF Pace
  <1> QED
    BY <1>4, <1>5, <1>6

\* A step of a client keeps its pace.
LEMMA ClientPaces ==
    ASSUME IInv, Pacing, NEW c \in Clients, Client(c) \/ InterruptClient(c) PROVE Pace(c)'
  <1>1. client[c] \in ClientType /\ client \in [Clients -> ClientType] /\ Pace(c)
    BY DEF IInv, TypeOK, Pacing
  <1>2. CASE WaitTillRequest(c)
    BY <1>2, WaitTillRequestPaces
  <1>3. CASE HandleRepeatedRequest(c)
    BY <1>3, HandleRepeatedRequestPaces
  <1>4. CASE UseInfo(c)
    BY <1>4, UseInfoPaces
  <1>5. CASE \/ Finish(c) \/ ConnectFails(c) \/ RequestFails(c) \/ ReceiveFails(c)
             \/ InterruptClient(c)
    <2>1. PICK pc \in {"done", "failed", "interrupted"} : client' = [client EXCEPT ![c].pc = pc]
      BY <1>5 DEF Finish, ConnectFails, RequestFails, ReceiveFails, InterruptClient, Ends
    <2>2. client'[c].pc = pc
      BY <1>1, <2>1 DEF ClientType
    <2> QED
      BY <2>2, NoPace DEF Gone
  <1>6. CASE Connect(c) \/ RequestFile(c)
    <2>1. /\ client[c].pc \in Asking /\ client'[c].pc \in Asking
          /\ client'[c].request = client[c].request /\ client'[c].repeat = client[c].repeat
          /\ client'[c].tooLate = client[c].tooLate /\ client'[c].begun = client[c].begun
          /\ client'[c].repeatWait = client[c].repeatWait /\ busy' = busy /\ now' = now
      <3>1. CASE Connect(c)
        BY <1>1, <3>1 DEF Connect, ClientType, Asking, InTouch
      <3>2. CASE RequestFile(c)
        BY <1>1, <3>2 DEF RequestFile, ClientType, Asking, InTouch
      <3> QED
        BY <1>6, <3>1, <3>2
    <2> QED
      BY <1>1, <2>1, AskingOn
  <1>7. CASE Receive(c)
    <2>1. PICK n : client' = [client EXCEPT ![c].buffer = @ \o SubSeq(connection[c].down, 1, n)]
      BY <1>7 DEF Receive
    <2>2. /\ client'[c].pc = client[c].pc
          /\ client'[c].request = client[c].request /\ client'[c].repeat = client[c].repeat
          /\ client'[c].tooLate = client[c].tooLate /\ client'[c].begun = client[c].begun
          /\ client'[c].repeatWait = client[c].repeatWait
      BY <1>1, <2>1 DEF ClientType
    <2>3. client[c].pc \in Asking /\ busy' = busy /\ now' = now
      BY <1>7 DEF Receive, Asking, InTouch
    <2> QED
      BY <1>1, <2>2, <2>3, AskingOn
  <1>8. CASE UseChunk(c)
    <2>1. client[c].pc = "chunk" /\ Verified(c) /\ busy' = busy /\ now' = now
      BY <1>8, ChunkIs DEF UseChunk
    <2>2. client' = [client EXCEPT ![c].pc = "info", ![c].buffer = <<>>]
      BY <1>8, <2>1 DEF UseChunk
    <2>3. /\ client'[c].pc = "info"
          /\ client'[c].request = client[c].request /\ client'[c].repeat = client[c].repeat
          /\ client'[c].tooLate = client[c].tooLate /\ client'[c].begun = client[c].begun
          /\ client'[c].repeatWait = client[c].repeatWait
      BY <1>1, <2>2 DEF ClientType
    <2>4. client[c].pc \in Asking /\ client'[c].pc \in Asking
      BY <2>1, <2>3 DEF Asking, InTouch
    <2> QED
      BY <1>1, <2>1, <2>3, <2>4, AskingOn
  <1> QED
    BY <1>2, <1>3, <1>4, <1>5, <1>6, <1>7, <1>8 DEF Client

\* Time passes for a client that sleeps, or it is at work.
LEMMA TickPaces ==
    ASSUME IInv, Pacing, NEW c \in Clients, Tick PROVE Pace(c)'
  <1> DEFINE s == client[c]
  <1>1. /\ s \in ClientType /\ now \in Nat /\ busy \in [Clients -> Nat] /\ busy[c] \in Nat
        /\ s.tooLate \in Nat /\ s.repeatWait \in Nat /\ s.until \in Nat /\ s.begun \in Nat
        /\ s.repeat \in Nat /\ s.request \in Nat
        /\ s.pc \in {"waiting", "repeat"} \cup Asking => DueAt(c, s.request) \in Nat
        /\ s.request \in 1 .. Len(Requests[c]) + 1 /\ Len(Requests[c]) \in Nat
    BY PaceTypes
  <1>2. client' = client /\ now' = now + 1 /\ busy'[c] = IF AtWork(c) THEN busy[c] + 1 ELSE busy[c]
    BY DEF Tick
  <1>3. ASSUME NEW k \in 1 .. Len(Requests[c]), NEW r \in Int
        PROVE  /\ Latest(c, k, r) \in Int
               /\ Latest(c, k, r)' = IF AtWork(c) THEN Latest(c, k, r) + 1 ELSE Latest(c, k, r)
    <2>1. DueAt(c, k) \in Nat
      BY TimesOf
    <2>2. Latest(c, k, r)' = DueAt(c, k) + s.tooLate + r * s.repeatWait + busy'[c]
      BY <1>2 DEF Latest, DueAt
    <2> DEFINE p == r * s.repeatWait
    <2>3. p \in Int
      BY <1>1
    <2>4. Latest(c, k, r) = DueAt(c, k) + s.tooLate + p + busy[c]
      BY DEF Latest
    <2>5. Latest(c, k, r)' = DueAt(c, k) + s.tooLate + p + busy'[c]
      BY <2>2
    <2> DEFINE base == DueAt(c, k) + s.tooLate + p
    <2>6. base \in Int
      <3> HIDE DEF p
      <3> QED
        BY <1>1, <2>1, <2>3, SMTT(30)
    <2>7. Latest(c, k, r) = base + busy[c] /\ Latest(c, k, r)' = base + busy'[c]
      BY <2>4, <2>5
    <2> HIDE DEF base
    <2>8. busy[c] \in Int /\ busy'[c] = IF AtWork(c) THEN busy[c] + 1 ELSE busy[c]
      BY <1>1, <1>2
    <2> QED
      BY <2>6, <2>7, <2>8
  <1>4. \A k : Planned(c, k)' = Planned(c, k) /\ DueAt(c, k)' = DueAt(c, k)
    BY <1>2 DEF Planned, RepeatWait, TillNext, DueAt
  <1>5. PICK k, r : k = s.request /\ r = s.repeat
    OBVIOUS
  <1>6. Pace(c)
    BY DEF Pacing
  <1>7. CASE s.pc \in {"waiting", "repeat"}
    <2>1. k \in 1 .. Len(Requests[c]) /\ r \in Int
      BY <1>1, <1>5, <1>7, PaceTypes
    <2>2. /\ DueAt(c, k) <= s.until /\ s.until <= Latest(c, k, r) /\ now <= Latest(c, k, r)
          /\ Planned(c, k)
      BY <1>5, <1>6, <1>7 DEF Pace
    <2>3. AtWork(c) <=> ~(now < s.until)
      BY <1>7 DEF AtWork, Asleep, Ended
    <2>4. Latest(c, k, r) \in Int
          /\ Latest(c, k, r)' = IF AtWork(c) THEN Latest(c, k, r) + 1 ELSE Latest(c, k, r)
      BY <1>3, <2>1
    <2> DEFINE l == Latest(c, k, r)
    <2> HIDE DEF l
    <2>5. s.until <= Latest(c, k, r)' /\ now' <= Latest(c, k, r)'
      <3>1. l \in Int /\ Latest(c, k, r)' = (IF AtWork(c) THEN l + 1 ELSE l)
            /\ s.until <= l /\ now <= l
        BY <2>2, <2>4 DEF l
      <3> QED
        BY <1>1, <1>2, <2>3, <3>1, SMTT(30)
    <2>6. s.pc \notin Asking /\ s.pc # "due"
      BY <1>7 DEF Asking, InTouch
    <2> QED
      BY <1>2, <1>4, <1>5, <1>7, <2>2, <2>5, <2>6 DEF Pace
  <1>8. CASE s.pc \in Asking
    <2>1. k \in 1 .. Len(Requests[c]) /\ r - 1 \in Int /\ DueAt(c, k) \in Nat
      BY <1>1, <1>5, <1>8, PaceTypes
    <2>2. /\ DueAt(c, k) <= now /\ now <= Latest(c, k, r - 1) /\ s.begun <= Latest(c, k, r - 1)
          /\ Planned(c, k)
      BY <1>5, <1>6, <1>8 DEF Pace
    <2>3. AtWork(c)
      BY <1>8 DEF AtWork, Asleep, Ended, Asking, InTouch
    <2>4. Latest(c, k, r - 1) \in Int /\ Latest(c, k, r - 1)' = Latest(c, k, r - 1) + 1
      BY <1>3, <2>1, <2>3
    <2>5. /\ DueAt(c, k) <= now' /\ now' <= Latest(c, k, r - 1)'
          /\ s.begun <= Latest(c, k, r - 1)'
      <3> DEFINE l == Latest(c, k, r - 1)
                 d == DueAt(c, k)
                 b == s.begun
      <3>1. /\ l \in Int /\ d \in Nat /\ b \in Nat /\ now \in Nat /\ d <= now /\ now <= l /\ b <= l
            /\ Latest(c, k, r - 1)' = l + 1 /\ now' = now + 1
        BY <1>1, <1>2, <2>1, <2>2, <2>4
      <3> HIDE DEF l, d, b
      <3>2. d <= now' /\ now' <= Latest(c, k, r - 1)' /\ b <= Latest(c, k, r - 1)'
        BY <3>1
      <3> QED
        BY <3>2 DEF d, b
    <2>6. s.pc \notin {"waiting", "repeat", "due"}
      BY <1>8 DEF Asking, InTouch
    <2> QED
      BY <1>2, <1>4, <1>5, <1>8, <2>2, <2>5, <2>6 DEF Pace
  <1>9. CASE s.pc = "due" /\ s.request # 1
    <2>1. k - 1 \in 1 .. Len(Requests[c]) /\ r \in Int
      BY <1>1, <1>5, <1>9, SMTT(30)
    <2>2. Planned(c, k - 1) /\ now <= Latest(c, k - 1, r)
      BY <1>5, <1>6, <1>9 DEF Pace
    <2>3. AtWork(c)
      BY <1>9 DEF AtWork, Asleep, Ended
    <2>4. Latest(c, k - 1, r) \in Int /\ Latest(c, k - 1, r)' = Latest(c, k - 1, r) + 1
      BY <1>3, <2>1, <2>3
    <2>5. now' <= Latest(c, k - 1, r)'
      BY <1>1, <1>2, <2>2, <2>4
    <2>6. s.pc \notin {"waiting", "repeat"} \cup Asking
      BY <1>9 DEF Asking, InTouch
    <2> QED
      BY <1>2, <1>4, <1>5, <1>9, <2>2, <2>5, <2>6 DEF Pace
  <1>10. CASE s.pc \notin {"waiting", "repeat"} \cup Asking /\ ~(s.pc = "due" /\ s.request # 1)
    BY <1>2, <1>10 DEF Pace
  <1> QED
    BY <1>7, <1>8, <1>9, <1>10

\* A step of a client changes this client only, and takes no time.
LEMMA ClientLeavesOthers ==
    ASSUME IInv, NEW c \in Clients, Client(c) \/ InterruptClient(c)
    PROVE  /\ \A d \in Clients \ {c} : client'[d] = client[d] /\ busy'[d] = busy[d]
           /\ now' = now
  <1>1. busy \in [Clients -> Nat]
    BY DEF IInv, TypeOK
  <1>2. now' = now /\ (busy' = busy \/ busy' = [busy EXCEPT ![c] = 0])
    <2>1. CASE WaitTillRequest(c)
      BY <2>1 DEF WaitTillRequest
    <2>2. CASE ConnectFails(c) \/ RequestFails(c) \/ ReceiveFails(c) \/ InterruptClient(c)
      BY <2>2 DEF ConnectFails, RequestFails, ReceiveFails, InterruptClient, Ends
    <2>3. CASE HandleRepeatedRequest(c) \/ Finish(c) \/ Connect(c)
      BY <2>3 DEF HandleRepeatedRequest, Finish, Connect
    <2>4. CASE RequestFile(c) \/ Receive(c)
      BY <2>4 DEF RequestFile, Receive
    <2>5. CASE UseInfo(c)
      BY <2>5 DEF UseInfo
    <2>6. CASE UseChunk(c)
      BY <2>6 DEF UseChunk
    <2> QED
      BY <2>1, <2>2, <2>3, <2>4, <2>5, <2>6 DEF Client
  <1>3. \A d \in Clients \ {c} : busy'[d] = busy[d]
    BY <1>1, <1>2
  <1>4. \A d \in Clients \ {c} : client'[d] = client[d]
    <2>1. CASE client[c].pc # "corrupt"
      BY <2>1, ChecksumsStep
    <2>2. CASE client[c].pc = "corrupt"
      BY <2>2 DEF Client, WaitTillRequest, HandleRepeatedRequest, Finish, Connect, ConnectFails,
                  RequestFile, RequestFails, Receive, ReceiveFails, UseInfo, UseChunk,
                  InterruptClient, Ended
    <2> QED
      BY <2>1, <2>2
  <1> QED
    BY <1>2, <1>3, <1>4

\* What the server does takes no time either: only Tick does.
LEMMA ServerTakesNoTime ==
    ASSUME Server \/ InterruptServer \/ UNCHANGED vars
    PROVE  busy' = busy /\ now' = now
  <1>1. ASSUME NEW pc, ServerEnds(pc) PROVE busy' = busy /\ now' = now
    BY <1>1 DEF ServerEnds
  <1>2. CASE Server
    <2>1. CASE OpenFails \/ SendFails
      BY <1>1, <2>1 DEF OpenFails, SendFails
    <2>2. CASE Accept \/ ReceiveRequest \/ OpenFile
      BY <2>2 DEF Accept, ReceiveRequest, OpenFile
    <2>3. CASE ReadFile \/ GetRemainingData
      BY <2>3 DEF ReadFile, GetRemainingData
    <2>4. CASE SendInfo \/ SendChunk \/ SendEnd
      BY <2>4 DEF SendInfo, SendChunk, SendEnd
    <2> QED
      BY <1>2, <2>1, <2>2, <2>3, <2>4 DEF Server
  <1>3. CASE InterruptServer
    BY <1>1, <1>3 DEF InterruptServer
  <1>4. CASE UNCHANGED vars
    BY <1>4 DEF vars
  <1> QED
    BY <1>2, <1>3, <1>4

\* All clients keep their pace.
LEMMA PacingStep == IInv /\ Pacing /\ [Next]_vars => Pacing'
  <1> SUFFICES ASSUME IInv, Pacing, [Next]_vars PROVE Pacing'
    OBVIOUS
  <1>1. ASSUME NEW c \in Clients, client'[c] = client[c], busy'[c] = busy[c], now' = now
        PROVE  Pace(c)'
    <2>1. Pace(c)
      BY DEF Pacing
    <2> QED
      BY <1>1, <2>1 DEF Pace, Latest, Planned, DueAt, RepeatWait, TillNext
  <1>2. ASSUME NEW c \in Clients, Client(c) \/ InterruptClient(c) PROVE Pacing'
    <2>1. ASSUME NEW d \in Clients PROVE Pace(d)'
      <3>1. CASE d = c
        BY <1>2, <3>1, ClientPaces
      <3>2. CASE d # c
        <4>1. client'[d] = client[d] /\ busy'[d] = busy[d] /\ now' = now
          BY <1>2, <3>2, ClientLeavesOthers
        <4> QED
          BY <1>1, <4>1
      <3> QED
        BY <3>1, <3>2
    <2> QED
      BY <2>1 DEF Pacing
  <1>3. CASE Tick
    BY <1>3, TickPaces DEF Pacing
  <1>4. CASE Server \/ InterruptServer \/ UNCHANGED vars
    <2>1. client' = client
      BY <1>4, ClientsLeft
    <2>2. busy' = busy /\ now' = now
      BY <1>4, ServerTakesNoTime
    <2> QED
      BY <1>1, <2>1, <2>2 DEF Pacing
  <1> QED
    BY <1>2, <1>3, <1>4 DEF Next

\* All clients keep their pace.
LEMMA Paced == Spec => []Pacing
  <1>1. Init => Pacing
    BY DEF Init, Pacing, Pace, Asking, InTouch
  <1> QED
    BY <1>1, PacingStep, Invariance, PTL DEF Spec

\* No request is sent before its time, also after repetitions.
THEOREM NeverTooEarly == Spec => []NeverEarly
  <1>1. IInv /\ Pacing => NeverEarly
    <2> SUFFICES ASSUME IInv, Pacing, NEW c \in Clients, client[c].pc \in Asking
                 PROVE  (now + 1) * Options[c].speed
                          > Requests[c][client[c].request].at - Requests[c][1].at
      BY DEF NeverEarly, Asking, InTouch
    <2>1. PICK k : k = client[c].request
      OBVIOUS
    <2>2. k \in 1 .. Len(Requests[c]) /\ now \in Nat
      BY <2>1, PaceTypes
    <2>3. DueAt(c, k) <= now
      BY <2>1 DEF Pacing, Pace
    <2> QED
      BY <2>1, <2>2, <2>3, DueIs
  <1> QED
    BY <1>1, Paced, Invariance, PTL

\* What a client is late with a request, when it looks at the clock: it is
\* its work, and what it was late already and could not catch up.
LEMMA LateIs ==
    ASSUME IInv, Pacing, NEW c \in Clients, WaitTillRequest(c), client[c].request > 1
    PROVE  client'[c].tooLate <=
             busy[c] + Larger(client[c].tooLate - TillNext(c, client[c].request - 1), 0)
  <1> DEFINE s == client[c]
             k == s.request - 1
             count == Options[c].count
             late == s.tooLate
             d == DueAt(c, k)
             next == DueAt(c, k + 1)
             t == TillNext(c, k)
             w == RepeatWait(c, k, late)
             x == count * w
             v == busy[c]
  <1>1. /\ s \in ClientType /\ client \in [Clients -> ClientType] /\ now \in Nat
        /\ busy[c] \in Nat /\ late \in Nat /\ s.request \in Nat /\ Len(Requests[c]) \in Nat
        /\ s.pc = "due" /\ s.request \in 1 .. Len(Requests[c])
    BY PaceTypes DEF WaitTillRequest
  <1>2. k \in 1 .. Len(Requests[c]) /\ k < Len(Requests[c]) /\ k + 1 = s.request
    BY <1>1
  <1>3. client'[c].tooLate = Larger(now - next, 0)
    <2> DEFINE wait == RepeatWait(c, s.request, TooLate(c))
               pc == IF now < DueAt(c, s.request) THEN "waiting" ELSE "repeat"
               till == Larger(now, DueAt(c, s.request))
               l == TooLate(c)
    <2>1. client' = [client EXCEPT ![c] = [s EXCEPT !.pc = pc, !.until = till, !.tooLate = l,
                                                    !.repeatWait = wait, !.repeat = 0]]
      BY DEF WaitTillRequest
    <2>2. l = Larger(now - next, 0)
      BY <1>2 DEF TooLate
    <2> HIDE DEF wait, pc, till, l
    <2> QED
      BY <1>1, <2>1, <2>2 DEF ClientType
  <1>4. Planned(c, k) /\ now <= Latest(c, k, s.repeat)
    BY <1>1 DEF Pacing, Pace
  <1>5. s.repeat = count
    BY <1>1 DEF IInv, Place
  <1>6. now <= d + late + x + v
    BY <1>4, <1>5 DEF Planned, Latest
  <1>7. d \in Nat /\ next \in Nat /\ d + t <= next
    BY <1>2, TimesOf, DueIs
  <1>8. t \in Nat /\ x \in Nat /\ late + x <= Larger(t, late)
    BY <1>1, <1>2, WaitsAre
  <1> HIDE DEF x, w, t, d, next, v, late, k
  <1>9. Larger(now - next, 0) <= v + Larger(late - t, 0)
    <2>1. now \in Nat /\ v \in Nat /\ late \in Nat
      BY <1>1 DEF v, late
    <2> QED
      BY <1>6, <1>7, <1>8, <2>1 DEF Larger
  <1> QED
    BY <1>3, <1>9 DEF v, late, t, k

\* Repeating a request does not make the next one late.
THEOREM OnlyWorkDelays == Spec => LateOnlyByWork
  <1> DEFINE Lateness ==
        \A c \in Clients :
          /\ client[c].pc = "due" /\ client'[c].pc \in {"waiting", "repeat"}
          /\ client[c].request > 1
          => client'[c].tooLate <=
               busy[c] + Larger(client[c].tooLate - TillNext(c, client[c].request - 1), 0)
  <1>1. ASSUME IInv, Pacing, [Next]_vars PROVE [Lateness]_vars
    <2> SUFFICES ASSUME NEW c \in Clients, client[c].pc = "due",
                        client'[c].pc \in {"waiting", "repeat"}, client[c].request > 1
                 PROVE  client'[c].tooLate <=
                          busy[c] + Larger(client[c].tooLate - TillNext(c, client[c].request - 1), 0)
      OBVIOUS
    <2>1. client'[c] # client[c]
      OBVIOUS
    <2>2. ~(Server \/ Tick \/ InterruptServer \/ UNCHANGED vars)
      BY <2>1, ClientsLeft
    <2>3. ASSUME NEW d \in Clients, Client(d) \/ InterruptClient(d), d # c PROVE FALSE
      BY <1>1, <2>1, <2>3, ClientLeavesOthers
    <2>4. Client(c) \/ InterruptClient(c)
      BY <1>1, <2>2, <2>3 DEF Next
    <2>5. WaitTillRequest(c)
      <3>1. client[c] \in ClientType /\ client \in [Clients -> ClientType]
        BY <1>1 DEF IInv, TypeOK
      <3>2. CASE Finish(c) \/ InterruptClient(c)
        BY <3>1, <3>2 DEF Finish, InterruptClient, Ends, ClientType
      <3>3. CASE ~(Finish(c) \/ InterruptClient(c))
        BY <2>4, <3>3 DEF Client, HandleRepeatedRequest, Connect, ConnectFails, RequestFile,
                          RequestFails, Receive, ReceiveFails, UseInfo, UseChunk
      <3> QED
        BY <3>2, <3>3
    <2> QED
      BY <1>1, <2>5, LateIs
  <1>2. Spec => [][Lateness]_vars
    BY <1>1, Paced, Invariance, PTL DEF Spec
  <1> QED
    BY <1>2 DEF LateOnlyByWork
=============================================================================
