------------------------------- MODULE TCPProofs -------------------------------
(* What holds of TCP for any clients, sizes of messages, numbers of requests  *)
(* and of cut sends: its type invariant, that the destructor leaves no thread *)
(* of the server behind, and that a client that waits is answered in order.   *)
EXTENDS TCP, SequenceTheorems, TLAPS

-----------------------------------------------------------------------------
(* Type correctness.                                                          *)

LEMMA Empties == <<>> \in Seq(Units) /\ <<>> \in Seq(Clients) /\ Len(<<>>) = 0
  OBVIOUS

\* The connections a thread is not running for, or has not begun with.
LEMMA ClosedType ==
  /\ Closed \in Message /\ NotYet \in Message /\ Fresh \in Message
  /\ \A m \in {Closed, NotYet, Fresh} : Len(m.data) <= Size /\ m.pc \notin {"write", "sent"}
<1>1. 0 \in 0 .. Size
  BY SizeAssumption
<1>2. Closed \in Message /\ Closed.data = <<>> /\ Closed.pc = "closed"
  BY <1>1, Empties DEF Closed, Message
<1>3. NotYet \in Message /\ NotYet.data = <<>> /\ NotYet.pc = "none"
  BY <1>2 DEF NotYet, Message
<1>4. Fresh \in Message /\ Fresh.data = <<>> /\ Fresh.pc = "test"
  BY <1>2 DEF Fresh, Message
<1> QED BY <1>1, <1>2, <1>3, <1>4, Empties

LEMMA NewType ==
  /\ New \in Peer /\ [New EXCEPT !.pc = "closed"] \in Peer
  /\ New.asked = 0 /\ [New EXCEPT !.pc = "closed"].asked = 0
  /\ New.data = <<>> /\ [New EXCEPT !.pc = "closed"].data = <<>>
  BY Empties DEF New, Peer

\* A prefix of a sequence is one, and is as long as it says.
LEMMA Prefix ==
  ASSUME NEW S, NEW s \in Seq(S), NEW n \in 0 .. Len(s)
  PROVE  SubSeq(s, 1, n) \in Seq(S) /\ Len(SubSeq(s, 1, n)) = n
  BY SubSeqProperties

LEMMA DropType ==
  ASSUME NEW S, NEW s \in Seq(S), NEW n \in 0 .. Len(s)
  PROVE  Drop(s, n) \in Seq(S)
  BY SubSeqProperties DEF Drop

LEMMA LeastType ==
  ASSUME NEW a \in Nat, NEW b \in Nat
  PROVE  Least(a, b) \in Nat /\ Least(a, b) <= a /\ Least(a, b) <= b /\ Least(a, b) \in {a, b}
  BY DEF Least

LEMMA PieceType ==
  ASSUME NEW k \in Nat \ {0}
  PROVE  Piece(k) \in Seq(Units) /\ Len(Piece(k)) = Size
<1>1. ASSUME NEW i \in 1 .. Size PROVE (k - 1) * Size + i \in Units
  <2>1. k - 1 \in Nat /\ Size \in Nat
    BY SizeAssumption
  <2>2. (k - 1) * Size \in Nat
    BY <2>1
  <2> QED BY <2>2, SizeAssumption DEF Units
<1>2. Piece(k) \in [1 .. Size -> Units]
  BY <1>1 DEF Piece
<1> QED BY <1>2, SizeAssumption

\* How many messages answer the first k requests.
LEMMA EndsType ==
  ASSUME NEW c \in Clients
  PROVE  /\ Requests[c] \in Nat /\ Ends[c][0] = 0
         /\ \A k \in 0 .. Requests[c] : Ends[c][k] \in Nat
         /\ \A j, k \in 0 .. Requests[c] : j < k => Ends[c][j] < Ends[c][k]
  BY AnswersAssumption, BoundsAssumption

LEMMA RequestType ==
  ASSUME NEW c \in Clients, NEW k \in 1 .. Requests[c]
  PROVE  Request(c, k) \in Seq(Units) /\ Len(Request(c, k)) = Size
<1>1. Requests[c] \in Nat /\ k - 1 \in 0 .. Requests[c]
  BY EndsType
<1>2. Ends[c][k - 1] + 1 \in Nat \ {0}
  <2>1. Ends[c][k - 1] \in Nat
    BY <1>1, EndsType
  <2> QED BY <2>1
<1> QED BY <1>2, PieceType DEF Request

\* What is received is cut to the size of a message.
LEMMA TakenType ==
  ASSUME NEW s \in Seq(Units)
  PROVE  /\ SubSeq(s, 1, Least(Size, Len(s))) \in Seq(Units)
         /\ Len(SubSeq(s, 1, Least(Size, Len(s)))) <= Size
<1>1. Len(s) \in Nat /\ Size \in Nat
  BY SizeAssumption
<1>2. Least(Size, Len(s)) \in 0 .. Len(s) /\ Least(Size, Len(s)) <= Size
  BY <1>1 DEF Least
<1> QED BY <1>2, Prefix

\* What the parts of the state are, taken apart.
LEMMA ConnType ==
  ASSUME TypeOK, NEW c \in Clients
  PROVE  /\ conn[c] \in Message /\ conn[c].data \in Seq(Units) /\ conn[c].sent \in 0 .. Size
         /\ Len(conn[c].data) \in Nat /\ Len(conn[c].data) <= Size
         /\ conn[c].pc \in {"write", "sent"} => Len(conn[c].data) = Size
         /\ conn[c].wrote \in Nat
         /\ up[c] \in Seq(Units) /\ Len(up[c]) \in Nat
         /\ down[c] \in Seq(Units) /\ Len(down[c]) \in Nat
         /\ Size \in Nat /\ Size > 0
<1>1. conn[c] \in Message /\ up[c] \in Seq(Units) /\ down[c] \in Seq(Units)
  BY DEF TypeOK
<1>2. conn[c].data \in Seq(Units) /\ conn[c].sent \in 0 .. Size /\ conn[c].wrote \in Nat
  BY <1>1 DEF Message
<1>3. Len(conn[c].data) <= Size /\ (conn[c].pc \in {"write", "sent"} => Len(conn[c].data) = Size)
  BY DEF TypeOK
<1> QED BY <1>1, <1>2, <1>3, SizeAssumption

LEMMA ClientType ==
  ASSUME TypeOK, NEW c \in Clients
  PROVE  /\ client[c] \in Peer /\ client[c].data \in Seq(Units)
         /\ client[c].heard \in Nat /\ client[c].asked \in 0 .. Requests[c]
         /\ client[c].right \in BOOLEAN /\ client[c].excused \in BOOLEAN
         /\ Len(client[c].data) \in Nat /\ Len(client[c].data) <= Size
<1>1. client[c] \in Peer /\ Len(client[c].data) <= Size /\ client[c].asked <= Requests[c]
  BY DEF TypeOK
<1>2. /\ client[c].data \in Seq(Units) /\ client[c].asked \in Nat /\ client[c].heard \in Nat
      /\ client[c].right \in BOOLEAN /\ client[c].excused \in BOOLEAN
  BY <1>1 DEF Peer
<1> QED BY <1>1, <1>2, EndsType

LEMMA DueType ==
  ASSUME TypeOK, NEW c \in Clients
  PROVE  Due(c) \in Nat /\ Awaits(c) \in BOOLEAN
  BY ClientType, EndsType DEF Due, Awaits

LEMMA WrittenType ==
  ASSUME TypeOK, NEW c \in Clients, conn[c].pc = "write", NEW n \in 1 .. Size
  PROVE  Written(c, n) \in Seq(Units)
<1>1. ASSUME NEW i \in 1 .. n, conn[c].sent + i <= Size
      PROVE  conn[c].data[conn[c].sent + i] \in Units
  <2>1. conn[c].sent + i \in 1 .. Len(conn[c].data)
    BY <1>1, ConnType
  <2> QED BY <2>1, ConnType, ElementOfSeq
<1>2. Written(c, n) \in [1 .. n -> Units]
  BY <1>1 DEF Written, Units
<1>3. n \in Nat
  BY SizeAssumption
<1> QED BY <1>2, <1>3

-----------------------------------------------------------------------------
\* The constructor has not come to its end, nor the destructor to its beginning.
Building == main.pc = "build" => built \in 0 .. 2 /\ main.at = 0

LEMMA InitTypeOK == Init => TypeOK
<1> SUFFICES ASSUME Init PROVE TypeOK
  OBVIOUS
<1>1. conn \in [Clients -> Message] /\ client \in [Clients -> Peer]
  BY ClosedType, NewType DEF Init
<1>2. ASSUME NEW c \in Clients
      PROVE  /\ Len(conn[c].data) <= Size /\ Len(client[c].data) <= Size
             /\ conn[c].pc \notin {"write", "sent"} /\ client[c].asked <= Requests[c]
  <2>1. conn[c] = NotYet /\ client[c] = New
    BY DEF Init
  <2> QED BY <2>1, ClosedType, NewType, Empties, SizeAssumption, EndsType
<1>3. 0 \in 0 .. Len(connections) /\ 0 \in 0 .. 3 /\ 0 \in 0 .. MaxCuts
  BY Empties, BoundsAssumption DEF Init
<1> QED BY <1>1, <1>2, <1>3, Empties DEF Init, TypeOK

LEMMA MainTypeOK ==
  ASSUME TypeOK, Building, MainStep \/ Destroy
  PROVE  TypeOK'
<1>1. CASE Build
  <2>1. built \in 0 .. 2 /\ built' = built + 1
    BY <1>1 DEF Build, Building, TypeOK
  <2>2. main.pc = "build" /\ main.at \in 0 .. Len(connections)
    BY <1>1 DEF Build, TypeOK
  <2>3. built' \in 0 .. 3 /\ running' \in BOOLEAN /\ connections' \in Seq(Clients)
    BY <1>1, <2>1, Empties DEF Build, TypeOK
  <2>4. main' \in [pc : {"build", "idle"}, at : {main.at}]
    BY <1>1 DEF Build, TypeOK
  <2>5. main.at \in 0 .. Len(connections')
    BY <1>1, <2>2, Empties DEF Build, Building
  <2> QED BY <1>1, <2>3, <2>4, <2>5 DEF Build, TypeOK
<1>2. CASE Destroy
  BY <1>2 DEF Destroy, TypeOK
<1>3. ASSUME NEW i \in Nat \ {0}, Delete(i),
             UNCHANGED <<built, running, connections, acceptor, early, backlog, client, up, down, cuts>>
      PROVE  TypeOK'
  <2>1. CASE i > Len(connections)
    <3>1. main' \in [pc : {"gone"}, at : 0 .. Len(connections)]
      BY <1>3, <2>1 DEF Delete, TypeOK
    <3> QED BY <1>3, <2>1, <3>1 DEF Delete, TypeOK
  <2>2. CASE ~ (i > Len(connections))
    <3>1. connections[i] \in Clients /\ i \in 0 .. Len(connections)
      BY <2>2, <1>3 DEF TypeOK
    <3>2. main' \in [pc : {"delete"}, at : 0 .. Len(connections)]
      BY <1>3, <2>2, <3>1 DEF Delete
    <3> DEFINE m == [conn[connections[i]] EXCEPT !.run = FALSE]
    <3>3. conn' = [conn EXCEPT ![connections[i]] = m]
      BY <1>3, <2>2 DEF Delete
    <3>4. m \in Message /\ m.data = conn[connections[i]].data /\ m.pc = conn[connections[i]].pc
      BY <3>1, ConnType DEF Message
    <3> HIDE DEF m
    <3>5. conn' \in [Clients -> Message]
      BY <3>1, <3>3, <3>4 DEF TypeOK
    <3>6. \A c \in Clients : conn'[c].data = conn[c].data /\ conn'[c].pc = conn[c].pc
      BY <3>1, <3>3, <3>4 DEF TypeOK
    <3> QED BY <1>3, <3>2, <3>5, <3>6 DEF TypeOK
  <2> QED BY <2>1, <2>2
<1>4. CASE JoinAcceptor
  BY <1>4, <1>3 DEF JoinAcceptor
<1>5. CASE JoinConnection
  <2>1. main.at + 1 \in Nat \ {0}
    BY DEF TypeOK
  <2> QED BY <1>5, <1>3, <2>1 DEF JoinConnection
<1> QED BY <1>1, <1>2, <1>4, <1>5 DEF MainStep

LEMMA CrashTypeOK ==
  ASSUME TypeOK, Crash, early' \in BOOLEAN
  PROVE  TypeOK'
<1>1. conn' \in [Clients -> Message] /\ \A c \in Clients : conn'[c] \in {NotYet, Closed}
  BY ClosedType DEF Crash
<1>2. \A c \in Clients : Len(conn'[c].data) <= Size /\ conn'[c].pc \notin {"write", "sent"}
  BY <1>1, ClosedType
<1>3. main' \in [pc : {"dead"}, at : 0 .. Len(connections)]
  BY DEF Crash, TypeOK
<1> QED BY <1>1, <1>2, <1>3 DEF Crash, TypeOK

LEMMA AcceptorTypeOK ==
  ASSUME TypeOK, AcceptorStep \/ TimesOut("stray") \/ AcceptKills
  PROVE  TypeOK'
<1>1. CASE Accept
  <2>1. Head(backlog) \in Clients /\ Tail(backlog) \in Seq(Clients)
    BY <1>1 DEF Accept, TypeOK
  <2>2. connections' \in Seq(Clients) /\ Len(connections') = Len(connections) + 1
    BY <1>1, <2>1 DEF Accept, TypeOK
  <2>3. main' \in [pc : {"build", "idle", "join", "delete", "gone", "dead"}, at : 0 .. Len(connections')]
    BY <1>1, <2>2 DEF Accept, TypeOK
  <2>4. conn' \in [Clients -> Message] /\ \A c \in Clients : conn'[c] \in {conn[c], Fresh}
    BY <1>1, <2>1, ClosedType DEF Accept, TypeOK
  <2>5. \A c \in Clients : Len(conn'[c].data) <= Size /\ (conn'[c].pc \in {"write", "sent"} => Len(conn'[c].data) = Size)
    BY <2>4, ClosedType DEF TypeOK
  <2> QED BY <1>1, <2>1, <2>2, <2>3, <2>4, <2>5 DEF Accept, TypeOK
<1>2. CASE AcceptKills
  BY <1>2, CrashTypeOK DEF AcceptKills
<1>3. CASE Listen \/ TestRunning \/ TimesOut("select") \/ TimesOut("stray")
  BY <1>3 DEF Listen, TestRunning, TimesOut, TypeOK
<1> QED BY <1>1, <1>2, <1>3 DEF AcceptorStep

-----------------------------------------------------------------------------
\* A step of the thread of a connection gives it a new record.
LEMMA ConnChange ==
  ASSUME TypeOK, NEW c \in Clients, NEW m \in Message, conn' = [conn EXCEPT ![c] = m],
         Len(m.data) <= Size, m.pc \in {"write", "sent"} => Len(m.data) = Size,
         up' \in [Clients -> Seq(Units)], UNCHANGED <<server, backlog, client, down, cuts>>
  PROVE  TypeOK'
<1>1. conn' \in [Clients -> Message]
  BY DEF TypeOK
<1>2. \A d \in Clients : Len(conn'[d].data) <= Size /\ (conn'[d].pc \in {"write", "sent"} => Len(conn'[d].data) = Size)
  BY DEF TypeOK
<1> QED BY <1>1, <1>2 DEF TypeOK, server

LEMMA GoesTypeOK ==
  ASSUME TypeOK, NEW c \in Clients, NEW pc \in {"test", "read", "write"}, Goes(c, pc),
         pc = "write" => Len(conn[c].data) = Size,
         UNCHANGED <<server, backlog, client, up, down, cuts>>
  PROVE  TypeOK'
<1> DEFINE m == [conn[c] EXCEPT !.pc = pc]
<1>1. conn' = [conn EXCEPT ![c] = m]
  BY DEF Goes
<1>2. m \in Message /\ m.data = conn[c].data /\ m.pc = pc
  BY ConnType DEF Message
<1>3. up' \in [Clients -> Seq(Units)]
  BY DEF TypeOK
<1> QED BY <1>1, <1>2, <1>3, ConnType, ConnChange

LEMMA ClosesTypeOK ==
  ASSUME TypeOK, NEW c \in Clients, Closes(c), UNCHANGED <<server, backlog, client, down, cuts>>
  PROVE  TypeOK'
<1>1. up' \in [Clients -> Seq(Units)]
  BY Empties DEF Closes, TypeOK
<1> QED BY <1>1, ClosedType, ConnChange DEF Closes

LEMMA RecvTypeOK ==
  ASSUME TypeOK, NEW c \in Clients, Recv(c)
  PROVE  TypeOK'
<1>1. PICK n \in 1 .. Least(Size, Len(up[c])) :
        LET data == conn[c].data \o SubSeq(up[c], 1, n) IN
          \/ /\ conn' = [conn EXCEPT ![c].pc = "received", ![c].data = SubSeq(data, 1, Least(Size, Len(data)))]
             /\ up' = [up EXCEPT ![c] = Drop(@, n)]
             /\ UNCHANGED <<server, backlog, client, down, cuts>>
          \/ /\ Len(data) > Size
             /\ UNCHANGED early /\ Crash
  BY DEF Recv
<1> DEFINE data == conn[c].data \o SubSeq(up[c], 1, n)
<1> DEFINE m == [conn[c] EXCEPT !.pc = "received", !.data = SubSeq(data, 1, Least(Size, Len(data)))]
<1>2. n \in 0 .. Len(up[c])
  BY ConnType DEF Least
<1>3. data \in Seq(Units)
  <2>1. SubSeq(up[c], 1, n) \in Seq(Units)
    BY <1>2, ConnType, Prefix
  <2> QED BY <2>1, ConnType
<1>4. CASE UNCHANGED early /\ Crash
  BY <1>4, CrashTypeOK DEF TypeOK
<1>5. CASE /\ conn' = [conn EXCEPT ![c] = m]
           /\ up' = [up EXCEPT ![c] = Drop(@, n)]
           /\ UNCHANGED <<server, backlog, client, down, cuts>>
  <2> HIDE DEF data
  <2>1. m \in Message /\ Len(m.data) <= Size /\ m.pc \notin {"write", "sent"}
    BY <1>3, ConnType, TakenType DEF Message
  <2>2. up' \in [Clients -> Seq(Units)]
    BY <1>5, <1>2, ConnType, DropType DEF TypeOK
  <2> QED BY <1>5, <2>1, <2>2, ConnChange
<1> QED BY <1>1, <1>4, <1>5

LEMMA SendTypeOK ==
  ASSUME TypeOK, NEW c \in Clients, Send(c)
  PROVE  TypeOK'
<1>1. PICK n \in 1 .. Size :
        /\ n = Size \/ cuts < MaxCuts
        /\ cuts' = IF n = Size THEN cuts ELSE cuts + 1
        /\ down' = IF ClientClosed(c) THEN down ELSE [down EXCEPT ![c] = @ \o Written(c, n)]
        /\ conn' = [conn EXCEPT ![c].pc = "sent", ![c].sent = Least(@ + n, Size)]
        /\ client' = [client EXCEPT ![c].excused = @ \/ n < Size]
  BY DEF Send
<1>2. conn' \in [Clients -> Message] /\ \A d \in Clients : conn'[d].data = conn[d].data
  <2> DEFINE m == [conn[c] EXCEPT !.pc = "sent", !.sent = Least(conn[c].sent + n, Size)]
  <2>1. Least(conn[c].sent + n, Size) \in 0 .. Size
    BY ConnType DEF Least
  <2>2. m \in Message /\ m.data = conn[c].data
    BY <2>1, ConnType DEF Message
  <2>3. conn' = [conn EXCEPT ![c] = m]
    BY <1>1
  <2> HIDE DEF m
  <2> QED BY <2>2, <2>3 DEF TypeOK
<1>3. \A d \in Clients : d = c \/ conn'[d] = conn[d]
  BY <1>1 DEF TypeOK
<1>4. down' \in [Clients -> Seq(Units)]
  <2>1. Written(c, n) \in Seq(Units)
    BY WrittenType DEF Send
  <2>2. down[c] \o Written(c, n) \in Seq(Units)
    BY <2>1, ConnType
  <2> QED BY <1>1, <2>2 DEF TypeOK
<1>5. cuts' \in 0 .. MaxCuts
  BY <1>1, BoundsAssumption DEF TypeOK
<1>6. /\ client' \in [Clients -> Peer]
      /\ \A d \in Clients : client'[d].data = client[d].data /\ client'[d].asked = client[d].asked
  <2> DEFINE m == [client[c] EXCEPT !.excused = @ \/ n < Size]
  <2>1. m \in Peer /\ m.data = client[c].data /\ m.asked = client[c].asked
    <3>1. (client[c].excused \/ n < Size) \in BOOLEAN
      OBVIOUS
    <3> QED BY <3>1, ClientType DEF Peer
  <2>2. client' = [client EXCEPT ![c] = m] /\ client \in [Clients -> Peer]
    BY <1>1 DEF TypeOK
  <2> HIDE DEF m
  <2> QED BY <2>1, <2>2
<1>7. \A d \in Clients : conn'[d].pc \in {"write", "sent"} => Len(conn'[d].data) = Size
  BY <1>2, <1>3 DEF Send, TypeOK
<1> QED BY <1>2, <1>4, <1>5, <1>6, <1>7 DEF Send, server, TypeOK

LEMMA ConnectionTypeOK ==
  ASSUME TypeOK, NEW c \in Clients, ConnectionStep(c)
  PROVE  TypeOK'
<1>1. up \in [Clients -> Seq(Units)]
  BY DEF TypeOK
<1>2. CASE Loop(c)
  <2>1. CASE conn[c].run
    <3> DEFINE m == [conn[c] EXCEPT !.pc = "read", !.data = <<>>]
    <3>1. conn' = [conn EXCEPT ![c] = m] /\ UNCHANGED <<server, backlog, client, up, down, cuts>>
      BY <1>2, <2>1 DEF Loop
    <3>2. m \in Message /\ m.data = <<>> /\ m.pc \notin {"write", "sent"}
      BY ConnType, Empties DEF Message
    <3> HIDE DEF m
    <3>3. Len(m.data) <= Size
      BY <3>2, Empties, SizeAssumption
    <3> QED BY <1>1, <3>1, <3>2, <3>3, ConnChange
  <2>2. CASE ~ conn[c].run
    BY <1>2, <2>2, ClosesTypeOK DEF Loop
  <2> QED BY <2>1, <2>2
<1>3. CASE RecvFails(c) \/ Throws(c) \/ SendFails(c)
  BY <1>3, ClosesTypeOK DEF RecvFails, Throws, SendFails
<1>4. CASE ReadMore(c)
  <2>1. ~ (Len(conn[c].data) < Size) => Len(conn[c].data) = Size
    BY ConnType
  <2> QED BY <1>4, <2>1, GoesTypeOK DEF ReadMore
<1>5. CASE WriteMore(c)
  <2>1. CASE Closes(c)
    BY <1>5, <2>1, ClosesTypeOK DEF WriteMore
  <2>2. CASE Goes(c, "write") /\ UNCHANGED up
    BY <1>5, <2>2, ConnType, GoesTypeOK DEF WriteMore
  <2>3. CASE /\ UNCHANGED up
             /\ conn' = [conn EXCEPT ![c].pc = "write", ![c].sent = 0, ![c].wrote = @ + 1,
                                     ![c].data = Piece(conn[c].wrote + 2)]
    <3> DEFINE data == Piece(conn[c].wrote + 2)
    <3> DEFINE m == [conn[c] EXCEPT !.pc = "write", !.sent = 0, !.wrote = @ + 1, !.data = data]
    <3>1. conn' = [conn EXCEPT ![c] = m]
      BY <2>3
    <3>2. 0 \in 0 .. Size /\ conn[c].wrote + 1 \in Nat /\ data \in Seq(Units) /\ Len(data) = Size
      BY ConnType, PieceType
    <3> HIDE DEF data
    <3>3. m \in Message /\ m.data = data
      BY <3>2, ConnType DEF Message
    <3> HIDE DEF m
    <3>4. /\ up' \in [Clients -> Seq(Units)] /\ Len(m.data) = Size /\ Len(m.data) <= Size
          /\ UNCHANGED <<server, backlog, client, down, cuts>>
      BY <1>1, <1>5, <2>3, <3>2, <3>3, SizeAssumption DEF WriteMore
    <3> QED BY <3>1, <3>3, <3>4, ConnChange
  <2>4. CASE /\ UNCHANGED up
             /\ conn' = [conn EXCEPT ![c].pc = "test", ![c].sent = 0, ![c].wrote = @ + 1]
    <3> DEFINE m == [conn[c] EXCEPT !.pc = "test", !.sent = 0, !.wrote = @ + 1]
    <3>1. conn' = [conn EXCEPT ![c] = m]
      BY <2>4
    <3>2. 0 \in 0 .. Size /\ conn[c].wrote + 1 \in Nat
      BY ConnType
    <3>3. m \in Message /\ m.data = conn[c].data /\ m.pc \notin {"write", "sent"}
      BY <3>2, ConnType DEF Message
    <3> HIDE DEF m
    <3> QED BY <3>3, <1>1, <1>5, <2>4, <3>1, ConnType, ConnChange DEF WriteMore
  <2> QED BY <1>5, <2>1, <2>2, <2>3, <2>4 DEF WriteMore
<1> QED BY <1>2, <1>3, <1>4, <1>5, RecvTypeOK, SendTypeOK DEF ConnectionStep

-----------------------------------------------------------------------------
\* A step of a client gives it a new record.
LEMMA ClientChange ==
  ASSUME TypeOK, NEW c \in Clients, NEW m \in Peer, client' = [client EXCEPT ![c] = m],
         Len(m.data) <= Size, m.asked <= Requests[c],
         up' \in [Clients -> Seq(Units)], down' \in [Clients -> Seq(Units)],
         backlog' \in Seq(Clients), cuts' \in 0 .. MaxCuts, UNCHANGED <<server, conn>>
  PROVE  TypeOK'
<1>1. /\ client' \in [Clients -> Peer]
      /\ \A d \in Clients : Len(client'[d].data) <= Size /\ client'[d].asked <= Requests[d]
  BY DEF TypeOK
<1> QED BY <1>1 DEF TypeOK, server

LEMMA AskTypeOK ==
  ASSUME TypeOK, NEW c \in Clients, Ask(c)
  PROVE  TypeOK'
<1>1. PICK n \in 1 .. Size :
        /\ n = Size \/ cuts < MaxCuts
        /\ cuts' = IF n = Size THEN cuts ELSE cuts + 1
        /\ up' = IF ServerClosed(c) THEN up
                 ELSE [up EXCEPT ![c] = @ \o SubSeq(Request(c, client[c].asked + 1), 1, n)]
        /\ client' = [client EXCEPT ![c].asked = @ + 1, ![c].excused = @ \/ Awaits(c) \/ n < Size]
  BY DEF Ask
<1> DEFINE m == [client[c] EXCEPT !.asked = @ + 1, !.excused = @ \/ Awaits(c) \/ n < Size]
<1>2. client' = [client EXCEPT ![c] = m]
  BY <1>1
<1>3. m \in Peer /\ m.data = client[c].data /\ m.asked = client[c].asked + 1
  <2>1. client[c].asked + 1 \in Nat /\ (client[c].excused \/ Awaits(c) \/ n < Size) \in BOOLEAN
    BY ClientType
  <2> QED BY <2>1, ClientType DEF Peer
<1>4. cuts' \in 0 .. MaxCuts
  BY <1>1, BoundsAssumption DEF TypeOK
<1>5. client[c].asked + 1 \in 1 .. Requests[c]
  BY ClientType, EndsType DEF Ask
<1>6. up' \in [Clients -> Seq(Units)]
  <2> DEFINE request == Request(c, client[c].asked + 1)
  <2>1. request \in Seq(Units) /\ Len(request) = Size
    BY <1>5, RequestType
  <2> HIDE DEF request
  <2>2. n \in 0 .. Len(request)
    BY <2>1, SizeAssumption
  <2>3. SubSeq(request, 1, n) \in Seq(Units)
    BY <2>1, <2>2, Prefix
  <2>4. up[c] \o SubSeq(request, 1, n) \in Seq(Units)
    BY <2>3, ConnType
  <2> QED BY <1>1, <2>4 DEF TypeOK, request
<1>7. UNCHANGED <<server, backlog, conn, down>> /\ backlog \in Seq(Clients) /\ down \in [Clients -> Seq(Units)]
  BY DEF Ask, TypeOK
<1>8. m.asked <= Requests[c]
  BY <1>3, <1>5
<1> HIDE DEF m
<1> QED BY <1>2, <1>3, <1>4, <1>6, <1>7, <1>8, ClientType, ClientChange

\* What a recv leaves of a client and of what is on its way to it.
LEMMA RecvAnswerChange ==
  ASSUME TypeOK, NEW c \in Clients, RecvAnswer(c)
  PROVE  \E n \in 1 .. Least(Size, Len(down[c])) :
           LET data  == client[c].data \o SubSeq(down[c], 1, n)
               taken == SubSeq(data, 1, Least(Size, Len(data))) IN
             /\ client' = [client EXCEPT ![c] =
                             [client[c] EXCEPT !.pc = "received", !.data = taken,
                                !.excused = @ \/ (Len(data) < Size /\ client[c].heard + 1 < Due(c))]]
             /\ down' = [down EXCEPT ![c] = Drop(down[c], n)]
             /\ data \in Seq(Units) /\ taken \in Seq(Units) /\ Len(taken) <= Size
             /\ n \in 0 .. Len(down[c]) /\ down[c] # <<>>
<1>1. PICK n \in 1 .. Least(Size, Len(down[c])) :
        LET data == client[c].data \o SubSeq(down[c], 1, n) IN
          /\ client' = [client EXCEPT
               ![c].pc = "received", ![c].data = SubSeq(data, 1, Least(Size, Len(data))),
               ![c].excused = @ \/ (Len(data) < Size /\ client[c].heard + 1 < Due(c))]
          /\ down' = [down EXCEPT ![c] = Drop(@, n)]
  BY DEF RecvAnswer
<1> DEFINE data == client[c].data \o SubSeq(down[c], 1, n)
<1>2. n \in 0 .. Len(down[c]) /\ down[c] # <<>>
  BY ConnType, Empties DEF Least
<1>3. data \in Seq(Units)
  <2>1. SubSeq(down[c], 1, n) \in Seq(Units)
    BY <1>2, ConnType, Prefix
  <2> QED BY <2>1, ClientType
<1> HIDE DEF data
<1>4. /\ SubSeq(data, 1, Least(Size, Len(data))) \in Seq(Units)
      /\ Len(SubSeq(data, 1, Least(Size, Len(data)))) <= Size
  BY <1>3, TakenType
<1> QED BY <1>1, <1>2, <1>3, <1>4 DEF data

LEMMA RecvAnswerTypeOK ==
  ASSUME TypeOK, NEW c \in Clients, RecvAnswer(c)
  PROVE  TypeOK'
<1>1. PICK n \in 0 .. Len(down[c]), taken \in Seq(Units), e \in BOOLEAN :
        /\ Len(taken) <= Size
        /\ client' = [client EXCEPT ![c] = [client[c] EXCEPT !.pc = "received", !.data = taken, !.excused = e]]
        /\ down' = [down EXCEPT ![c] = Drop(down[c], n)]
  <2>1. PICK n \in 1 .. Least(Size, Len(down[c])) :
           LET data  == client[c].data \o SubSeq(down[c], 1, n)
               taken == SubSeq(data, 1, Least(Size, Len(data))) IN
             /\ client' = [client EXCEPT ![c] =
                             [client[c] EXCEPT !.pc = "received", !.data = taken,
                                !.excused = @ \/ (Len(data) < Size /\ client[c].heard + 1 < Due(c))]]
             /\ down' = [down EXCEPT ![c] = Drop(down[c], n)]
             /\ data \in Seq(Units) /\ taken \in Seq(Units) /\ Len(taken) <= Size
             /\ n \in 0 .. Len(down[c]) /\ down[c] # <<>>
    BY RecvAnswerChange
  <2> DEFINE data  == client[c].data \o SubSeq(down[c], 1, n)
  <2> DEFINE taken == SubSeq(data, 1, Least(Size, Len(data)))
  <2> DEFINE e == client[c].excused \/ (Len(data) < Size /\ client[c].heard + 1 < Due(c))
  <2>2. e \in BOOLEAN
    OBVIOUS
  <2>3. client' = [client EXCEPT ![c] = [client[c] EXCEPT !.pc = "received", !.data = taken, !.excused = e]]
    BY <2>1
  <2>4. /\ n \in 0 .. Len(down[c]) /\ taken \in Seq(Units) /\ Len(taken) <= Size
        /\ down' = [down EXCEPT ![c] = Drop(down[c], n)]
    BY <2>1
  <2> HIDE DEF taken, e, data
  <2> QED BY <2>2, <2>3, <2>4
<1> DEFINE m == [client[c] EXCEPT !.pc = "received", !.data = taken, !.excused = e]
<1>2. client' = [client EXCEPT ![c] = m]
  BY <1>1
<1>3. down' \in [Clients -> Seq(Units)]
  BY <1>1, ConnType, DropType DEF TypeOK
<1>4. m \in Peer /\ Len(m.data) <= Size /\ m.asked = client[c].asked
  BY <1>1, ClientType DEF Peer
<1>5. /\ UNCHANGED <<server, backlog, conn, up, cuts>>
      /\ backlog \in Seq(Clients) /\ up \in [Clients -> Seq(Units)] /\ cuts \in 0 .. MaxCuts
  BY DEF RecvAnswer, TypeOK
<1>6. m.asked <= Requests[c]
  BY <1>4, ClientType, EndsType
<1> HIDE DEF m
<1> QED BY <1>2, <1>3, <1>4, <1>5, <1>6, ClientChange

LEMMA ClientTypeOK ==
  ASSUME TypeOK, NEW c \in Clients, ClientStep(c)
  PROVE  TypeOK'
<1>1. /\ up \in [Clients -> Seq(Units)] /\ down \in [Clients -> Seq(Units)]
      /\ backlog \in Seq(Clients) /\ cuts \in 0 .. MaxCuts /\ client[c].asked <= Requests[c]
  BY DEF TypeOK
<1>2. ASSUME NEW pc \in {"ready", "failed"}, ClientGoes(c, pc),
             backlog' \in Seq(Clients), UNCHANGED <<server, conn, up, down, cuts>>
      PROVE  TypeOK'
  <2> DEFINE m == [client[c] EXCEPT !.pc = pc]
  <2>1. client' = [client EXCEPT ![c] = m]
    BY <1>2 DEF ClientGoes
  <2>2. m \in Peer /\ m.data = client[c].data /\ m.asked = client[c].asked
    BY ClientType DEF Peer
  <2> HIDE DEF m
  <2> QED BY <1>1, <1>2, <2>1, <2>2, ClientType, ClientChange
<1>3. CASE Connect(c) \/ ConnectFails(c)
  <2>1. Append(backlog, c) \in Seq(Clients)
    BY <1>1
  <2> QED BY <1>1, <1>2, <1>3, <2>1 DEF Connect, ConnectFails
<1>4. CASE BeginRead(c)
  <2> DEFINE m == [client[c] EXCEPT !.pc = "read", !.data = <<>>]
  <2>1. client' = [client EXCEPT ![c] = m] /\ UNCHANGED <<server, backlog, conn, up, down, cuts>>
    BY <1>4 DEF BeginRead
  <2>2. m \in Peer /\ m.data = <<>> /\ m.asked = client[c].asked
    BY ClientType, Empties DEF Peer
  <2> HIDE DEF m
  <2>3. Len(m.data) <= Size
    BY <2>2, Empties, SizeAssumption
  <2> QED BY <1>1, <2>1, <2>2, <2>3, ClientChange
<1>5. ASSUME Leave(c) PROVE TypeOK'
  <2>1. down' \in [Clients -> Seq(Units)]
    BY <1>1, <1>5, Empties DEF Leave
  <2> DEFINE m == [New EXCEPT !.pc = "closed"]
  <2>2. client' = [client EXCEPT ![c] = m] /\ UNCHANGED <<server, backlog, conn, up, cuts>>
    BY <1>5 DEF Leave
  <2>3. m \in Peer /\ m.data = <<>> /\ m.asked = 0
    BY NewType
  <2> HIDE DEF m
  <2>4. Len(m.data) <= Size /\ m.asked <= Requests[c]
    BY <2>3, Empties, SizeAssumption, EndsType
  <2> QED BY <1>1, <2>1, <2>2, <2>3, <2>4, ClientChange
<1>6. CASE ReadOn(c)
  <2>1. UNCHANGED <<server, backlog, conn, up, down, cuts>>
    BY <1>6 DEF ReadOn
  <2>2. CASE Len(client[c].data) < Size
    <3> DEFINE m == [client[c] EXCEPT !.pc = "read"]
    <3>1. client' = [client EXCEPT ![c] = m]
      BY <1>6, <2>2 DEF ReadOn
    <3>2. m \in Peer /\ m.data = client[c].data /\ m.asked = client[c].asked
      BY ClientType DEF Peer
    <3> HIDE DEF m
    <3> QED BY <1>1, <2>1, <3>1, <3>2, ClientType, ClientChange
  <2>3. CASE ~ (Len(client[c].data) < Size)
    <3> DEFINE r == client[c].right /\ client[c].data = Piece(client[c].heard + 1)
    <3> DEFINE m == [client[c] EXCEPT !.pc = "ready", !.data = <<>>, !.heard = @ + 1, !.right = r]
    <3>1. client' = [client EXCEPT ![c] = m]
      BY <1>6, <2>3 DEF ReadOn
    <3>2. m \in Peer /\ m.data = <<>> /\ m.asked = client[c].asked
      <4>1. client[c].heard + 1 \in Nat /\ r \in BOOLEAN
        BY ClientType
      <4> HIDE DEF r
      <4> QED BY <4>1, ClientType, Empties DEF Peer
    <3> HIDE DEF m
    <3>3. Len(m.data) <= Size
      BY <3>2, Empties, SizeAssumption
    <3> QED BY <1>1, <2>1, <3>1, <3>2, <3>3, ClientChange
  <2> QED BY <2>2, <2>3
<1> QED BY <1>3, <1>4, <1>5, <1>6, AskTypeOK, RecvAnswerTypeOK DEF ClientStep, ReadStep, ClientThrows

LEMMA StepTypeOK == TypeOK /\ Building /\ [Next]_vars => TypeOK'
<1> SUFFICES ASSUME TypeOK, Building, [Next]_vars PROVE TypeOK'
  OBVIOUS
<1>1. CASE Over \/ UNCHANGED vars
  BY <1>1 DEF Over, vars, server, TypeOK
<1> QED BY <1>1, MainTypeOK, AcceptorTypeOK, ConnectionTypeOK, ClientTypeOK DEF Next

-----------------------------------------------------------------------------
(* The threads of the server.                                                 *)

Running(c) == conn[c].pc \notin {"none", "closed"}

\* Unless a thread used the list too early, it has every connection there is.
Listed ==
  ~ early => \A c \in Clients : Running(c) => \E i \in DOMAIN connections : connections[i] = c
\* ... and no connection was accepted before there was a list.
NoneBefore == ~ early /\ built < 3 => \A c \in Clients : ~ Running(c)
\* The destructor begins when the constructor has ended.
Whole == main.pc \in {"idle", "join", "delete", "gone"} => built = 3
\* It goes on when the accept thread has ended, and leaves closed connections behind.
Joined ==
  main.pc \in {"delete", "gone"} =>
    /\ acceptor = "done"
    /\ \A i \in DOMAIN connections :
         i < main.at \/ main.pc = "gone" => conn[connections[i]].pc = "closed"

Inv == TypeOK /\ Building /\ Listed /\ NoneBefore /\ Whole /\ Joined

LEMMA InitInv == Init => Inv
<1> SUFFICES ASSUME Init PROVE Inv
  OBVIOUS
<1>1. \A c \in Clients : ~ Running(c)
  BY DEF Init, NotYet, Closed, Running
<1>2. main.pc = "build" /\ main.at = 0 /\ built = 0
  BY DEF Init
<1> QED BY <1>1, <1>2, InitTypeOK DEF Inv, Building, Listed, NoneBefore, Whole, Joined

\* A step that changes neither the main thread nor the list, and opens no connection.
LEMMA Preserved ==
  ASSUME Inv, TypeOK', UNCHANGED <<built, connections, main, early>>,
         acceptor = "done" => acceptor' = "done",
         \A c \in Clients : conn[c].pc \in {"none", "closed"} => conn'[c].pc = conn[c].pc
  PROVE  Inv'
<1>1. \A c \in Clients : Running(c)' => Running(c)
  BY DEF Running
<1>2. \A i \in DOMAIN connections : connections[i] \in Clients
  BY DEF Inv, TypeOK
<1> QED BY <1>1, <1>2 DEF Inv, Building, Listed, NoneBefore, Whole, Joined

LEMMA CrashInv ==
  ASSUME TypeOK', Crash
  PROVE  Inv'
<1>1. \A c \in Clients : ~ Running(c)'
  BY DEF Crash, NotYet, Closed, Running
<1>2. main'.pc = "dead"
  BY DEF Crash
<1> QED BY <1>1, <1>2 DEF Inv, Building, Listed, NoneBefore, Whole, Joined

LEMMA BuildInv ==
  ASSUME Inv, TypeOK', Build
  PROVE  Inv'
<1>1. built \in 0 .. 2 /\ built' = built + 1 /\ UNCHANGED <<conn, early>>
  BY DEF Build, Inv, Building
<1>2. Listed' /\ NoneBefore'
  BY <1>1 DEF Inv, Listed, NoneBefore, Running
<1>3. CASE built = 2
  <2>1. main'.pc = "idle" /\ built' = 3
    BY <1>1, <1>3 DEF Build, Inv, TypeOK
  <2> QED BY <1>2, <2>1 DEF Inv, Building, Whole, Joined
<1>4. CASE built # 2
  <2>1. main' = main /\ built' \in 0 .. 2 /\ main.pc = "build"
    BY <1>1, <1>4 DEF Build
  <2> QED BY <1>2, <2>1 DEF Inv, Building, Whole, Joined
<1> QED BY <1>3, <1>4

\* The destructor goes on to the i-th connection when those before it are closed.
LEMMA DeleteInv ==
  ASSUME Inv, TypeOK', NEW i \in Nat \ {0}, Delete(i),
         main.pc \in {"join", "delete"}, acceptor = "done",
         \A j \in DOMAIN connections : j < i => conn[connections[j]].pc = "closed",
         UNCHANGED <<built, running, connections, acceptor, early, backlog, client, up, down, cuts>>
  PROVE  Inv'
<1>1. \A c \in Clients : conn'[c].pc = conn[c].pc
  <2>1. CASE i > Len(connections)
    BY <2>1 DEF Delete
  <2>2. CASE ~ (i > Len(connections))
    <3>1. conn' = [conn EXCEPT ![connections[i]] = [conn[connections[i]] EXCEPT !.run = FALSE]]
      BY <2>2 DEF Delete
    <3>2. [conn[connections[i]] EXCEPT !.run = FALSE].pc = conn[connections[i]].pc
      <4>1. connections[i] \in Clients
        BY <2>2 DEF Inv, TypeOK
      <4> QED BY <4>1, ConnType DEF Inv, Message
    <3> QED BY <3>1, <3>2 DEF Inv, TypeOK
  <2> QED BY <2>1, <2>2
<1>2. \A j \in DOMAIN connections : connections[j] \in Clients
  BY DEF Inv, TypeOK
<1>3. Listed' /\ NoneBefore'
  BY <1>1 DEF Inv, Listed, NoneBefore, Running
<1>4. built = 3
  BY DEF Inv, Whole
<1>5. CASE i > Len(connections)
  <2>1. main' = [pc |-> "gone", at |-> 0]
    BY <1>5 DEF Delete
  <2>2. \A j \in DOMAIN connections : j < i
    BY <1>5 DEF Inv, TypeOK
  <2> QED BY <1>1, <1>2, <1>3, <1>4, <2>1, <2>2 DEF Inv, Building, Whole, Joined
<1>6. CASE ~ (i > Len(connections))
  <2>1. main' = [pc |-> "delete", at |-> i]
    BY <1>6 DEF Delete
  <2> QED BY <1>1, <1>2, <1>3, <1>4, <2>1 DEF Inv, Building, Whole, Joined
<1> QED BY <1>5, <1>6

LEMMA MainInv ==
  ASSUME Inv, TypeOK', MainStep \/ Destroy
  PROVE  Inv'
<1>1. CASE Destroy
  <2>1. main'.pc = "join" /\ built = 3 /\ UNCHANGED <<built, connections, early, conn>>
    BY <1>1 DEF Destroy, Inv, Whole, TypeOK
  <2> QED BY <2>1 DEF Inv, Building, Listed, NoneBefore, Whole, Joined, Running
<1>2. CASE JoinAcceptor
  <2>1. \A j \in DOMAIN connections : ~ (j < 1)
    BY DEF Inv, TypeOK
  <2> QED BY <1>2, <2>1, DeleteInv DEF JoinAcceptor
<1>3. CASE JoinConnection
  <2>1. main.at + 1 \in Nat \ {0} /\ main.at \in Nat /\ acceptor = "done"
    BY <1>3 DEF JoinConnection, Inv, TypeOK, Joined
  <2>2. \A j \in DOMAIN connections : j < main.at + 1 => j < main.at \/ j = main.at
    BY <2>1 DEF Inv, TypeOK
  <2>3. \A j \in DOMAIN connections : j < main.at + 1 => conn[connections[j]].pc = "closed"
    BY <1>3, <2>2 DEF JoinConnection, Inv, Joined
  <2> QED BY <1>3, <2>1, <2>3, DeleteInv DEF JoinConnection
<1> QED BY <1>1, <1>2, <1>3, BuildInv DEF MainStep

LEMMA AcceptorInv ==
  ASSUME Inv, TypeOK', AcceptorStep \/ TimesOut("stray") \/ AcceptKills
  PROVE  Inv'
<1>1. CASE Accept
  <2>1. Head(backlog) \in Clients
    BY <1>1 DEF Accept, Inv, TypeOK
  <2>2. main.pc \notin {"delete", "gone"} /\ built \in 0 .. 3
    BY <1>1 DEF Accept, Inv, Joined, TypeOK
  <2>3. connections' = Append(connections, Head(backlog)) /\ connections \in Seq(Clients)
    BY <1>1 DEF Accept, Inv, TypeOK
  <2>4. \A c \in Clients : Running(c)' => Running(c) \/ c = Head(backlog)
    BY <1>1, <2>1 DEF Accept, Running, Inv, TypeOK
  <2>5. \A i \in DOMAIN connections : i \in DOMAIN connections' /\ connections'[i] = connections[i]
    BY <2>1, <2>3
  <2>6. Len(connections) + 1 \in DOMAIN connections' /\ connections'[Len(connections) + 1] = Head(backlog)
    BY <2>1, <2>3
  <2>7. Listed'
    BY <1>1, <2>4, <2>5, <2>6 DEF Listed, Inv, Accept
  <2>8. ~ early' => built = 3
    <3>1. ~ early' => ~ (built < 3)
      BY <1>1 DEF Accept
    <3> QED BY <2>2, <3>1
  <2>9. UNCHANGED <<built, main>>
    BY <1>1 DEF Accept
  <2> QED BY <2>2, <2>7, <2>8, <2>9 DEF Inv, Building, NoneBefore, Whole, Joined
<1>2. CASE AcceptKills
  BY <1>2, CrashInv DEF AcceptKills
<1>3. CASE TestRunning
  <2>1. acceptor # "done" /\ (~ early' => ~ early) /\ UNCHANGED <<built, connections, main, conn>>
    BY <1>3 DEF TestRunning
  <2> QED BY <2>1 DEF Inv, Building, Listed, NoneBefore, Whole, Joined, Running
<1>4. CASE Listen \/ TimesOut("select") \/ TimesOut("stray")
  BY <1>4, Preserved DEF Listen, TimesOut
<1> QED BY <1>1, <1>2, <1>3, <1>4 DEF AcceptorStep

LEMMA ConnectionInv ==
  ASSUME Inv, TypeOK', NEW c \in Clients, ConnectionStep(c)
  PROVE  Inv'
<1>1. \/ Crash
      \/ /\ UNCHANGED server /\ conn[c].pc \notin {"none", "closed"}
         /\ \A d \in Clients : d = c \/ conn'[d] = conn[d]
  BY DEF ConnectionStep, Loop, Recv, RecvFails, Throws, ReadMore, Send, SendFails, WriteMore,
         Goes, Closes, Inv, TypeOK
<1> QED BY <1>1, CrashInv, Preserved DEF server

LEMMA ClientInv ==
  ASSUME Inv, TypeOK', NEW c \in Clients, ClientStep(c)
  PROVE  Inv'
<1>1. UNCHANGED <<server, conn>>
  BY DEF ClientStep, Connect, ConnectFails, Ask, BeginRead, ReadStep, RecvAnswer, ClientThrows, ReadOn, Leave
<1> QED BY <1>1, Preserved DEF server

LEMMA StepInv == Inv /\ [Next]_vars => Inv'
<1> SUFFICES ASSUME Inv, [Next]_vars PROVE Inv'
  OBVIOUS
<1>1. TypeOK'
  BY StepTypeOK DEF Inv
<1>2. CASE Over \/ UNCHANGED vars
  BY <1>1, <1>2, Preserved DEF Over, vars, server
<1> QED BY <1>1, <1>2, MainInv, AcceptorInv, ConnectionInv, ClientInv DEF Next

LEMMA Invariant == Spec => []Inv
  BY InitInv, StepInv, PTL DEF Spec

-----------------------------------------------------------------------------
(* The exchange of a client that waits for each answer, is given no part of a *)
(* message that others of its answer follow, and on whose connection no send  *)
(* is cut: which messages are on their way to it, and where its last request  *)
(* is. The m-th message is the last that has been written to it whole.        *)

\* The units of the messages after the h-th and up to the m-th.
Stream(h, m) == [i \in 1 .. (m - h) * Size |-> h * Size + i]

\* The connection has nothing of a request, and has written m messages.
Rests(c, m) ==
  \/ conn[c].pc \in {"none", "test"} /\ conn[c].sent = 0 /\ conn[c].wrote = m
  \/ conn[c].pc = "read" /\ conn[c].data = <<>> /\ conn[c].sent = 0 /\ conn[c].wrote = m
  \/ conn[c].pc = "sent" /\ conn[c].sent = Size /\ conn[c].wrote + 1 = m
\* It has a part of one.
Reads(c, m) ==
  /\ conn[c].pc \in {"read", "received"} /\ conn[c].sent = 0 /\ conn[c].wrote = m
  /\ conn[c].data \o up[c] = Piece(m + 1)

\* After an answer, the next request is not made, on its way or received, ...
Settled(c, m) == m = Due(c) /\ up[c] = <<>> /\ Rests(c, m)
Asking(c, m) ==
  /\ client[c].asked > 0 /\ m = Ends[c][client[c].asked - 1]
  /\ (Rests(c, m) /\ up[c] = Piece(m + 1)) \/ Reads(c, m)
\* ... or a part of the messages that answer it is written.
Answering(c, m) ==
  /\ client[c].asked > 0 /\ up[c] = <<>> /\ m < Due(c)
  /\ \/ /\ conn[c].pc = "write" /\ conn[c].sent = 0 /\ conn[c].wrote = m /\ conn[c].data = Piece(m + 1)
        /\ Ends[c][client[c].asked - 1] <= m
     \/ /\ conn[c].pc = "sent" /\ conn[c].sent = Size /\ conn[c].wrote + 1 = m
        /\ Ends[c][client[c].asked - 1] < m

Stage(c, m) == ServerClosed(c) \/ Settled(c, m) \/ Asking(c, m) \/ Answering(c, m)

\* A part of a message is one of the last of an answer.
Cut(c) ==
  \/ client[c].data = <<>>
  \/ client[c].heard + 1 = Due(c)
  \/ client[c].pc = "received" /\ Len(client[c].data) = Size
Flow(c, m) ==
  /\ client[c].heard <= m /\ m <= Due(c) /\ Cut(c)
  /\ client[c].data \o down[c] = Stream(client[c].heard, m)

Talks(c)   == client[c].pc \in {"new", "ready", "read", "received"}
Between(c) == client[c].pc \in {"new", "ready"} => client[c].data = <<>>

Exchange(c) ==
  Orderly(c) =>
    /\ client[c].right /\ client[c].heard <= Due(c)
    /\ Talks(c) => Between(c) /\ \E m \in Nat : Flow(c, m) /\ Stage(c, m)

\* A process that died has no thread.
Dead == main.pc = "dead" => acceptor = "done" /\ \A c \in Clients : ~ Running(c)
\* A client is accepted once, and written to after that.
Queued ==
  /\ \A i, j \in DOMAIN backlog : i # j => backlog[i] # backlog[j]
  /\ \A i \in DOMAIN backlog : conn[backlog[i]].pc = "none" /\ client[backlog[i]].pc # "new"
  /\ \A c \in Clients : client[c].pc = "new" => conn[c].pc = "none"
  /\ \A c \in Clients : conn[c].pc = "none" => conn[c].wrote = 0

Order == Dead /\ Queued /\ \A c \in Clients : Exchange(c)

-----------------------------------------------------------------------------
(* Units taken from one end of a stream and put at the end of what came.      *)

\* After s, a and then b are the stream t.
Parts(S, s, a, b, t) == s \in Seq(S) /\ a \in Seq(S) /\ b \in Seq(S) /\ a \o b = t
Joint(s, a, b, t)    == (s \o a) \o b = s \o t

LEMMA Associative ==
  ASSUME NEW S, NEW s \in Seq(S), NEW a \in Seq(S), NEW b \in Seq(S)
  PROVE  Joint(s, a, b, a \o b)
  BY ConcatAssociative DEF Joint

LEMMA PartsJoin ==
  ASSUME NEW S, NEW s, NEW a, NEW b, NEW t, Parts(S, s, a, b, t)
  PROVE  Joint(s, a, b, t)
<1>1. s \in Seq(S) /\ a \in Seq(S) /\ b \in Seq(S) /\ t = a \o b
  BY DEF Parts
<1>2. Joint(s, a, b, a \o b)
  BY <1>1, Associative
<1> QED BY <1>1, <1>2

LEMMA Pieces ==
  ASSUME NEW S, NEW s \in Seq(S), NEW t \in Seq(S), NEW n \in 0 .. Len(t)
  PROVE  Joint(s, SubSeq(t, 1, n), Drop(t, n), t)
<1>1. SubSeq(t, 1, n) \in Seq(S) /\ Drop(t, n) \in Seq(S)
  BY Prefix, DropType
<1>2. 1 \in 1 .. Len(t) + 1 /\ n \in 1 - 1 .. Len(t) /\ Len(t) \in n .. Len(t)
  OBVIOUS
<1>3. SubSeq(t, 1, n) \o SubSeq(t, n + 1, Len(t)) = SubSeq(t, 1, Len(t))
  BY <1>2, ConcatAdjacentSubSeq
<1>4. SubSeq(t, 1, n) \o Drop(t, n) = t
  BY <1>3, SubSeqFull DEF Drop
<1>5. Parts(S, s, SubSeq(t, 1, n), Drop(t, n), t)
  BY <1>1, <1>4 DEF Parts
<1> QED BY <1>5, PartsJoin, Zenon

LEMMA Exact ==
  ASSUME NEW S, NEW s \in Seq(S), NEW t \in Seq(S), Len(s \o t) <= Len(s)
  PROVE  t = <<>> /\ s \o t = s
<1>1. Len(s \o t) = Len(s) + Len(t) /\ Len(s) \in Nat /\ Len(t) \in Nat
  BY ConcatProperties
<1>2. t = <<>>
  BY <1>1, EmptySeq
<1> QED BY <1>2, ConcatEmptySeq

LEMMA Untaken ==
  ASSUME NEW s \in Seq(Units), Len(s) <= Size
  PROVE  SubSeq(s, 1, Least(Size, Len(s))) = s
<1>1. Len(s) \in Nat /\ Size \in Nat
  BY SizeAssumption
<1>2. Least(Size, Len(s)) = Len(s)
  BY <1>1 DEF Least
<1> QED BY <1>2, SubSeqFull

\* What is taken of a stream and put after what was taken before leaves the stream what it is.
LEMMA TakenInOrder ==
  ASSUME NEW s \in Seq(Units), NEW t \in Seq(Units), NEW n \in 0 .. Len(t)
  PROVE  /\ s \o SubSeq(t, 1, n) \in Seq(Units) /\ Len(s \o SubSeq(t, 1, n)) = Len(s) + n
         /\ (s \o SubSeq(t, 1, n)) \o Drop(t, n) = s \o t
<1>1. SubSeq(t, 1, n) \in Seq(Units) /\ Len(SubSeq(t, 1, n)) = n
  BY Prefix
<1>2. Len(s \o SubSeq(t, 1, n)) = Len(s) + n /\ s \o SubSeq(t, 1, n) \in Seq(Units)
  BY <1>1, ConcatProperties
<1>3. Joint(s, SubSeq(t, 1, n), Drop(t, n), t)
  BY Pieces
<1> QED BY <1>2, <1>3 DEF Joint

\* What is left of a message is not longer than the message.
LEMMA PieceFits ==
  ASSUME NEW s \in Seq(Units), NEW t \in Seq(Units), NEW n \in 0 .. Len(t), Len(s \o t) = Size
  PROVE  /\ s \o SubSeq(t, 1, n) \in Seq(Units) /\ Len(s \o SubSeq(t, 1, n)) <= Size
         /\ (s \o SubSeq(t, 1, n)) \o Drop(t, n) = s \o t
<1>1. Len(s) + Len(t) = Size /\ Len(s) \in Nat /\ Len(t) \in Nat
  BY ConcatProperties
<1>2. /\ s \o SubSeq(t, 1, n) \in Seq(Units) /\ Len(s \o SubSeq(t, 1, n)) = Len(s) + n
      /\ (s \o SubSeq(t, 1, n)) \o Drop(t, n) = s \o t
  BY TakenInOrder
<1>3. Len(s) + n <= Size
  BY <1>1
<1> QED BY <1>2, <1>3

LEMMA WholeIsWritten ==
  ASSUME TypeOK, NEW c \in Clients, conn[c].pc = "write", conn[c].sent = 0
  PROVE  Written(c, Size) = conn[c].data
<1>1. Size \in 1 .. Size /\ Size \in Nat
  BY SizeAssumption
<1>2. Written(c, Size) \in Seq(Units)
  BY <1>1, WrittenType
<1>3. conn[c].data \in Seq(Units) /\ Len(conn[c].data) = Size
  BY ConnType
<1>4. Written(c, Size) = [i \in 1 .. Size |-> conn[c].data[i]]
  BY <1>1 DEF Written
<1>5. Len(Written(c, Size)) = Size
  BY <1>1, <1>4
<1> QED BY <1>2, <1>3, <1>4, <1>5, SeqEqual

LEMMA StreamType ==
  ASSUME NEW h \in Nat, NEW m \in Nat, h <= m
  PROVE  /\ Stream(h, m) \in Seq(Units) /\ Len(Stream(h, m)) = (m - h) * Size
         /\ (m - h) * Size \in Nat /\ h * Size \in Nat
         /\ \A i \in 1 .. (m - h) * Size : Stream(h, m)[i] = h * Size + i
<1>1. m - h \in Nat /\ Size \in Nat
  BY SizeAssumption
<1>2. (m - h) * Size \in Nat /\ h * Size \in Nat
  BY <1>1
<1> DEFINE l == (m - h) * Size
<1> DEFINE b == h * Size
<1>3. Stream(h, m) = [i \in 1 .. l |-> b + i]
  BY DEF Stream
<1>4. l \in Nat /\ b \in Nat
  BY <1>2
<1> HIDE DEF l, b
<1>5. Stream(h, m) \in Seq(Units) /\ Len(Stream(h, m)) = l /\ \A i \in 1 .. l : Stream(h, m)[i] = b + i
  BY <1>3, <1>4 DEF Units
<1> QED BY <1>2, <1>5 DEF l, b

LEMMA StreamLengths ==
  ASSUME NEW h \in Nat
  PROVE  /\ Stream(h, h) = <<>> /\ Len(Stream(h, h + 1)) = Size
         /\ \A m \in Nat : h <= m /\ Stream(h, m) # <<>> => h + 1 <= m
<1>1. (h - h) * Size = 0 /\ ((h + 1) - h) * Size = Size
  BY SizeAssumption
<1>2. Len(Stream(h, h)) = 0 /\ Stream(h, h) \in Seq(Units) /\ Len(Stream(h, h + 1)) = Size
  <2>1. Len(Stream(h, h)) = (h - h) * Size /\ Stream(h, h) \in Seq(Units)
    <3>1. h <= h
      OBVIOUS
    <3> QED BY <3>1, StreamType
  <2>2. Len(Stream(h, h + 1)) = ((h + 1) - h) * Size
    <3>1. h <= h + 1 /\ h + 1 \in Nat
      OBVIOUS
    <3> QED BY <3>1, StreamType
  <2> QED BY <1>1, <2>1, <2>2
<1>3. Stream(h, h) = <<>>
  BY <1>2, EmptySeq
<1> QED BY <1>2, <1>3

\* One more message is written ...
LEMMA OneMore ==
  ASSUME NEW h \in Nat, NEW m \in Nat, h <= m
  PROVE  Stream(h, m) \o Piece(m + 1) = Stream(h, m + 1)
<1> DEFINE l == (m - h) * Size
<1> DEFINE b == h * Size
<1> DEFINE s == Stream(h, m)
<1> DEFINE p == Piece(m + 1)
<1> DEFINE t == Stream(h, m + 1)
<1>1. /\ ((m + 1) - h) * Size = (m - h) * Size + Size
      /\ (m - h) * Size + h * Size = m * Size /\ ((m + 1) - 1) * Size = m * Size /\ m * Size \in Nat
  BY SizeAssumption
<1>2. s \in Seq(Units) /\ Len(s) = l /\ l \in Nat /\ b \in Nat /\ \A i \in 1 .. l : s[i] = b + i
  BY StreamType
<1>3. t \in Seq(Units) /\ Len(t) = ((m + 1) - h) * Size /\ \A i \in 1 .. ((m + 1) - h) * Size : t[i] = b + i
  <2>1. h <= m + 1 /\ m + 1 \in Nat
    OBVIOUS
  <2> QED BY <2>1, StreamType
<1>4. p \in Seq(Units) /\ Len(p) = Size /\ p = [i \in 1 .. Size |-> ((m + 1) - 1) * Size + i]
  <2>1. m + 1 \in Nat \ {0}
    OBVIOUS
  <2>2. p \in Seq(Units) /\ Len(p) = Size
    BY <2>1, PieceType
  <2>3. p = [i \in 1 .. Size |-> ((m + 1) - 1) * Size + i]
    BY DEF Piece
  <2> QED BY <2>2, <2>3
<1>5. ((m + 1) - 1) * Size = l + b /\ ((m + 1) - h) * Size = l + Size
  BY <1>1, SizeAssumption
<1> HIDE DEF l, b, s, p, t
<1>6. Size \in Nat /\ \A i \in 1 .. Size : p[i] = (l + b) + i
  BY <1>4, <1>5, SizeAssumption
<1>7. t \in Seq(Units) /\ Len(t) = l + Size /\ \A i \in 1 .. l + Size : t[i] = b + i
  BY <1>3, <1>5
<1>8. /\ s \o p \in Seq(Units) /\ Len(s \o p) = l + Size
      /\ \A i \in 1 .. l + Size : (s \o p)[i] = IF i <= l THEN s[i] ELSE p[i - l]
  BY <1>2, <1>4, ConcatProperties
<1>9. ASSUME NEW i \in 1 .. l + Size PROVE (s \o p)[i] = t[i]
  <2>1. CASE i <= l
    <3>1. (s \o p)[i] = s[i]
      BY <1>8, <2>1
    <3>2. s[i] = b + i
      BY <1>2, <1>6, <2>1
    <3> QED BY <1>7, <3>1, <3>2
  <2>2. CASE ~ (i <= l)
    <3>1. i - l \in 1 .. Size
      BY <1>2, <1>6, <2>2
    <3>2. (s \o p)[i] = p[i - l]
      BY <1>8, <2>2
    <3>3. p[i - l] = (l + b) + (i - l)
      BY <1>6, <3>1
    <3>4. (l + b) + (i - l) = b + i
      BY <1>2, <1>6
    <3>5. t[i] = b + i
      BY <1>7
    <3> QED BY <3>2, <3>3, <3>4, <3>5, Zenon
  <2> QED BY <2>1, <2>2
<1>10. s \o p = t
  BY <1>7, <1>8, <1>9, SeqEqual
<1> QED BY <1>10 DEF s, p, t

\* ... and one is read.
LEMMA OneLess ==
  ASSUME NEW h \in Nat, NEW m \in Nat, h + 1 <= m, NEW s \in Seq(Units), NEW t \in Seq(Units),
         s \o t = Stream(h, m), Len(s) = Size
  PROVE  s = Piece(h + 1) /\ t = Stream(h + 1, m)
<1> DEFINE l == (m - (h + 1)) * Size
<1> DEFINE b == h * Size
<1> DEFINE p == Piece(h + 1)
<1> DEFINE u == Stream(h + 1, m)
<1>1. /\ (m - h) * Size = (m - (h + 1)) * Size + Size
      /\ (h + 1) * Size = h * Size + Size /\ ((h + 1) - 1) * Size = h * Size
  BY SizeAssumption
<1>2. /\ Len(s \o t) = (m - h) * Size /\ b \in Nat
      /\ \A i \in 1 .. (m - h) * Size : (s \o t)[i] = b + i
  <2>1. h <= m
    OBVIOUS
  <2>2. /\ Len(Stream(h, m)) = (m - h) * Size /\ b \in Nat
        /\ \A i \in 1 .. (m - h) * Size : Stream(h, m)[i] = b + i
    BY <2>1, StreamType
  <2> QED BY <2>2
<1>3. /\ u \in Seq(Units) /\ Len(u) = l /\ l \in Nat
      /\ \A i \in 1 .. l : u[i] = (h + 1) * Size + i
  <2>1. h + 1 \in Nat
    OBVIOUS
  <2> QED BY <2>1, StreamType
<1>4. p \in Seq(Units) /\ Len(p) = Size /\ p = [i \in 1 .. Size |-> ((h + 1) - 1) * Size + i]
  <2>1. h + 1 \in Nat \ {0}
    OBVIOUS
  <2>2. p \in Seq(Units) /\ Len(p) = Size
    BY <2>1, PieceType
  <2>3. p = [i \in 1 .. Size |-> ((h + 1) - 1) * Size + i]
    BY DEF Piece
  <2> QED BY <2>2, <2>3
<1>5. ((h + 1) - 1) * Size = b /\ (m - h) * Size = l + Size /\ (h + 1) * Size = b + Size
  BY <1>1
<1> HIDE DEF l, b, p, u
<1>6. Size \in Nat /\ \A i \in 1 .. Size : p[i] = b + i
  BY <1>4, <1>5, SizeAssumption
<1>7. Len(s \o t) = l + Size /\ \A i \in 1 .. l + Size : (s \o t)[i] = b + i
  BY <1>2, <1>5
<1>8. \A i \in 1 .. l : u[i] = (b + Size) + i
  BY <1>3, <1>5
<1>9. /\ Len(s \o t) = Size + Len(t) /\ Len(t) \in Nat
      /\ \A i \in 1 .. Size + Len(t) : (s \o t)[i] = IF i <= Size THEN s[i] ELSE t[i - Size]
  BY ConcatProperties
<1>10. Len(t) = l
  BY <1>3, <1>6, <1>7, <1>9
<1>11. ASSUME NEW i \in 1 .. Size PROVE s[i] = p[i]
  <2>1. i \in 1 .. l + Size /\ i \in 1 .. Size + Len(t) /\ i <= Size
    BY <1>3, <1>6, <1>9
  <2> QED BY <1>6, <1>7, <1>9, <2>1
<1>12. ASSUME NEW i \in 1 .. l PROVE t[i] = u[i]
  <2>1. i + Size \in 1 .. l + Size /\ i + Size \in 1 .. Size + Len(t) /\ ~ (i + Size <= Size)
    BY <1>3, <1>6, <1>10
  <2>2. (s \o t)[i + Size] = t[(i + Size) - Size] /\ (s \o t)[i + Size] = b + (i + Size)
    BY <1>7, <1>9, <2>1
  <2>3. (i + Size) - Size = i /\ b + (i + Size) = (b + Size) + i
    BY <1>2, <1>6
  <2> QED BY <1>8, <2>2, <2>3
<1>13. s = p
  BY <1>4, <1>11, SeqEqual
<1>14. t = u
  BY <1>3, <1>10, <1>12, SeqEqual
<1> QED BY <1>13, <1>14 DEF p, u

-----------------------------------------------------------------------------
(* What a step of the server changes for one client.                          *)

LEMMA SameClient ==
  ASSUME TypeOK, NEW c \in Clients, Exchange(c), client'[c] = client[c],
         \A m \in Nat : Flow(c, m) /\ Stage(c, m) => \E n \in Nat : Flow(c, n)' /\ Stage(c, n)'
  PROVE  Exchange(c)'
<1> SUFFICES ASSUME Orderly(c)'
             PROVE  /\ client'[c].right /\ client'[c].heard <= Due(c)'
                    /\ Talks(c)' => Between(c)' /\ \E m \in Nat : Flow(c, m)' /\ Stage(c, m)'
  BY DEF Exchange
<1>1. Orderly(c) /\ Due(c)' = Due(c)
  BY DEF Orderly, Due
<1>2. (Talks(c)' => Talks(c)) /\ (Between(c) => Between(c)')
  BY DEF Talks, Between
<1>3. /\ client[c].right /\ client[c].heard <= Due(c)
      /\ Talks(c) => Between(c) /\ \E m \in Nat : Flow(c, m) /\ Stage(c, m)
  BY <1>1 DEF Exchange
<1> QED BY <1>1, <1>2, <1>3

\* No unit comes to it.
LEMMA SameFlow ==
  ASSUME TypeOK, NEW c \in Clients, Exchange(c), client'[c] = client[c], down'[c] = down[c],
         \A m \in Nat : Stage(c, m) => Stage(c, m)'
  PROVE  Exchange(c)'
<1>1. ASSUME NEW m \in Nat, Flow(c, m) PROVE Flow(c, m)'
  BY <1>1 DEF Flow, Cut, Due, Stream
<1> QED BY <1>1, SameClient

\* One that it neither speaks to nor listens to.
LEMMA Unmoved ==
  ASSUME TypeOK, NEW c \in Clients, Exchange(c), client'[c] = client[c],
         conn'[c].pc = conn[c].pc, conn'[c].data = conn[c].data,
         conn'[c].sent = conn[c].sent, conn'[c].wrote = conn[c].wrote,
         up'[c] = up[c], down'[c] = down[c], main.pc = "dead" => main'.pc = "dead"
  PROVE  Exchange(c)'
<1>1. ASSUME NEW m \in Nat, Stage(c, m) PROVE Stage(c, m)'
  <2>1. /\ Rests(c, m) => Rests(c, m)'
        /\ Reads(c, m) => Reads(c, m)'
        /\ Due(c)' = Due(c)
    BY DEF Rests, Reads, Due, Piece
  <2>2. CASE ServerClosed(c)
    BY <2>2 DEF ServerClosed, Stage
  <2>3. CASE Settled(c, m)
    BY <2>1, <2>3 DEF Settled, Stage
  <2>4. CASE Asking(c, m)
    <3>1. Asking(c, m)'
      BY <2>1, <2>4 DEF Asking, Piece
    <3> QED BY <3>1 DEF Stage
  <2>5. CASE Answering(c, m)
    <3>1. Answering(c, m)'
      BY <2>1, <2>5 DEF Answering, Piece
    <3> QED BY <3>1 DEF Stage
  <2> QED BY <1>1, <2>2, <2>3, <2>4, <2>5 DEF Stage
<1> QED BY <1>1, SameFlow

\* One whose connection is closed, or whose server is dead.
LEMMA CutOff ==
  ASSUME TypeOK, NEW c \in Clients, Exchange(c), client'[c] = client[c], down'[c] = down[c], ServerClosed(c)'
  PROVE  Exchange(c)'
  BY SameFlow DEF Stage

\* A step from rest to rest.
LEMMA StillRests ==
  ASSUME TypeOK, NEW c \in Clients, Exchange(c), client'[c] = client[c], down'[c] = down[c], up'[c] = up[c],
         ~ ServerClosed(c), \A m \in Nat : Rests(c, m) => Rests(c, m)',
         conn[c].pc \in {"none", "test"}
  PROVE  Exchange(c)'
<1>1. ASSUME NEW m \in Nat, Stage(c, m) PROVE Stage(c, m)'
  <2>1. Due(c)' = Due(c) /\ (Rests(c, m) => Rests(c, m)')
    BY DEF Due
  <2>2. CASE Settled(c, m)
    BY <2>1, <2>2 DEF Settled, Stage
  <2>3. CASE Asking(c, m)
    <3>1. Asking(c, m)'
      BY <2>1, <2>3 DEF Asking, Reads, Piece
    <3> QED BY <3>1 DEF Stage
  <2> QED BY <1>1, <2>2, <2>3 DEF Stage, Answering
<1> QED BY <1>1, SameFlow

\* A connection with a thread is open.
LEMMA RunningIsOpen ==
  ASSUME Dead, NEW c \in Clients, Running(c)
  PROVE  ~ ServerClosed(c) /\ main.pc # "dead"
  BY DEF Dead, Running, ServerClosed

LEMMA RecvExchange ==
  ASSUME TypeOK, Dead, NEW c \in Clients, Exchange(c), NEW n \in 1 .. Least(Size, Len(up[c])),
         conn[c].pc = "read",
         LET data == conn[c].data \o SubSeq(up[c], 1, n) IN
           conn' = [conn EXCEPT ![c].pc = "received", ![c].data = SubSeq(data, 1, Least(Size, Len(data)))],
         up' = [up EXCEPT ![c] = Drop(@, n)],
         UNCHANGED <<server, backlog, client, down, cuts>>
  PROVE  Exchange(c)'
<1> DEFINE data == conn[c].data \o SubSeq(up[c], 1, n)
<1>1. n \in 1 .. Len(up[c]) /\ up[c] # <<>>
  BY ConnType, Empties DEF Least
<1>2. ~ ServerClosed(c)
  BY RunningIsOpen DEF Running
<1>3. /\ conn'[c].pc = "received" /\ conn'[c].sent = conn[c].sent /\ conn'[c].wrote = conn[c].wrote
      /\ conn'[c].data = SubSeq(data, 1, Least(Size, Len(data)))
      /\ up'[c] = Drop(up[c], n) /\ client'[c] = client[c] /\ down'[c] = down[c]
  BY DEF TypeOK, Message
<1>4. ASSUME NEW m \in Nat, Stage(c, m) PROVE Stage(c, m)'
  <2>1. Asking(c, m)
    BY <1>1, <1>2, <1>4 DEF Stage, Settled, Answering
  <2>2. conn[c].sent = 0 /\ conn[c].wrote = m /\ conn[c].data \o up[c] = Piece(m + 1)
    <3>1. conn[c].data = <<>> => conn[c].data \o up[c] = up[c]
      BY ConnType, ConcatEmptySeq
    <3> QED BY <2>1, <3>1 DEF Asking, Rests, Reads
  <2>3. /\ data \in Seq(Units) /\ Len(data) <= Size
        /\ data \o Drop(up[c], n) = Piece(m + 1)
    <3>1. conn[c].data \in Seq(Units) /\ up[c] \in Seq(Units) /\ n \in 0 .. Len(up[c])
      BY <1>1, ConnType
    <3>2. Len(conn[c].data \o up[c]) = Size
      <4>1. Len(Piece(m + 1)) = Size
        BY PieceType
      <4> QED BY <2>2, <4>1, Zenon
    <3> QED BY <2>2, <3>1, <3>2, PieceFits
  <2> HIDE DEF data
  <2>4. conn'[c].data = data
    BY <1>3, <2>3, Untaken
  <2>5. Reads(c, m)'
    <3>1. conn'[c].data \o up'[c] = Piece(m + 1)
      BY <1>3, <2>3, <2>4
    <3> QED BY <1>3, <2>2, <3>1 DEF Reads, Piece
  <2> QED BY <1>3, <2>1, <2>5 DEF Asking, Stage
<1> QED BY <1>3, <1>4, SameFlow

LEMMA ReadMoreExchange ==
  ASSUME TypeOK, Dead, NEW c \in Clients, Exchange(c), ReadMore(c)
  PROVE  Exchange(c)'
<1>1. conn[c].pc = "received" /\ ~ ServerClosed(c)
  BY RunningIsOpen DEF ReadMore, Running
<1>2. /\ conn'[c].pc = (IF Len(conn[c].data) < Size THEN "read" ELSE "write")
      /\ conn'[c].data = conn[c].data /\ conn'[c].sent = conn[c].sent /\ conn'[c].wrote = conn[c].wrote
      /\ up'[c] = up[c] /\ client'[c] = client[c] /\ down'[c] = down[c]
  BY DEF ReadMore, Goes, TypeOK, Message
<1>3. ASSUME NEW m \in Nat, Stage(c, m) PROVE Stage(c, m)'
  <2>1. Asking(c, m) /\ Reads(c, m)
    BY <1>1, <1>3 DEF Stage, Settled, Asking, Answering, Rests
  <2>2. CASE Len(conn[c].data) < Size
    <3>1. Reads(c, m)'
      BY <1>2, <2>1, <2>2 DEF Reads, Piece
    <3> QED BY <1>2, <2>1, <3>1 DEF Asking, Stage
  <2>3. CASE ~ (Len(conn[c].data) < Size)
    <3>1. Len(conn[c].data \o up[c]) <= Len(conn[c].data)
      <4>1. conn[c].data \o up[c] = Piece(m + 1) /\ m + 1 \in Nat \ {0}
        BY <2>1 DEF Reads
      <4>2. Len(Piece(m + 1)) = Size
        BY <4>1, PieceType
      <4>3. Len(conn[c].data \o up[c]) = Size
        BY <4>1, <4>2, Zenon
      <4> QED BY <2>3, <4>3, ConnType
    <3>2. up[c] = <<>> /\ conn[c].data = Piece(m + 1)
      <4>1. up[c] = <<>> /\ conn[c].data \o up[c] = conn[c].data
        BY <3>1, ConnType, Exact
      <4> QED BY <2>1, <4>1 DEF Reads
    <3>3. m < Due(c) /\ Ends[c][client[c].asked - 1] <= m /\ client[c].asked > 0
      BY <2>1, ClientType, EndsType DEF Asking, Due
    <3>4. Answering(c, m)'
      BY <1>2, <2>1, <2>3, <3>2, <3>3 DEF Answering, Reads, Due, Piece
    <3> QED BY <3>4 DEF Stage
  <2> QED BY <2>2, <2>3
<1> QED BY <1>2, <1>3, SameFlow

LEMMA SendExchange ==
  ASSUME TypeOK, Dead, NEW c \in Clients, Exchange(c), Send(c)
  PROVE  Exchange(c)'
<1>1. PICK n \in 1 .. Size :
        /\ n = Size \/ cuts < MaxCuts
        /\ cuts' = IF n = Size THEN cuts ELSE cuts + 1
        /\ down' = IF ClientClosed(c) THEN down ELSE [down EXCEPT ![c] = @ \o Written(c, n)]
        /\ conn' = [conn EXCEPT ![c].pc = "sent", ![c].sent = Least(@ + n, Size)]
        /\ client' = [client EXCEPT ![c].excused = @ \/ n < Size]
  BY DEF Send
<1>2. conn[c].pc = "write" /\ ~ ServerClosed(c) /\ up' = up /\ main' = main
  BY RunningIsOpen DEF Send, Running, server
<1>3. CASE n # Size
  <2>1. n < Size
    BY <1>3, SizeAssumption
  <2>2. client'[c].excused
    BY <1>1, <2>1 DEF TypeOK, Peer
  <2> QED BY <2>2 DEF Exchange, Orderly
<1>4. CASE n = Size
  <2>1. client'[c] = client[c]
    <3>1. ~ (n < Size) /\ client[c].excused \in BOOLEAN
      BY <1>4, SizeAssumption, ClientType DEF Peer
    <3> QED BY <1>1, <3>1 DEF TypeOK, Peer
  <2>2. CASE ClientClosed(c)
    <3>1. ~ Talks(c) /\ ~ Talks(c)' /\ (Orderly(c)' => Orderly(c)) /\ Due(c)' = Due(c)
      BY <2>1, <2>2 DEF Talks, ClientClosed, Orderly, Due
    <3> QED BY <2>1, <3>1 DEF Exchange
  <2>3. CASE ~ ClientClosed(c)
    <3>1. ASSUME NEW m \in Nat, Flow(c, m), Stage(c, m) PROVE Flow(c, m + 1)' /\ Stage(c, m + 1)'
      <4>1. /\ client[c].asked > 0 /\ up[c] = <<>> /\ m < Due(c)
            /\ conn[c].sent = 0 /\ conn[c].wrote = m /\ conn[c].data = Piece(m + 1)
            /\ Ends[c][client[c].asked - 1] <= m
        BY <1>2, <3>1 DEF Stage, Settled, Asking, Answering, Rests, Reads
      <4>2. conn'[c].pc = "sent" /\ conn'[c].sent = Size /\ conn'[c].wrote = m
        <5>1. Least(0 + n, Size) = Size
          BY <1>4, SizeAssumption DEF Least
        <5> QED BY <1>1, <4>1, <5>1 DEF TypeOK, Message
      <4>3. down'[c] = down[c] \o Piece(m + 1)
        <5>1. Written(c, Size) = Piece(m + 1)
          BY <1>2, <4>1, WholeIsWritten
        <5> QED BY <1>1, <1>4, <2>3, <5>1 DEF TypeOK
      <4>4. client'[c].data \o down'[c] = Stream(client[c].heard, m + 1)
        <5>1. Parts(Units, client[c].data, down[c], Piece(m + 1), down[c] \o Piece(m + 1))
          BY ClientType, ConnType, PieceType DEF Parts
        <5>2. Joint(client[c].data, down[c], Piece(m + 1), down[c] \o Piece(m + 1))
          BY <5>1, PartsJoin, Zenon
        <5>3. client[c].data \o (down[c] \o Piece(m + 1)) = Stream(client[c].heard, m) \o Piece(m + 1)
          BY <3>1, <5>2 DEF Joint, Flow
        <5>4. Stream(client[c].heard, m) \o Piece(m + 1) = Stream(client[c].heard, m + 1)
          BY <3>1, ClientType, OneMore DEF Flow
        <5> QED BY <2>1, <4>3, <5>3, <5>4
      <4>5. Flow(c, m + 1)'
        <5>1. Cut(c)' /\ Due(c)' = Due(c)
          BY <2>1, <3>1 DEF Flow, Cut, Due
        <5>2. client'[c].heard <= m + 1 /\ m + 1 <= Due(c)
          BY <2>1, <3>1, <4>1, ClientType, DueType DEF Flow
        <5> QED BY <2>1, <4>4, <5>1, <5>2 DEF Flow, Stream
      <4>6. CASE m + 1 = Due(c)
        <5>1. Settled(c, m + 1)'
          BY <1>2, <2>1, <4>1, <4>2, <4>6 DEF Settled, Rests, Due
        <5> QED BY <4>5, <5>1 DEF Stage
      <4>7. CASE m + 1 # Due(c)
        <5>1. m + 1 < Due(c) /\ Ends[c][client[c].asked - 1] < m + 1
          <6>1. client[c].asked - 1 \in 0 .. Requests[c]
            BY <4>1, ClientType, EndsType
          <6>2. Ends[c][client[c].asked - 1] \in Nat
            BY <6>1, EndsType
          <6> QED BY <4>1, <4>7, <6>2, DueType
        <5>2. Answering(c, m + 1)'
          BY <1>2, <2>1, <4>1, <4>2, <5>1 DEF Answering, Due
        <5> QED BY <4>5, <5>2 DEF Stage
      <4> QED BY <4>6, <4>7
    <3>2. \A m \in Nat : m + 1 \in Nat
      OBVIOUS
    <3> QED BY <2>1, <3>1, <3>2, SameClient
  <2> QED BY <2>2, <2>3
<1> QED BY <1>3, <1>4

\* The handler returns after the last message of an answer, and not before.
LEMMA WriteMoreExchange ==
  ASSUME TypeOK, Dead, NEW c \in Clients, Exchange(c), WriteMore(c), ~ Closes(c)
  PROVE  Exchange(c)'
<1>1. conn[c].pc = "sent" /\ ~ ServerClosed(c) /\ UNCHANGED <<up, client, down, main>>
  BY RunningIsOpen DEF WriteMore, Running, server
<1>2. ASSUME NEW m \in Nat, Stage(c, m) PROVE Stage(c, m)'
  <2>1. conn[c].sent = Size /\ conn[c].wrote + 1 = m /\ ~ (conn[c].sent < Size) /\ conn[c].wrote \in Nat
    <3>1. conn[c].sent = Size /\ conn[c].wrote + 1 = m
      BY <1>1, <1>2 DEF Stage, Settled, Asking, Answering, Rests, Reads
    <3> QED BY <3>1, ConnType
  <2>2. EndsAnswer(c) => conn'[c].pc = "test" /\ conn'[c].sent = 0 /\ conn'[c].wrote = m
    BY <2>1 DEF WriteMore, TypeOK, Message
  <2>3. ~ EndsAnswer(c) => /\ conn'[c].pc = "write" /\ conn'[c].sent = 0 /\ conn'[c].wrote = m
                           /\ conn'[c].data = Piece(m + 1)
    <3>1. conn[c].wrote + 2 = m + 1
      BY <2>1
    <3> QED BY <2>1, <3>1 DEF WriteMore, TypeOK, Message
  <2>4. client[c].asked \in 0 .. Requests[c] /\ Requests[c] \in Nat /\ Due(c)' = Due(c)
    BY <1>1, ClientType, EndsType DEF Due
  <2>5. CASE Settled(c, m)
    <3>1. client[c].asked \in 1 .. Requests[c]
      BY <2>1, <2>4, <2>5, EndsType DEF Settled, Due
    <3>2. EndsAnswer(c)
      BY <2>1, <2>5, <3>1 DEF EndsAnswer, Settled, Due
    <3>3. Settled(c, m)'
      BY <1>1, <2>2, <2>4, <2>5, <3>2 DEF Settled, Rests
    <3> QED BY <3>3 DEF Stage
  <2>6. CASE Asking(c, m)
    <3>1. client[c].asked - 1 \in 1 .. Requests[c]
      BY <2>1, <2>4, <2>6, EndsType DEF Asking
    <3>2. EndsAnswer(c)
      BY <2>1, <2>6, <3>1 DEF EndsAnswer, Asking
    <3>3. Asking(c, m)'
      BY <1>1, <2>2, <2>6, <3>2 DEF Asking, Rests, Reads, Piece
    <3> QED BY <3>3 DEF Stage
  <2>7. CASE Answering(c, m)
    <3>1. Ends[c][client[c].asked - 1] < m /\ m < Due(c) /\ client[c].asked > 0
      BY <1>1, <2>7 DEF Answering
    <3>2. ASSUME NEW k \in 1 .. Requests[c], m = Ends[c][k] PROVE FALSE
      <4>1. k \in 0 .. Requests[c] /\ client[c].asked - 1 \in 0 .. Requests[c] /\ k \in Nat /\ client[c].asked \in Nat
        BY <2>4, <3>1
      <4>2. CASE k < client[c].asked - 1
        <5>1. Ends[c][k] < Ends[c][client[c].asked - 1]
          BY <4>1, <4>2, EndsType
        <5> QED BY <3>1, <3>2, <4>1, <5>1, EndsType
      <4>3. CASE k > client[c].asked
        <5>1. Ends[c][client[c].asked] < Ends[c][k]
          BY <2>4, <4>1, <4>3, EndsType
        <5> QED BY <2>4, <3>1, <3>2, <4>1, <5>1, EndsType DEF Due
      <4>4. CASE k = client[c].asked \/ k = client[c].asked - 1
        BY <3>1, <3>2, <4>4 DEF Due
      <4> QED BY <4>1, <4>2, <4>3, <4>4
    <3>3. ~ EndsAnswer(c)
      BY <2>1, <3>2 DEF EndsAnswer
    <3>4. Answering(c, m)'
      <4>1. Ends[c][client[c].asked - 1] <= m
        <5>1. client[c].asked - 1 \in 0 .. Requests[c]
          BY <2>4, <3>1
        <5> QED BY <3>1, <5>1, EndsType
      <4> QED BY <1>1, <2>3, <2>4, <2>7, <3>1, <3>3, <4>1 DEF Answering, Piece
    <3> QED BY <3>4 DEF Stage
  <2> QED BY <1>1, <1>2, <2>5, <2>6, <2>7 DEF Stage
<1> QED BY <1>1, <1>2, SameFlow

-----------------------------------------------------------------------------
(* What a step of a client changes for it.                                    *)

LEMMA ConnectExchange ==
  ASSUME TypeOK, NEW c \in Clients, Exchange(c), Connect(c) \/ ConnectFails(c) \/ BeginRead(c)
  PROVE  Exchange(c)'
<1>1. /\ client'[c].asked = client[c].asked /\ client'[c].heard = client[c].heard
      /\ client'[c].right = client[c].right /\ client'[c].excused = client[c].excused
      /\ client'[c].pc \in {"ready", "failed", "read"}
      /\ client'[c].data \in {client[c].data, <<>>}
      /\ client[c].pc \in {"new", "ready"}
      /\ UNCHANGED <<main, conn, up, down>>
  BY DEF Connect, ConnectFails, BeginRead, ClientGoes, server, TypeOK, Peer
<1> SUFFICES ASSUME Orderly(c)'
             PROVE  /\ client'[c].right /\ client'[c].heard <= Due(c)'
                    /\ Between(c)' /\ \E m \in Nat : Flow(c, m)' /\ Stage(c, m)'
  BY DEF Exchange
<1>2. Orderly(c) /\ Due(c)' = Due(c)
  BY <1>1 DEF Orderly, Due
<1>3. PICK m \in Nat : Between(c) /\ Flow(c, m) /\ Stage(c, m)
  BY <1>1, <1>2 DEF Exchange, Talks
<1>4. client[c].data = <<>> /\ client'[c].data = <<>>
  BY <1>1, <1>3 DEF Between
<1>5. Flow(c, m)'
  BY <1>1, <1>2, <1>3, <1>4 DEF Flow, Cut, Stream
<1>6. Stage(c, m)'
  <2>1. /\ Rests(c, m) => Rests(c, m)'
        /\ Reads(c, m) => Reads(c, m)'
    BY <1>1 DEF Rests, Reads, Piece
  <2>2. Settled(c, m) => Settled(c, m)'
    BY <1>1, <1>2, <2>1 DEF Settled
  <2>3. Asking(c, m) => Asking(c, m)'
    BY <1>1, <2>1 DEF Asking, Piece
  <2>4. Answering(c, m) => Answering(c, m)'
    BY <1>1, <1>2 DEF Answering, Piece
  <2>5. ServerClosed(c) => ServerClosed(c)'
    BY <1>1 DEF ServerClosed
  <2> QED BY <1>3, <2>2, <2>3, <2>4, <2>5 DEF Stage
<1>7. client'[c].right /\ client'[c].heard <= Due(c)'
  BY <1>1, <1>2 DEF Exchange
<1> QED BY <1>4, <1>5, <1>6, <1>7 DEF Between

LEMMA AskExchange ==
  ASSUME TypeOK, NEW c \in Clients, Exchange(c), Ask(c)
  PROVE  Exchange(c)'
<1> DEFINE a == client[c].asked
<1>1. PICK n \in 1 .. Size :
        /\ n = Size \/ cuts < MaxCuts
        /\ cuts' = IF n = Size THEN cuts ELSE cuts + 1
        /\ up' = IF ServerClosed(c) THEN up
                 ELSE [up EXCEPT ![c] = @ \o SubSeq(Request(c, client[c].asked + 1), 1, n)]
        /\ client' = [client EXCEPT ![c].asked = @ + 1, ![c].excused = @ \/ Awaits(c) \/ n < Size]
  BY DEF Ask
<1>2. /\ client'[c].asked = a + 1 /\ client'[c].heard = client[c].heard
      /\ client'[c].right = client[c].right
      /\ client'[c].excused = (client[c].excused \/ Awaits(c) \/ n < Size)
      /\ client'[c].pc = "ready" /\ client'[c].data = client[c].data /\ client[c].pc = "ready"
  BY <1>1 DEF Ask, TypeOK, Peer
<1> SUFFICES ASSUME Orderly(c)'
             PROVE  /\ client'[c].right /\ client'[c].heard <= Due(c)'
                    /\ Between(c)' /\ \E m \in Nat : Flow(c, m)' /\ Stage(c, m)'
  BY DEF Exchange
<1>3. Orderly(c) /\ ~ Awaits(c) /\ n = Size
  <2>1. ~ (n < Size) => n = Size
    BY SizeAssumption
  <2> QED BY <1>2, <2>1 DEF Orderly
<1>4. PICK m \in Nat : Between(c) /\ Flow(c, m) /\ Stage(c, m)
  BY <1>2, <1>3 DEF Exchange, Talks
<1>5. a \in 0 .. Requests[c] /\ a + 1 \in 1 .. Requests[c] /\ Requests[c] \in Nat
  BY ClientType, EndsType DEF Ask
<1>6. Due(c)' = Ends[c][a + 1] /\ Due(c) < Due(c)' /\ Due(c)' \in Nat /\ Due(c) \in Nat
  <2>1. Due(c)' = Ends[c][a + 1] /\ Due(c) = Ends[c][a]
    BY <1>2 DEF Due
  <2>2. a + 1 \in 0 .. Requests[c] /\ a < a + 1
    BY <1>5
  <2> QED BY <1>5, <2>1, <2>2, EndsType
<1>7. m = Due(c) /\ client[c].heard = m
  BY <1>3, <1>4, <1>6, ClientType DEF Flow, Awaits
<1>8. client[c].data = <<>>
  BY <1>2, <1>4 DEF Between
<1>9. Flow(c, m)'
  <2>1. down' = down
    BY DEF Ask
  <2>2. Cut(c)'
    BY <1>2, <1>8 DEF Cut
  <2>3. client'[c].heard <= m /\ m <= Due(c)'
    BY <1>2, <1>6, <1>7
  <2>4. client'[c].data \o down'[c] = Stream(client'[c].heard, m)
    BY <1>2, <1>4, <2>1 DEF Flow
  <2> QED BY <2>2, <2>3, <2>4 DEF Flow, Stream
<1>10. UNCHANGED <<main, conn>> /\ (ServerClosed(c) <=> ServerClosed(c)') /\ (Rests(c, m) => Rests(c, m)')
  BY DEF Ask, server, ServerClosed, Rests
<1>11. Stage(c, m)'
  <2>1. CASE ServerClosed(c)
    BY <1>10, <2>1 DEF Stage
  <2>2. CASE ~ ServerClosed(c)
    <3>1. ~ Asking(c, m)
      <4> SUFFICES ASSUME Asking(c, m) PROVE FALSE
        OBVIOUS
      <4>1. a > 0 /\ m = Ends[c][a - 1]
        BY DEF Asking
      <4>2. a - 1 \in 0 .. Requests[c] /\ a - 1 < a
        BY <1>5, <4>1
      <4>3. Ends[c][a - 1] < Ends[c][a] /\ Ends[c][a] = Due(c)
        BY <1>5, <4>2, EndsType DEF Due
      <4>4. m < m
        BY <1>7, <4>1, <4>3
      <4> QED BY <4>4
    <3>2. Rests(c, m) /\ up[c] = <<>>
      BY <1>4, <1>6, <1>7, <2>2, <3>1 DEF Stage, Settled, Answering
    <3>3. Request(c, a + 1) = Piece(m + 1)
      <4>1. (a + 1) - 1 = a
        BY <1>5
      <4> QED BY <1>7, <4>1 DEF Request, Due
    <3>4. SubSeq(Piece(m + 1), 1, Size) = Piece(m + 1)
      BY PieceType, SubSeqFull
    <3>5. up'[c] = <<>> \o Piece(m + 1)
      BY <1>1, <1>3, <2>2, <3>2, <3>3, <3>4 DEF TypeOK
    <3>6. up'[c] = Piece(m + 1)
      BY <3>5, PieceType, ConcatEmptySeq
    <3>7. client'[c].asked > 0 /\ m = Ends[c][client'[c].asked - 1]
      <4>1. (a + 1) - 1 = a /\ a + 1 > 0
        BY <1>5
      <4> QED BY <1>2, <1>7, <4>1 DEF Due
    <3>8. Asking(c, m)'
      BY <1>10, <3>2, <3>6, <3>7 DEF Asking, Piece
    <3> QED BY <3>8 DEF Stage
  <2> QED BY <2>1, <2>2
<1>12. client'[c].right /\ client'[c].heard <= Due(c)'
  <2>1. client[c].right
    BY <1>3 DEF Exchange
  <2> QED BY <1>2, <1>6, <1>7, <2>1
<1>13. Between(c)'
  BY <1>2, <1>8 DEF Between
<1> QED BY <1>9, <1>11, <1>12, <1>13

LEMMA RecvAnswerExchange ==
  ASSUME TypeOK, NEW c \in Clients, Exchange(c), RecvAnswer(c)
  PROVE  Exchange(c)'
<1>1. PICK n \in 1 .. Least(Size, Len(down[c])) :
        LET data  == client[c].data \o SubSeq(down[c], 1, n)
            taken == SubSeq(data, 1, Least(Size, Len(data))) IN
          /\ client' = [client EXCEPT ![c] =
                          [client[c] EXCEPT !.pc = "received", !.data = taken,
                             !.excused = @ \/ (Len(data) < Size /\ client[c].heard + 1 < Due(c))]]
          /\ down' = [down EXCEPT ![c] = Drop(down[c], n)]
          /\ data \in Seq(Units) /\ taken \in Seq(Units) /\ Len(taken) <= Size
          /\ n \in 0 .. Len(down[c]) /\ down[c] # <<>>
  BY RecvAnswerChange
<1> DEFINE data == client[c].data \o SubSeq(down[c], 1, n)
<1> DEFINE taken == SubSeq(data, 1, Least(Size, Len(data)))
<1> DEFINE e == client[c].excused \/ (Len(data) < Size /\ client[c].heard + 1 < Due(c))
<1>2. /\ client'[c].asked = client[c].asked /\ client'[c].heard = client[c].heard
      /\ client'[c].right = client[c].right /\ client'[c].excused = e
      /\ client'[c].pc = "received" /\ client'[c].data = taken
      /\ down'[c] = Drop(down[c], n)
  <2> DEFINE r == [client[c] EXCEPT !.pc = "received", !.data = taken, !.excused = e]
  <2>1. client' = [client EXCEPT ![c] = r] /\ down'[c] = Drop(down[c], n)
    BY <1>1 DEF TypeOK
  <2> HIDE DEF taken, e
  <2>2. /\ r.asked = client[c].asked /\ r.heard = client[c].heard /\ r.right = client[c].right
        /\ r.excused = e /\ r.pc = "received" /\ r.data = taken
    BY ClientType DEF Peer
  <2> HIDE DEF r
  <2>3. client'[c] = r
    BY <2>1 DEF TypeOK
  <2> QED BY <2>1, <2>2, <2>3
<1>3. client[c].pc = "read" /\ UNCHANGED <<main, conn, up>> /\ Due(c)' = Due(c)
  BY <1>2 DEF RecvAnswer, server, Due
<1>4. n \in 0 .. Len(down[c]) /\ n \in 1 .. Size /\ down[c] # <<>> /\ data \in Seq(Units)
  <2>1. n \in 1 .. Size
    BY ConnType, LeastType
  <2> QED BY <1>1, <2>1
<1> HIDE DEF data
<1> SUFFICES ASSUME Orderly(c)'
             PROVE  /\ client'[c].right /\ client'[c].heard <= Due(c)'
                    /\ Between(c)' /\ \E m \in Nat : Flow(c, m)' /\ Stage(c, m)'
  BY DEF Exchange
<1>5. Orderly(c) /\ ~ (Len(data) < Size /\ client[c].heard + 1 < Due(c))
  BY <1>2 DEF Orderly
<1>6. PICK m \in Nat : Between(c) /\ Flow(c, m) /\ Stage(c, m)
  BY <1>3, <1>5 DEF Exchange, Talks
<1> DEFINE h == client[c].heard
<1>7. h \in Nat /\ Due(c) \in Nat /\ client[c].data \in Seq(Units) /\ down[c] \in Seq(Units)
  BY ClientType, ConnType, DueType
<1>8. h + 1 <= m
  <2>1. client[c].data \o down[c] # <<>>
    <3>1. Len(client[c].data \o down[c]) = Len(client[c].data) + Len(down[c])
      BY <1>7, ConcatProperties
    <3>2. Len(client[c].data) \in Nat /\ Len(down[c]) \in Nat /\ Len(down[c]) # 0
      BY <1>4, <1>7, EmptySeq
    <3> QED BY <3>1, <3>2, Empties
  <2> QED BY <1>6, <1>7, <2>1, StreamLengths DEF Flow
<1>9. Len(data) = Len(client[c].data) + n /\ data \o Drop(down[c], n) = Stream(h, m)
  BY <1>4, <1>6, <1>7, TakenInOrder DEF data, Flow
<1>10. Len(data) <= Size
  <2>1. CASE client[c].data = <<>>
    BY <1>4, <1>9, <2>1, Empties
  <2>2. CASE h + 1 = Due(c)
    <3>1. m = h + 1
      BY <1>6, <1>7, <1>8, <2>2 DEF Flow
    <3>2. Len(client[c].data \o down[c]) = Size
      BY <1>6, <1>7, <3>1, StreamLengths DEF Flow
    <3> QED BY <1>4, <1>7, <3>2, PieceFits DEF data
  <2> QED BY <1>3, <1>6, <2>1, <2>2 DEF Flow, Cut
<1>11. taken = data
  BY <1>4, <1>10, Untaken
<1>12. Cut(c)'
  <2>1. CASE Len(data) < Size
    <3>1. h + 1 = Due(c)
      BY <1>5, <1>6, <1>7, <1>8, <2>1 DEF Flow
    <3> QED BY <1>2, <1>3, <3>1 DEF Cut
  <2>2. CASE ~ (Len(data) < Size)
    <3>1. Len(data) = Size
      BY <1>4, <1>10, <2>2, SizeAssumption
    <3> QED BY <1>2, <1>11, <3>1 DEF Cut
  <2> QED BY <2>1, <2>2
<1> HIDE DEF taken, e
<1>13. Flow(c, m)'
  <2>1. client'[c].heard <= m /\ m <= Due(c)'
    BY <1>2, <1>3, <1>6 DEF Flow
  <2>2. client'[c].data \o down'[c] = Stream(client'[c].heard, m)
    BY <1>2, <1>9, <1>11
  <2> QED BY <1>12, <2>1, <2>2 DEF Flow, Stream
<1>14. Stage(c, m)'
  <2>1. /\ Rests(c, m) => Rests(c, m)'
        /\ Reads(c, m) => Reads(c, m)'
    BY <1>3 DEF Rests, Reads, Piece
  <2>2. Settled(c, m) => Settled(c, m)'
    BY <1>3, <2>1 DEF Settled
  <2>3. Asking(c, m) => Asking(c, m)'
    BY <1>2, <1>3, <2>1 DEF Asking, Piece
  <2>4. Answering(c, m) => Answering(c, m)'
    BY <1>2, <1>3 DEF Answering, Piece
  <2>5. ServerClosed(c) => ServerClosed(c)'
    BY <1>3 DEF ServerClosed
  <2> QED BY <1>6, <2>2, <2>3, <2>4, <2>5 DEF Stage
<1>15. client'[c].right /\ client'[c].heard <= Due(c)'
  BY <1>2, <1>3, <1>5 DEF Exchange
<1> QED BY <1>2, <1>13, <1>14, <1>15 DEF Between

LEMMA ReadOnExchange ==
  ASSUME TypeOK, NEW c \in Clients, Exchange(c), ReadOn(c)
  PROVE  Exchange(c)'
<1> DEFINE h == client[c].heard
<1>1. /\ client[c].pc = "received" /\ client'[c].asked = client[c].asked
      /\ client'[c].excused = client[c].excused
      /\ UNCHANGED <<main, conn, up, down>>
  BY DEF ReadOn, server, TypeOK, Peer
<1> SUFFICES ASSUME Orderly(c)'
             PROVE  /\ client'[c].right /\ client'[c].heard <= Due(c)'
                    /\ Between(c)' /\ \E m \in Nat : Flow(c, m)' /\ Stage(c, m)'
  BY DEF Exchange
<1>2. Orderly(c) /\ Due(c)' = Due(c)
  BY <1>1 DEF Orderly, Due
<1>3. PICK m \in Nat : Flow(c, m) /\ Stage(c, m)
  BY <1>1, <1>2 DEF Exchange, Talks
<1>4. client[c].right /\ h <= Due(c)
  BY <1>2 DEF Exchange
<1>5. h \in Nat /\ Due(c) \in Nat /\ client[c].data \in Seq(Units) /\ down[c] \in Seq(Units)
  BY ClientType, ConnType, DueType
<1>6. Stage(c, m)'
  <2>1. /\ Rests(c, m) => Rests(c, m)'
        /\ Reads(c, m) => Reads(c, m)'
    BY <1>1 DEF Rests, Reads, Piece
  <2>2. Settled(c, m) => Settled(c, m)'
    BY <1>1, <1>2, <2>1 DEF Settled
  <2>3. Asking(c, m) => Asking(c, m)'
    BY <1>1, <2>1 DEF Asking, Piece
  <2>4. Answering(c, m) => Answering(c, m)'
    BY <1>1, <1>2 DEF Answering, Piece
  <2>5. ServerClosed(c) => ServerClosed(c)'
    BY <1>1 DEF ServerClosed
  <2> QED BY <1>3, <2>2, <2>3, <2>4, <2>5 DEF Stage
<1>7. CASE Len(client[c].data) < Size
  <2>1. /\ client'[c].pc = "read" /\ client'[c].data = client[c].data /\ client'[c].heard = h
        /\ client'[c].right = client[c].right
    BY <1>7 DEF ReadOn, TypeOK, Peer
  <2>2. Cut(c)'
    <3>1. Len(client[c].data) # Size
      BY <1>5, <1>7, SizeAssumption
    <3> QED BY <1>2, <1>3, <2>1, <3>1 DEF Flow, Cut
  <2>3. Flow(c, m)'
    BY <1>1, <1>2, <1>3, <2>1, <2>2 DEF Flow, Stream
  <2> QED BY <1>2, <1>4, <1>6, <2>1, <2>3 DEF Between
<1>8. CASE ~ (Len(client[c].data) < Size)
  <2>1. /\ client'[c].pc = "ready" /\ client'[c].data = <<>> /\ client'[c].heard = h + 1
        /\ client'[c].right = (client[c].right /\ client[c].data = Piece(h + 1))
    BY <1>8 DEF ReadOn, TypeOK, Peer
  <2>2. Len(client[c].data) = Size
    BY <1>8, ClientType, SizeAssumption
  <2>3. h + 1 <= m
    <3>1. client[c].data \o down[c] # <<>>
      <4>1. Len(client[c].data \o down[c]) = Len(client[c].data) + Len(down[c]) /\ Len(down[c]) \in Nat
        BY <1>5, ConcatProperties
      <4> QED BY <2>2, <4>1, Empties, SizeAssumption
    <3> QED BY <1>3, <1>5, <3>1, StreamLengths DEF Flow
  <2>4. client[c].data = Piece(h + 1) /\ down[c] = Stream(h + 1, m)
    BY <1>3, <1>5, <2>2, <2>3, OneLess DEF Flow
  <2>5. <<>> \o down[c] = down[c]
    BY <1>5, ConcatEmptySeq
  <2>6. Flow(c, m)'
    <3>1. client'[c].heard <= m /\ m <= Due(c)' /\ Cut(c)'
      BY <1>2, <1>3, <2>1, <2>3 DEF Flow, Cut
    <3>2. client'[c].data \o down'[c] = Stream(client'[c].heard, m)
      BY <1>1, <2>1, <2>4, <2>5
    <3> QED BY <3>1, <3>2 DEF Flow, Stream
  <2>7. client'[c].right /\ client'[c].heard <= Due(c)'
    <3>1. h + 1 <= Due(c)
      BY <1>3, <1>5, <2>3 DEF Flow
    <3> QED BY <1>2, <1>4, <2>1, <2>4, <3>1
  <2> QED BY <1>6, <2>1, <2>6, <2>7 DEF Between
<1> QED BY <1>7, <1>8

LEMMA LeaveExchange ==
  ASSUME TypeOK, NEW c \in Clients, Leave(c)
  PROVE  Exchange(c)'
<1>1. client'[c].heard = 0 /\ client'[c].asked = 0 /\ client'[c].right = TRUE /\ client'[c].pc = "closed"
  BY DEF Leave, New, TypeOK
<1>2. ~ Talks(c)' /\ Due(c)' = 0
  BY <1>1, EndsType DEF Talks, Due
<1> QED BY <1>1, <1>2 DEF Exchange

-----------------------------------------------------------------------------
(* All the clients, the queue of those that nobody has accepted, and death.   *)

LEMMA ConnectionExchange ==
  ASSUME TypeOK, Dead, NEW c \in Clients, Exchange(c), ConnectionStep(c), ~ Crash
  PROVE  Exchange(c)'
<1>1. ASSUME Closes(c), UNCHANGED <<server, backlog, client, down, cuts>> PROVE Exchange(c)'
  <2>1. conn'[c].pc = "closed"
    BY <1>1 DEF Closes, Closed, TypeOK
  <2> QED BY <1>1, <2>1, CutOff DEF ServerClosed
<1>2. CASE Loop(c)
  <2>1. CASE conn[c].run
    <3>1. /\ conn'[c].pc = "read" /\ conn'[c].data = <<>> /\ conn'[c].sent = conn[c].sent
          /\ conn'[c].wrote = conn[c].wrote /\ conn[c].pc = "test"
      BY <1>2, <2>1 DEF Loop, TypeOK, Message
    <3>2. ~ ServerClosed(c) /\ \A m \in Nat : Rests(c, m) => Rests(c, m)'
      BY <3>1, RunningIsOpen DEF Running, Rests
    <3> QED BY <1>2, <2>1, <3>1, <3>2, StillRests DEF Loop
  <2>2. CASE ~ conn[c].run
    BY <1>1, <1>2, <2>2 DEF Loop
  <2> QED BY <2>1, <2>2
<1>3. CASE Recv(c)
  BY <1>3, RecvExchange DEF Recv
<1>4. CASE RecvFails(c) \/ Throws(c) \/ SendFails(c)
  BY <1>1, <1>4 DEF RecvFails, Throws, SendFails
<1>5. CASE WriteMore(c)
  BY <1>1, <1>5, WriteMoreExchange DEF WriteMore
<1> QED BY <1>2, <1>3, <1>4, <1>5, ReadMoreExchange, SendExchange DEF ConnectionStep

\* The clients a step does not concern.
LEMMA Others ==
  ASSUME TypeOK, NEW c \in Clients, \A d \in Clients : Exchange(d), Exchange(c)',
         \A d \in Clients : d # c => /\ client'[d] = client[d] /\ conn'[d] = conn[d]
                                     /\ up'[d] = up[d] /\ down'[d] = down[d],
         main.pc = "dead" => main'.pc = "dead"
  PROVE  \A d \in Clients : Exchange(d)'
<1> SUFFICES ASSUME NEW d \in Clients, d # c PROVE Exchange(d)'
  OBVIOUS
<1> QED BY Unmoved

LEMMA CrashOrder ==
  ASSUME TypeOK, Order, Crash
  PROVE  Order'
<1>1. main'.pc = "dead" /\ acceptor' = "done" /\ UNCHANGED <<backlog, client, up, down>>
  BY DEF Crash
<1>2. \A c \in Clients : /\ ~ Running(c)' /\ (conn[c].pc = "none" => conn'[c].pc = "none")
                         /\ conn'[c].wrote = 0
  BY DEF Crash, NotYet, Closed, Running
<1>3. \A c \in Clients : Exchange(c)'
  <2> SUFFICES ASSUME NEW c \in Clients PROVE Exchange(c)'
    OBVIOUS
  <2> QED BY <1>1, CutOff DEF Order, ServerClosed
<1>4. \A i \in DOMAIN backlog : backlog[i] \in Clients
  BY DEF TypeOK
<1> QED BY <1>1, <1>2, <1>3, <1>4 DEF Order, Dead, Queued

\* A step after which the process lives on, and nobody has come or been accepted.
LEMMA SameQueue ==
  ASSUME TypeOK, Dead, Queued, UNCHANGED <<main, backlog>>, acceptor = "done" => acceptor' = "done",
         \A c \in Clients : (conn'[c].pc = "none" <=> conn[c].pc = "none") /\ (Running(c)' => Running(c)),
         \A c \in Clients : conn[c].pc = "none" => conn'[c].wrote = conn[c].wrote,
         \A c \in Clients : client'[c].pc = "new" => client[c].pc = "new"
  PROVE  Dead' /\ Queued'
<1>1. \A i \in DOMAIN backlog : backlog[i] \in Clients
  BY DEF TypeOK
<1> QED BY <1>1 DEF Dead, Queued

LEMMA MainOrder ==
  ASSUME TypeOK, Order, MainStep \/ Destroy
  PROVE  Order'
<1>1. main.pc # "dead" /\ main'.pc # "dead" /\ UNCHANGED <<acceptor, backlog, client, up, down>>
  BY DEF MainStep, Destroy, Build, JoinAcceptor, JoinConnection, Delete, TypeOK
<1>2. \A c \in Clients : conn'[c].pc = conn[c].pc /\ conn'[c].data = conn[c].data
                             /\ conn'[c].sent = conn[c].sent /\ conn'[c].wrote = conn[c].wrote
  <2>1. ASSUME NEW i, Delete(i), i > Len(connections) \/ connections[i] \in Clients
        PROVE  \A c \in Clients : conn'[c].pc = conn[c].pc /\ conn'[c].data = conn[c].data
                             /\ conn'[c].sent = conn[c].sent /\ conn'[c].wrote = conn[c].wrote
    <3>1. CASE i > Len(connections)
      BY <2>1, <3>1 DEF Delete
    <3>2. CASE ~ (i > Len(connections))
      <4> DEFINE m == [conn[connections[i]] EXCEPT !.run = FALSE]
      <4>1. conn' = [conn EXCEPT ![connections[i]] = m] /\ connections[i] \in Clients
        BY <2>1, <3>2 DEF Delete
      <4>2. /\ m.pc = conn[connections[i]].pc /\ m.data = conn[connections[i]].data
            /\ m.sent = conn[connections[i]].sent /\ m.wrote = conn[connections[i]].wrote
        BY <4>1, ConnType DEF Message
      <4> HIDE DEF m
      <4> QED BY <4>1, <4>2 DEF TypeOK
    <3> QED BY <3>1, <3>2
  <2>2. \A i \in Nat \ {0} : i > Len(connections) \/ connections[i] \in Clients
    BY DEF TypeOK
  <2>3. CASE Build \/ Destroy
    BY <2>3 DEF Build, Destroy
  <2>4. CASE JoinAcceptor
    BY <2>1, <2>2, <2>4 DEF JoinAcceptor
  <2>5. CASE JoinConnection
    <3>1. main.at + 1 \in Nat \ {0}
      BY DEF TypeOK
    <3> QED BY <2>1, <2>2, <2>5, <3>1 DEF JoinConnection
  <2> QED BY <2>3, <2>4, <2>5 DEF MainStep
<1>3. \A c \in Clients : Exchange(c)'
  <2> SUFFICES ASSUME NEW c \in Clients PROVE Exchange(c)'
    OBVIOUS
  <2> QED BY <1>1, <1>2, Unmoved DEF Order
<1>4. \A i \in DOMAIN backlog : backlog[i] \in Clients
  BY DEF TypeOK
<1> QED BY <1>1, <1>2, <1>3, <1>4 DEF Order, Dead, Queued

LEMMA AcceptOrder ==
  ASSUME TypeOK, Order, Accept
  PROVE  Order'
<1>0. PICK h \in Clients : h = Head(backlog)
  BY DEF Accept, TypeOK
<1>1. /\ h \in Clients /\ h = backlog[1] /\ 1 \in DOMAIN backlog
      /\ backlog' = Tail(backlog) /\ backlog \in Seq(Clients) /\ backlog # <<>>
  BY <1>0 DEF Accept, TypeOK
<1>2. /\ \A i \in DOMAIN backlog' : i + 1 \in DOMAIN backlog /\ backlog'[i] = backlog[i + 1] /\ i + 1 # 1
      /\ \A i, j \in DOMAIN backlog' : i # j => i + 1 # j + 1
  BY <1>1, HeadTailProperties
<1>3. /\ conn' = [conn EXCEPT ![h] = Fresh] /\ UNCHANGED <<main, client, up, down>>
      /\ acceptor # "done" /\ main.pc # "dead"
  BY <1>0 DEF Accept, Order, Dead
<1>4. \A d \in Clients : d # h => conn'[d] = conn[d]
  BY <1>3 DEF TypeOK
<1>5. conn'[h].pc = "test" /\ conn'[h].sent = 0 /\ conn'[h].wrote = 0 /\ conn[h].pc = "none"
  BY <1>1, <1>3 DEF TypeOK, Fresh, Closed, Order, Queued
<1>6. Exchange(h)'
  <2>1. ~ ServerClosed(h) /\ \A m \in Nat : Rests(h, m) => Rests(h, m)'
    <3>1. conn[h].wrote = 0
      BY <1>5 DEF Order, Queued
    <3> QED BY <1>3, <1>5, <3>1 DEF ServerClosed, Rests
  <2> QED BY <1>1, <1>3, <1>5, <2>1, StillRests DEF Order
<1>7. \A d \in Clients : Exchange(d)'
  BY <1>1, <1>3, <1>4, <1>6, Others DEF Order
<1>8. \A i \in DOMAIN backlog' : backlog'[i] # h /\ backlog'[i] \in Clients
  <2> SUFFICES ASSUME NEW i \in DOMAIN backlog' PROVE backlog'[i] # h /\ backlog'[i] \in Clients
    OBVIOUS
  <2>1. i + 1 \in DOMAIN backlog /\ backlog'[i] = backlog[i + 1] /\ i + 1 # 1
    BY <1>2
  <2>2. backlog[i + 1] # backlog[1]
    BY <1>1, <2>1 DEF Order, Queued
  <2> QED BY <1>1, <2>1, <2>2
<1>9. Queued'
  <2>1. \A i, j \in DOMAIN backlog' : i # j => backlog'[i] # backlog'[j]
    <3> SUFFICES ASSUME NEW i \in DOMAIN backlog', NEW j \in DOMAIN backlog', i # j
                 PROVE  backlog'[i] # backlog'[j]
      OBVIOUS
    <3>1. /\ i + 1 \in DOMAIN backlog /\ backlog'[i] = backlog[i + 1]
          /\ j + 1 \in DOMAIN backlog /\ backlog'[j] = backlog[j + 1] /\ i + 1 # j + 1
      BY <1>2
    <3> QED BY <3>1 DEF Order, Queued
  <2>2. \A i \in DOMAIN backlog' : conn'[backlog'[i]].pc = "none" /\ client'[backlog'[i]].pc # "new"
    BY <1>2, <1>3, <1>4, <1>8 DEF Order, Queued
  <2>3. client[h].pc # "new"
    BY <1>1 DEF Order, Queued
  <2>4. \A c \in Clients : client'[c].pc = "new" => conn'[c].pc = "none"
    BY <1>3, <1>4, <2>3 DEF Order, Queued
  <2>5. \A c \in Clients : conn'[c].pc = "none" => conn'[c].wrote = 0
    BY <1>4, <1>5 DEF Order, Queued
  <2> QED BY <2>1, <2>2, <2>4, <2>5 DEF Queued
<1>10. Dead'
  BY <1>3 DEF Dead
<1> QED BY <1>7, <1>9, <1>10 DEF Order

LEMMA AcceptorOrder ==
  ASSUME TypeOK, Order, AcceptorStep \/ TimesOut("stray") \/ AcceptKills
  PROVE  Order'
<1>1. CASE Listen \/ TestRunning \/ TimesOut("select") \/ TimesOut("stray")
  <2>1. UNCHANGED <<main, backlog, conn, client, up, down>> /\ acceptor # "done"
    BY <1>1 DEF Listen, TestRunning, TimesOut
  <2>2. \A c \in Clients : Exchange(c)'
    <3> SUFFICES ASSUME NEW c \in Clients PROVE Exchange(c)'
      OBVIOUS
    <3> QED BY <2>1, Unmoved DEF Order
  <2>3. Dead' /\ Queued'
    BY <2>1, SameQueue DEF Order, Running
  <2> QED BY <2>2, <2>3 DEF Order
<1> QED BY <1>1, AcceptOrder, CrashOrder DEF AcceptorStep, AcceptKills

LEMMA ConnectionOrder ==
  ASSUME TypeOK, Order, NEW c \in Clients, ConnectionStep(c)
  PROVE  Order'
<1>1. CASE Crash
  BY <1>1, CrashOrder
<1>2. CASE ~ Crash
  <2>1. /\ UNCHANGED <<server, backlog>> /\ Running(c) /\ conn'[c].pc # "none"
        /\ client'[c].pc = client[c].pc
        /\ \A d \in Clients : d # c => /\ client'[d] = client[d] /\ conn'[d] = conn[d]
                                       /\ up'[d] = up[d] /\ down'[d] = down[d]
    <3>1. CASE Send(c)
      BY <3>1 DEF Send, Running, TypeOK, Message, Peer
    <3>2. CASE Recv(c)
      BY <1>2, <3>2 DEF Recv, Running, TypeOK, Message
    <3>3. CASE RecvFails(c) \/ Throws(c) \/ SendFails(c)
      BY <3>3 DEF RecvFails, Throws, SendFails, Closes, Closed, Running, TypeOK
    <3>4. CASE ReadMore(c)
      BY <3>4 DEF ReadMore, Goes, Running, TypeOK, Message
    <3>5. CASE Loop(c)
      BY <3>5 DEF Loop, Closes, Closed, Running, TypeOK, Message
    <3>6. CASE WriteMore(c)
      BY <3>6 DEF WriteMore, Goes, Closes, Closed, Running, TypeOK, Message
    <3> QED BY <3>1, <3>2, <3>3, <3>4, <3>5, <3>6 DEF ConnectionStep
  <2>2. Exchange(c)'
    BY <1>2, ConnectionExchange DEF Order
  <2>3. \A d \in Clients : Exchange(d)'
    BY <2>1, <2>2, Others DEF Order, server
  <2>4. Dead' /\ Queued'
    <3>1. conn[c].pc # "none"
      BY <2>1 DEF Running
    <3>2. \A d \in Clients : (conn'[d].pc = "none" <=> conn[d].pc = "none") /\ (Running(d)' => Running(d))
      BY <2>1, <3>1 DEF Running
    <3>3. \A d \in Clients : client'[d].pc = "new" => client[d].pc = "new"
      BY <2>1
    <3>4. \A d \in Clients : conn[d].pc = "none" => conn'[d].wrote = conn[d].wrote
      BY <2>1, <3>1
    <3> QED BY <2>1, <3>2, <3>3, <3>4, SameQueue DEF Order, server
  <2> QED BY <2>3, <2>4 DEF Order
<1> QED BY <1>1, <1>2

LEMMA ClientOrder ==
  ASSUME TypeOK, Order, NEW c \in Clients, ClientStep(c)
  PROVE  Order'
<1>1. /\ UNCHANGED <<server, conn>> /\ client'[c].pc # "new"
      /\ \A d \in Clients : d # c => client'[d] = client[d] /\ up'[d] = up[d] /\ down'[d] = down[d]
  <2>1. CASE Connect(c) \/ ConnectFails(c) \/ BeginRead(c)
    BY <2>1 DEF Connect, ConnectFails, BeginRead, ClientGoes, TypeOK, Peer
  <2>2. CASE Ask(c)
    BY <2>2 DEF Ask, TypeOK, Peer
  <2>3. CASE RecvAnswer(c)
    BY <2>3 DEF RecvAnswer, TypeOK, Peer
  <2>4. CASE ReadOn(c)
    BY <2>4 DEF ReadOn, TypeOK, Peer
  <2>5. CASE Leave(c)
    BY <2>5 DEF Leave, New, TypeOK
  <2> QED BY <2>1, <2>2, <2>3, <2>4, <2>5 DEF ClientStep, ReadStep, ClientThrows
<1>2. Exchange(c)'
  BY ConnectExchange, AskExchange, RecvAnswerExchange, ReadOnExchange, LeaveExchange
     DEF Order, ClientStep, ReadStep, ClientThrows
<1>3. \A d \in Clients : Exchange(d)'
  BY <1>1, <1>2, Others DEF Order, server
<1>4. \A d \in Clients : client'[d].pc = "new" => client[d].pc = "new"
  BY <1>1
<1>5. CASE backlog' = backlog
  <2>1. Dead' /\ Queued'
    BY <1>1, <1>4, <1>5, SameQueue DEF Order, server, Running
  <2> QED BY <1>3, <2>1 DEF Order
<1>6. CASE Connect(c)
  <2>1. backlog' = Append(backlog, c) /\ client[c].pc = "new" /\ backlog \in Seq(Clients)
    BY <1>6 DEF Connect, TypeOK
  <2>2. \A i \in DOMAIN backlog' : \/ i \in DOMAIN backlog /\ backlog'[i] = backlog[i]
                                   \/ i = Len(backlog) + 1 /\ backlog'[i] = c
    BY <2>1
  <2>3. \A i \in DOMAIN backlog : backlog[i] # c /\ backlog[i] \in Clients
    BY <2>1 DEF Order, Queued
  <2>4. \A i, j \in DOMAIN backlog' : i # j => backlog'[i] # backlog'[j]
    BY <2>2, <2>3 DEF Order, Queued
  <2>5. \A i \in DOMAIN backlog' : conn'[backlog'[i]].pc = "none" /\ client'[backlog'[i]].pc # "new"
    BY <1>1, <2>1, <2>2, <2>3 DEF Order, Queued
  <2>6. \A d \in Clients : client'[d].pc = "new" => conn'[d].pc = "none"
    BY <1>1, <1>4 DEF Order, Queued
  <2>7. Dead' /\ \A d \in Clients : conn'[d].pc = "none" => conn'[d].wrote = 0
    BY <1>1 DEF Order, Dead, Queued, Running, server
  <2> QED BY <1>3, <2>4, <2>5, <2>6, <2>7 DEF Order, Queued
<1>7. backlog' = backlog \/ Connect(c)
  BY DEF ClientStep, ConnectFails, Ask, BeginRead, ReadStep, RecvAnswer, ClientThrows, ReadOn, Leave
<1> QED BY <1>5, <1>6, <1>7

LEMMA InitOrder == Init => Order
<1> SUFFICES ASSUME Init PROVE Order
  OBVIOUS
<1>1. \A c \in Clients : /\ conn[c] = NotYet /\ up[c] = <<>> /\ down[c] = <<>> /\ client[c] = New
  BY DEF Init
<1>2. ASSUME NEW c \in Clients PROVE Exchange(c)
  <2>1. /\ client[c].asked = 0 /\ client[c].heard = 0 /\ client[c].data = <<>> /\ client[c].pc = "new"
        /\ client[c].right = TRUE
        /\ conn[c].pc = "none" /\ conn[c].sent = 0 /\ conn[c].wrote = 0
    BY <1>1 DEF New, NotYet, Closed
  <2>2. Due(c) = 0
    BY <2>1, EndsType DEF Due
  <2>3. Settled(c, 0) /\ Between(c)
    BY <1>1, <2>1, <2>2 DEF Settled, Between, Rests
  <2>4. Flow(c, 0)
    <3>1. <<>> \o <<>> = Stream(0, 0)
      BY StreamLengths, Empties, ConcatEmptySeq
    <3> QED BY <1>1, <2>1, <2>2, <3>1 DEF Flow, Cut
  <2> QED BY <2>1, <2>2, <2>3, <2>4 DEF Exchange, Stage
<1>3. Dead
  BY DEF Init, Dead
<1>4. Queued
  BY <1>1 DEF Init, Queued, New, NotYet, Closed
<1> QED BY <1>2, <1>3, <1>4 DEF Order

LEMMA StepOrder == TypeOK /\ Order /\ [Next]_vars => Order'
<1> SUFFICES ASSUME TypeOK, Order, [Next]_vars PROVE Order'
  OBVIOUS
<1>1. CASE Over \/ UNCHANGED vars
  <2>1. UNCHANGED <<main, acceptor, backlog, conn, client, up, down>>
    BY <1>1 DEF Over, vars, server
  <2>2. \A c \in Clients : Exchange(c)'
    <3> SUFFICES ASSUME NEW c \in Clients PROVE Exchange(c)'
      OBVIOUS
    <3> QED BY <2>1, Unmoved DEF Order
  <2>3. Dead' /\ Queued'
    BY <2>1, SameQueue DEF Order, Running
  <2> QED BY <2>2, <2>3 DEF Order
<1> QED BY <1>1, MainOrder, AcceptorOrder, ConnectionOrder, ClientOrder DEF Next

(* Every variable of the server and of its clients keeps its type: no buffer  *)
(* is ever longer than a message, and no connection writes before it has one  *)
(* (TypeOK).                                                                  *)
THEOREM TypeCorrect == Spec => []TypeOK
<1>1. Inv => TypeOK
  BY DEF Inv
<1> QED BY <1>1, Invariant, PTL

(* Whatever the clients do, the destructor that has returned has left no      *)
(* thread of the server and no open connection, unless a thread has used a    *)
(* member that was not initialized (NoThreadIsLeft): every connection is in   *)
(* the list that it walks, and it goes on from one when that one is closed.   *)
THEOREM NothingIsLeft == Spec => []NoThreadIsLeft
<1>1. Inv => NoThreadIsLeft
  <2> SUFFICES ASSUME Inv, main.pc = "gone", ~ early
               PROVE  acceptor = "done" /\ \A c \in Clients : conn[c].pc \in {"none", "closed"}
    BY DEF NoThreadIsLeft
  <2>1. acceptor = "done" /\ \A i \in DOMAIN connections : conn[connections[i]].pc = "closed"
    BY DEF Inv, Joined
  <2> QED BY <2>1 DEF Inv, Listed, Running
<1> QED BY <1>1, Invariant, PTL

(* A client that waits for each answer before it asks again is given all the  *)
(* messages of the answers to its requests, in order and whole, for messages  *)
(* of any size and answers of any lengths, as long as no send is cut and no   *)
(* recv gives it a part of a message that others of its answer follow         *)
(* (AnswersInOrder): read() of the server and of the client ask for a whole   *)
(* message after a part of one, yet in a request and in the last message of   *)
(* an answer only the rest of it can have come.                               *)
THEOREM InOrder == Spec => []AnswersInOrder
<1>1. Inv => TypeOK
  BY DEF Inv
<1>2. Order => AnswersInOrder
  BY DEF Order, Exchange, AnswersInOrder
<1>3. Spec => []Order
  BY <1>1, InitOrder, StepOrder, Invariant, PTL DEF Spec
<1> QED BY <1>2, <1>3, PTL
=============================================================================
