---------------------------- MODULE WebSocketProofs ----------------------------
(* What holds of WebSocket for any number of channels, of starts and of        *)
(* frames: its type invariant, and that the poll thread never outlives the     *)
(* socket it uses; the two are proved together, for a step of the poll thread  *)
(* keeps the type of the socket because there is one. On them rest the order   *)
(* of the messages and that of the subscriptions.                              *)
EXTENDS WebSocket, SequenceTheorems, TLAPS

\* The channel whose subscription is being inserted is one of the channels.
InsertsAChannel == Inserting => main.channel <= Channels

Inv == TypeOK /\ SocketOutlivesThread /\ InsertsAChannel

-----------------------------------------------------------------------------
(* The records the model is built from.                                      *)

\* A socket is told apart from none by its state.
LEMMA SocketIsSome == NoSocket \notin Socket
  BY DEF NoSocket, Socket

LEMMA OpenedIsSocket == Opened \in Socket
  BY DEF Opened, Socket

\* Where there is a socket, it has the fields of one.
LEMMA SocketType ==
  ASSUME TypeOK, ws # NoSocket
  PROVE  /\ ws \in Socket
         /\ ws.tx \in Seq(Outgoing) /\ ws.rx \in Seq(Incoming) /\ ws.data \in Seq(Nat)
         /\ ws.state \in {"open", "closing", "closed"}
  BY DEF TypeOK, Socket

\* What the main thread does is one record or another, by its pc.
LEMMA MainType ==
  ASSUME TypeOK
  PROVE  /\ main.pc = "join" => main \in Stopping
         /\ main.pc = "send" => main \in Sending
  BY DEF TypeOK, Elsewhere, Stopping, Sending

\* Any frame may be taken from the head of a buffer, and any part of it kept.
LEMMA Cut ==
  ASSUME NEW S, NEW s \in Seq(S), NEW i \in Nat, NEW j \in 0 .. Len(s)
  PROVE  SubSeq(s, i + 1, j) \in Seq(S)
  OBVIOUS

\* A frame at the head of rxbuf is one, and the rest is a buffer.
LEMMA TakeType ==
  ASSUME TypeOK, ws # NoSocket, ws.rx # <<>>
  PROVE  Head(ws.rx) \in Incoming /\ Tail(ws.rx) \in Seq(Incoming) /\ Head(ws.rx).id \in Nat
<1>1. ws.rx \in Seq(Incoming)
  BY SocketType
<1>2. Head(ws.rx) \in Incoming /\ Tail(ws.rx) \in Seq(Incoming)
  BY <1>1, TypeOK
<1> QED BY <1>2 DEF Incoming

-----------------------------------------------------------------------------
(* The main thread.                                                          *)

LEMMA InitInv == Init => Inv
<1> SUFFICES ASSUME Init PROVE Inv
  OBVIOUS
<1>1. main \in Elsewhere /\ main.pc = "idle"
  BY DEF Init, Idle, Elsewhere
<1>2. starts \in 0 .. MaxStarts /\ frames \in 0 .. MaxFrames
  BY BoundsAssumption DEF Init
<1>3. <<>> \in Seq(Incoming) /\ <<>> \in Seq(Outgoing) /\ <<>> \in Seq(Nat) /\ <<>> \in Seq(Seq(Nat))
  OBVIOUS
<1>4. TypeOK
  BY <1>1, <1>2, <1>3, Zenon DEF Init, TypeOK
<1>5. SocketOutlivesThread /\ InsertsAChannel
  BY <1>1 DEF Init, SocketOutlivesThread, InsertsAChannel, Inserting
<1> QED BY <1>4, <1>5 DEF Inv

LEMMA StopsKeepInv ==
  ASSUME Inv, Start \/ Stop \/ Destroy
  PROVE  Inv'
<1>1. PICK then \in {"idle", "connect", "gone"} : BeginStop(then)
  BY DEF Start, Stop, Destroy
<1>2. main' = [pc |-> "join", then |-> then] /\ main = [pc |-> "idle"]
  BY <1>1 DEF BeginStop, Idle
<1>3. starts' \in 0 .. MaxStarts
  BY BoundsAssumption DEF Inv, TypeOK, Start, Stop, Destroy
<1>4. TypeOK'
  <2>1. main' \in Stopping
    BY <1>2 DEF Stopping
  <2> QED BY <1>1, <1>3, <2>1 DEF BeginStop, Inv, TypeOK, server
<1>5. SocketOutlivesThread'
  BY <1>1, <1>2 DEF BeginStop, Inv, SocketOutlivesThread
<1>6. InsertsAChannel'
  BY <1>2 DEF InsertsAChannel, Inserting
<1> QED BY <1>4, <1>5, <1>6 DEF Inv

LEMMA JoinedKeepsInv ==
  ASSUME Inv, Joined
  PROVE  Inv'
<1>1. main \in Stopping
  BY MainType DEF Inv, Joined
<1>2. main.then \in {"idle", "connect", "gone"} /\ main' = [pc |-> main.then]
  BY <1>1 DEF Joined, Stopping
<1>3. TypeOK'
  <2>1. main' \in Elsewhere
    BY <1>2 DEF Elsewhere
  <2>2. frames' \in 0 .. MaxFrames
    BY BoundsAssumption DEF Joined, NewConnection
  <2>3. <<>> \in Seq(Incoming) /\ <<>> \in Seq(Outgoing) /\ <<>> \in Seq(Nat) /\ <<>> \in Seq(Seq(Nat))
    OBVIOUS
  <2> QED BY <2>1, <2>2, <2>3, Zenon DEF Joined, NewConnection, Inv, TypeOK
<1>4. SocketOutlivesThread'
  BY <1>2 DEF Joined, SocketOutlivesThread
<1>5. InsertsAChannel'
  BY <1>2 DEF InsertsAChannel, Inserting
<1> QED BY <1>3, <1>4, <1>5 DEF Inv

LEMMA ConnectKeepsInv ==
  ASSUME Inv, Connect \/ ConnectFails
  PROVE  Inv'
<1>1. CASE Connect
  <2>1. main' = [pc |-> "send", channel |-> 1, busy |-> FALSE]
    BY <1>1 DEF Connect
  <2>2. TypeOK'
    <3>1. main' \in Sending
      BY <2>1, BoundsAssumption DEF Sending
    <3> QED BY <1>1, <3>1, OpenedIsSocket DEF Connect, Inv, TypeOK, server
  <2>3. SocketOutlivesThread'
    BY <1>1, OpenedIsSocket, SocketIsSome DEF Connect, SocketOutlivesThread
  <2>4. InsertsAChannel'
    BY <2>1 DEF InsertsAChannel, Inserting
  <2> QED BY <2>2, <2>3, <2>4 DEF Inv
<1>2. CASE ConnectFails
  <2>1. main' = [pc |-> "idle"] /\ main.pc = "connect"
    BY <1>2 DEF ConnectFails, Idle
  <2>2. TypeOK'
    BY <1>2, <2>1 DEF ConnectFails, Inv, TypeOK, Elsewhere, server
  <2>3. SocketOutlivesThread'
    BY <1>2, <2>1 DEF ConnectFails, Inv, SocketOutlivesThread
  <2>4. InsertsAChannel'
    BY <2>1 DEF InsertsAChannel, Inserting
  <2> QED BY <2>2, <2>3, <2>4 DEF Inv
<1> QED BY <1>1, <1>2

LEMMA SendsKeepInv ==
  ASSUME Inv, Subscribed \/ SendIgnored \/ BeginInsert \/ EndInsert
  PROVE  Inv'
<1>1. main.pc = "send" /\ main \in Sending /\ ws \in Socket
  BY MainType, SocketType
     DEF Inv, SocketOutlivesThread, Subscribed, SendIgnored, BeginInsert, EndInsert, Inserting
<1>2. main.channel \in 1 .. Channels + 1 /\ main.busy \in BOOLEAN
  BY <1>1 DEF Sending
<1>3. CASE Subscribed
  <2>1. main' = [pc |-> "idle"]
    BY <1>3 DEF Subscribed, Idle
  <2>2. TypeOK'
    BY <1>3, <2>1 DEF Subscribed, Inv, TypeOK, Elsewhere, server
  <2>3. SocketOutlivesThread' /\ InsertsAChannel'
    BY <1>3, <2>1 DEF Subscribed, Inv, SocketOutlivesThread, InsertsAChannel, Inserting
  <2> QED BY <2>2, <2>3 DEF Inv
<1>4. CASE SendIgnored
  <2>1. main' \in Sending /\ main'.busy = FALSE
    BY <1>1, <1>2, <1>4, BoundsAssumption DEF SendIgnored, Sending
  <2>2. TypeOK'
    BY <1>4, <2>1 DEF SendIgnored, Inv, TypeOK, server
  <2>3. SocketOutlivesThread' /\ InsertsAChannel'
    BY <1>1, <1>4, <2>1 DEF SendIgnored, Inv, SocketOutlivesThread, InsertsAChannel, Inserting
  <2> QED BY <2>2, <2>3 DEF Inv
<1>5. CASE BeginInsert
  <2>1. main' \in Sending /\ main'.channel = main.channel /\ main.channel <= Channels
    BY <1>1, <1>2, <1>5 DEF BeginInsert, Sending
  <2>2. TypeOK'
    BY <1>5, <2>1 DEF BeginInsert, Inv, TypeOK, server
  <2>3. SocketOutlivesThread' /\ InsertsAChannel'
    BY <1>1, <1>5, <2>1 DEF BeginInsert, Inv, SocketOutlivesThread, InsertsAChannel, Inserting
  <2> QED BY <2>2, <2>3 DEF Inv
<1>6. CASE EndInsert
  <2>1. main.channel <= Channels
    BY <1>6 DEF EndInsert, Inv, InsertsAChannel
  <2>2. main' \in Sending /\ main'.busy = FALSE
    <3>1. main' = [main EXCEPT !.busy = FALSE, !.channel = @ + 1]
      BY <1>6 DEF EndInsert
    <3>2. main.channel + 1 \in 1 .. Channels + 1
      BY <1>2, <2>1, BoundsAssumption
    <3> QED BY <1>1, <3>1, <3>2 DEF Sending
  <2>3. Subscribe(main.channel) \in Outgoing
    BY <1>2, <2>1, BoundsAssumption DEF Subscribe, Outgoing
  <2>4. ws' \in Socket
    <3>1. ws' = [ws EXCEPT !.tx = Append(@, Subscribe(main.channel))]
      BY <1>6 DEF EndInsert
    <3>2. Append(ws.tx, Subscribe(main.channel)) \in Seq(Outgoing)
      BY <1>1, <2>3 DEF Socket
    <3> QED BY <1>1, <3>1, <3>2 DEF Socket
  <2>5. TypeOK'
    BY <1>6, <2>2, <2>4 DEF EndInsert, Inv, TypeOK, server
  <2>6. SocketOutlivesThread' /\ InsertsAChannel'
    BY <2>2, <2>4, SocketIsSome DEF SocketOutlivesThread, InsertsAChannel, Inserting
  <2> QED BY <2>5, <2>6 DEF Inv
<1> QED BY <1>3, <1>4, <1>5, <1>6

-----------------------------------------------------------------------------
(* The poll thread. Its steps leave the main thread where it is, or kill     *)
(* both; what they do to the socket leaves one.                              *)

LEMMA PollerKeepsInv ==
  ASSUME Inv, ws' \in Socket, main' = main, starts' = starts, running' = running,
         poller' \in {"test", "receive", "transmit", "dispatch", "done"},
         wire' \in Seq(Incoming), frames' = frames, dropped' = dropped, said' = said, saying' = saying,
         arrived' \in Seq(Outgoing), heard' \in Seq(Seq(Nat)), raced' \in BOOLEAN
  PROVE  Inv'
<1>1. TypeOK'
  BY DEF Inv, TypeOK
<1>2. SocketOutlivesThread'
  BY SocketIsSome DEF SocketOutlivesThread
<1>3. InsertsAChannel'
  BY DEF Inv, InsertsAChannel, Inserting
<1> QED BY <1>1, <1>2, <1>3 DEF Inv

\* Both threads end together.
LEMMA DeathKeepsInv ==
  ASSUME Inv, main' = Dead, poller' = "dead", ws # NoSocket, raced' \in BOOLEAN,
         UNCHANGED <<running, ws, starts, server, arrived, heard>>
  PROVE  Inv'
<1>1. TypeOK'
  BY DEF Inv, TypeOK, Elsewhere, Dead, server
<1>2. SocketOutlivesThread' /\ InsertsAChannel'
  BY DEF SocketOutlivesThread, InsertsAChannel, Inserting, Dead
<1> QED BY <1>1, <1>2 DEF Inv

LEMMA AfterSendingType ==
  ASSUME ws \in Socket, NEW tx \in Seq(Outgoing)
  PROVE  AfterSending(tx) \in Socket
  BY DEF AfterSending, Socket

\* Whatever the race leaves of txbuf, a reply keeps it a buffer.
LEMMA ReplyType ==
  ASSUME TypeOK, ws # NoSocket, ws.rx # <<>>, NEW frame \in Outgoing,
         NEW state \in {"open", "closing", "closed"}, Reply(frame, state)
  PROVE  ws' \in Socket /\ raced' \in BOOLEAN
<1> DEFINE rest == [ws EXCEPT !.rx = Tail(@)]
<1>1. ws \in Socket /\ ws.tx \in Seq(Outgoing)
  BY SocketType
<1>2. rest \in Socket /\ rest.tx = ws.tx
  BY <1>1, TakeType DEF Socket
<1>3. CASE ws.state # "open"
  BY <1>2, <1>3 DEF Reply, TypeOK
<1>4. CASE ws.state = "open"
  <2>1. raced' \in BOOLEAN
    BY <1>4 DEF Reply, TypeOK
  <2>2. PICK lost \in 0 .. Len(ws.tx) :
          ws' = [rest EXCEPT !.tx = Append(SubSeq(@, lost + 1, Len(@)), frame), !.state = state]
    <3>1. \E lost \in IF Inserting THEN 0 .. Len(ws.tx) ELSE {0} :
            ws' = [rest EXCEPT !.tx = Append(SubSeq(@, lost + 1, Len(@)), frame), !.state = state]
      BY <1>4 DEF Reply
    <3>2. (IF Inserting THEN 0 .. Len(ws.tx) ELSE {0}) \subseteq 0 .. Len(ws.tx)
      BY <1>1
    <3> HIDE DEF rest, Inserting
    <3> QED BY <3>1, <3>2
  <2>3. Append(SubSeq(ws.tx, lost + 1, Len(ws.tx)), frame) \in Seq(Outgoing)
    <3>1. SubSeq(ws.tx, lost + 1, Len(ws.tx)) \in Seq(Outgoing)
      BY <1>1, Cut
    <3> QED BY <3>1
  <2> HIDE DEF rest
  <2>4. ws' \in Socket
    BY <1>2, <2>2, <2>3 DEF Socket
  <2> QED BY <2>1, <2>4
<1> QED BY <1>3, <1>4
(* Reading: what has come in goes behind what was not dispatched yet.        *)
LEMMA ReadingKeepsInv ==
  ASSUME Inv, TestRunning \/ Receive
  PROVE  Inv'
<1>1. ws \in Socket /\ ws.rx \in Seq(Incoming) /\ wire \in Seq(Incoming)
  BY SocketType DEF Inv, TypeOK, SocketOutlivesThread, TestRunning, Receive
<1>2. CASE TestRunning
  BY <1>1, <1>2, PollerKeepsInv DEF TestRunning, Inv, TypeOK, server
<1>3. CASE Receive /\ ws.state = "closed"
  BY <1>1, <1>3, PollerKeepsInv DEF Receive, Inv, TypeOK
<1>4. CASE Receive /\ ws.state # "closed"
  <2>1. ws.rx \o wire \in Seq(Incoming)
    BY <1>1
  <2>2. ws' = [ws EXCEPT !.rx = @ \o wire, !.state = IF dropped THEN "closed" ELSE @]
    BY <1>4 DEF Receive
  <2>3. ws' \in Socket
    BY <1>1, <2>1, <2>2 DEF Socket
  <2>4. wire' \in Seq(Incoming)
    <3>1. <<>> \in Seq(Incoming)
      OBVIOUS
    <3> QED BY <1>4, <3>1 DEF Receive
  <2> QED BY <1>4, <2>3, <2>4, PollerKeepsInv DEF Receive, Inv, TypeOK
<1> QED BY <1>2, <1>3, <1>4

\* Sending: a part of txbuf goes, the rest of it stays.
LEMMA SendingKeepsInv ==
  ASSUME Inv,
         \/ TransmitFails \/ TransmitRaces
         \/ poller = "transmit" /\ \E k \in 0 .. Len(ws.tx) : Transmit(k)
  PROVE  Inv'
<1>1. ws \in Socket /\ ws.tx \in Seq(Outgoing) /\ arrived \in Seq(Outgoing)
  BY SocketType DEF Inv, TypeOK, SocketOutlivesThread, TransmitFails, TransmitRaces
<1>2. Len(ws.tx) \in Nat
  BY <1>1
<1>3. CASE TransmitFails
  <2>1. ws' \in Socket
    BY <1>1, <1>3 DEF TransmitFails, Socket
  <2> QED BY <1>3, <2>1, PollerKeepsInv DEF TransmitFails, Inv, TypeOK, server
<1>4. CASE TransmitRaces
  <2>1. PICK lost \in 0 .. Len(ws.tx) : ws' = AfterSending(SubSeq(ws.tx, lost + 1, Len(ws.tx)))
    BY <1>4 DEF TransmitRaces
  <2>2. SubSeq(ws.tx, lost + 1, Len(ws.tx)) \in Seq(Outgoing)
    BY <1>1, <1>2, Cut
  <2>3. ws' \in Socket
    BY <1>1, <2>1, <2>2, AfterSendingType
  <2> QED BY <1>4, <2>3, PollerKeepsInv DEF TransmitRaces, Inv, TypeOK, server
<1>5. ASSUME NEW k \in 0 .. Len(ws.tx), Transmit(k)
      PROVE  Inv'
  <2>1. SubSeq(ws.tx, k + 1, Len(ws.tx)) \in Seq(Outgoing) /\ SubSeq(ws.tx, 0 + 1, k) \in Seq(Outgoing)
    BY <1>1, <1>2, Cut
  <2>2. ws' \in Socket
    BY <1>1, <1>5, <2>1, AfterSendingType DEF Transmit, Sends
  <2>3. arrived \o SubSeq(ws.tx, 1, k) \in Seq(Outgoing)
    BY <1>1, <2>1
  <2>4. arrived' \in Seq(Outgoing)
    BY <1>1, <1>5, <2>3 DEF Transmit, Sends
  <2> QED BY <1>5, <2>2, <2>4, PollerKeepsInv DEF Transmit, Inv, TypeOK, server
<1> QED BY <1>3, <1>4, <1>5

\* Dispatching: the frame at the head of rxbuf goes.
LEMMA DispatchingKeepsInv ==
  ASSUME Inv, DispatchEnds \/ Fragment \/ Message \/ Ping \/ Closing
  PROVE  Inv'
<1>1. ws \in Socket /\ ws # NoSocket /\ ws.data \in Seq(Nat)
  BY SocketType
     DEF Inv, SocketOutlivesThread, DispatchEnds, Fragment, Message, Ping, Closing, Dispatching
<1>2. CASE DispatchEnds
  BY <1>1, <1>2, PollerKeepsInv DEF DispatchEnds, Inv, TypeOK, server
<1>3. CASE Fragment
  <2>1. Tail(ws.rx) \in Seq(Incoming) /\ Append(ws.data, Head(ws.rx).id) \in Seq(Nat)
    BY <1>1, <1>3, TakeType DEF Fragment, Dispatching, Inv
  <2>2. ws' \in Socket
    BY <1>1, <1>3, <2>1 DEF Fragment, Socket
  <2> QED BY <1>3, <2>2, PollerKeepsInv DEF Fragment, Dispatching, Inv, TypeOK, server
<1>4. CASE Message
  <2>1. Tail(ws.rx) \in Seq(Incoming) /\ Append(ws.data, Head(ws.rx).id) \in Seq(Nat)
    BY <1>1, <1>4, TakeType DEF Message, Dispatching, Inv
  <2>2. ws' = [ws EXCEPT !.rx = Tail(@), !.data = <<>>]
    BY <1>4 DEF Message
  <2>3. <<>> \in Seq(Nat)
    OBVIOUS
  <2>4. ws' \in Socket
    BY <1>1, <2>1, <2>2, <2>3 DEF Socket
  <2>5. heard' \in Seq(Seq(Nat))
    <3>1. heard \in Seq(Seq(Nat))
      BY DEF Inv, TypeOK
    <3> QED BY <1>4, <2>1, <3>1 DEF Message
  <2> QED BY <1>4, <2>4, <2>5, PollerKeepsInv DEF Message, Dispatching, Inv, TypeOK, server
<1>5. CASE Ping
  <2>1. Pong \in Outgoing
    BY BoundsAssumption DEF Pong, Outgoing
  <2>2. ws' \in Socket /\ raced' \in BOOLEAN
    BY <1>1, <1>5, <2>1, ReplyType DEF Ping, Dispatching, Inv
  <2> QED BY <1>5, <2>2, PollerKeepsInv DEF Ping, Dispatching, Inv, TypeOK, server
<1>6. CASE Closing
  <2>1. Close \in Outgoing
    BY BoundsAssumption DEF Close, Outgoing
  <2>2. ws' \in Socket /\ raced' \in BOOLEAN
    BY <1>1, <1>6, <2>1, ReplyType DEF Closing, Dispatching, Inv
  <2> QED BY <1>6, <2>2, PollerKeepsInv DEF Closing, Dispatching, Inv, TypeOK, server
<1> QED BY <1>2, <1>3, <1>4, <1>5, <1>6

\* A message, or the race, that ends the program.
LEMMA KillsKeepInv ==
  ASSUME Inv, MessageKills \/ RaceKills
  PROVE  Inv'
<1>1. ws # NoSocket
  BY DEF Inv, SocketOutlivesThread, MessageKills, RaceKills, Dispatching, Inserting
<1>2. CASE MessageKills
  BY <1>1, <1>2, DeathKeepsInv DEF MessageKills, Inv, TypeOK
<1>3. CASE RaceKills
  BY <1>1, <1>3, DeathKeepsInv DEF RaceKills
<1> QED BY <1>2, <1>3

-----------------------------------------------------------------------------
(* The server.                                                               *)

LEMMA ServerKeepsInv ==
  ASSUME Inv, ServerStep
  PROVE  Inv'
<1>1. CASE Drops
  BY <1>1 DEF Drops, Inv, TypeOK, SocketOutlivesThread, InsertsAChannel, Inserting, client
<1>2. ASSUME NEW kind \in {"part", "text", "junk", "ping", "close"}, Says(kind)
      PROVE  Inv'
  <2>1. frames \in Nat /\ frames' = frames + 1 /\ frames' \in 0 .. MaxFrames
    BY <1>2, BoundsAssumption DEF Says, Inv, TypeOK
  <2>2. [kind |-> kind, id |-> frames + 1] \in Incoming
    BY <2>1 DEF Incoming
  <2>3. wire' \in Seq(Incoming)
    BY <1>2, <2>2 DEF Says, Inv, TypeOK
  <2>4. Append(saying, frames + 1) \in Seq(Nat) /\ <<>> \in Seq(Nat)
    BY <2>1 DEF Inv, TypeOK
  <2>5. saying' \in Seq(Nat)
    BY <1>2, <2>4 DEF Says, Inv, TypeOK
  <2>6. Append(said, Append(saying, frames + 1)) \in Seq(Seq(Nat))
    BY <2>4 DEF Inv, TypeOK
  <2>7. said' \in Seq(Seq(Nat))
    BY <1>2, <2>6 DEF Says, Inv, TypeOK
  <2>8. TypeOK'
    BY <1>2, <2>1, <2>3, <2>5, <2>7 DEF Says, Inv, TypeOK, client
  <2>9. SocketOutlivesThread' /\ InsertsAChannel'
    BY <1>2 DEF Says, Inv, SocketOutlivesThread, InsertsAChannel, Inserting, client
  <2> QED BY <2>8, <2>9 DEF Inv
<1> QED BY <1>1, <1>2 DEF ServerStep

-----------------------------------------------------------------------------
(* The theorems.                                                             *)

LEMMA Invariant == Spec => []Inv
<1>1. ASSUME Inv, [Next]_vars PROVE Inv'
  <2>1. CASE Start \/ Stop \/ Destroy
    BY <1>1, <2>1, StopsKeepInv
  <2>2. CASE MainStep
    BY <1>1, <2>2, JoinedKeepsInv, ConnectKeepsInv, SendsKeepInv DEF MainStep
  <2>3. CASE PollerStep
    BY <1>1, <2>3, ReadingKeepsInv, SendingKeepsInv, DispatchingKeepsInv, KillsKeepInv DEF PollerStep
  <2>4. CASE ServerStep
    BY <1>1, <2>4, ServerKeepsInv
  <2>5. CASE UNCHANGED vars
    BY <1>1, <2>5
       DEF vars, client, server, Inv, TypeOK, SocketOutlivesThread, InsertsAChannel, Inserting
  <2> QED BY <1>1, <2>1, <2>2, <2>3, <2>4, <2>5 DEF Next, Over
<1> QED BY InitInv, <1>1, PTL DEF Spec

\* Every variable of the client keeps its type, for any bounds.
THEOREM TypeCorrect == Spec => []TypeOK
<1>1. Inv => TypeOK
  BY DEF Inv
<1> QED BY <1>1, Invariant, PTL

(* No sequence of starts, stops and destruction, whether the connections     *)
(* succeed, end or race, leaves the poll thread or a send without its socket *)
(* (WebSocketClient::start and stop).                                        *)
THEOREM SocketOutlivesItsThread == Spec => []SocketOutlivesThread
<1>1. Inv => SocketOutlivesThread
  BY DEF Inv
<1> QED BY <1>1, Invariant, PTL

-----------------------------------------------------------------------------
(* Buffers: two of them, one behind the other, as one sequence.              *)

LEMMA AppendBehind ==
  ASSUME NEW S, NEW s \in Seq(S), NEW t \in Seq(S), NEW e \in S
  PROVE  s \o Append(t, e) = Append(s \o t, e)
<1> DEFINE a == Append(t, e)
           l == s \o a
           j == s \o t
           r == Append(j, e)
<1>1. a \in Seq(S) /\ Len(a) = Len(t) + 1 /\ (\A i \in 1 .. Len(t) : a[i] = t[i]) /\ a[Len(t) + 1] = e
  BY AppendProperties
<1>2. Len(s) \in Nat /\ Len(t) \in Nat
  BY LenProperties
<1>3. j \in Seq(S) /\ Len(j) = Len(s) + Len(t)
      /\ \A i \in 1 .. Len(s) + Len(t) : j[i] = IF i <= Len(s) THEN s[i] ELSE t[i - Len(s)]
  BY ConcatProperties
<1> HIDE DEF a, j
<1>4. l \in Seq(S) /\ Len(l) = Len(s) + Len(a)
      /\ \A i \in 1 .. Len(s) + Len(a) : l[i] = IF i <= Len(s) THEN s[i] ELSE a[i - Len(s)]
  BY <1>1, ConcatProperties
<1>5. r \in Seq(S) /\ Len(r) = Len(j) + 1 /\ (\A i \in 1 .. Len(j) : r[i] = j[i]) /\ r[Len(j) + 1] = e
  BY <1>3, AppendProperties
<1> HIDE DEF l, r
<1>6. Len(l) = Len(r)
  BY <1>1, <1>2, <1>3, <1>4, <1>5
<1>7. ASSUME NEW i \in 1 .. Len(l) PROVE l[i] = r[i]
  <2>1. i \in 1 .. Len(s) + Len(a)
    BY <1>4
  <2>2. CASE i <= Len(s) + Len(t)
    <3>1. i \in 1 .. Len(j) /\ i \in 1 .. Len(s) + Len(t)
      BY <2>1, <2>2, <1>2, <1>3
    <3>2. r[i] = IF i <= Len(s) THEN s[i] ELSE t[i - Len(s)]
      BY <3>1, <1>3, <1>5
    <3>3. i <= Len(s) \/ i - Len(s) \in 1 .. Len(t)
      BY <3>1, <1>2
    <3>4. l[i] = IF i <= Len(s) THEN s[i] ELSE a[i - Len(s)]
      BY <2>1, <1>4
    <3>5. i - Len(s) \in 1 .. Len(t) => a[i - Len(s)] = t[i - Len(s)]
      BY <1>1
    <3> HIDE DEF l, r
    <3> QED BY <3>2, <3>3, <3>4, <3>5
  <2>3. CASE i = Len(s) + Len(t) + 1
    <3>1. r[i] = e
      BY <2>3, <1>3, <1>5
    <3>2. ~ (i <= Len(s)) /\ i - Len(s) = Len(t) + 1
      BY <2>3, <1>2
    <3>3. l[i] = a[i - Len(s)]
      BY <2>1, <3>2, <1>4
    <3> QED BY <3>1, <3>2, <3>3, <1>1
  <2>4. i <= Len(s) + Len(t) \/ i = Len(s) + Len(t) + 1
    <3>1. Len(a) = Len(t) + 1
      BY <1>1
    <3> QED BY <2>1, <3>1, <1>2
  <2> QED BY <2>2, <2>3, <2>4
<1>8. l = r
  BY <1>4, <1>5, <1>6, <1>7, SeqEqual
<1> QED BY <1>8 DEF l, r, j, a

LEMMA TailOfBoth ==
  ASSUME NEW S, NEW s \in Seq(S), NEW t \in Seq(S), s # <<>>
  PROVE  s \o t # <<>> /\ Head(s \o t) = Head(s) /\ Tail(s \o t) = Tail(s) \o t
<1> DEFINE j == s \o t
           a == Tail(s)
           l == Tail(j)
           r == a \o t
<1>1. Len(s) \in Nat \ {0} /\ Len(t) \in Nat
  BY EmptySeq, LenProperties
<1>2. j \in Seq(S) /\ Len(j) = Len(s) + Len(t)
      /\ \A i \in 1 .. Len(s) + Len(t) : j[i] = IF i <= Len(s) THEN s[i] ELSE t[i - Len(s)]
  BY ConcatProperties
<1>3. a \in Seq(S) /\ Len(a) = Len(s) - 1 /\ \A i \in 1 .. Len(a) : a[i] = s[i + 1]
  BY HeadTailProperties
<1> HIDE DEF a, j
<1>4. j # <<>>
  BY <1>1, <1>2, EmptySeq
<1>5. l \in Seq(S) /\ Len(l) = Len(j) - 1 /\ \A i \in 1 .. Len(l) : l[i] = j[i + 1]
  BY <1>2, <1>4, HeadTailProperties
<1>6. r \in Seq(S) /\ Len(r) = Len(a) + Len(t)
      /\ \A i \in 1 .. Len(a) + Len(t) : r[i] = IF i <= Len(a) THEN a[i] ELSE t[i - Len(a)]
  BY <1>3, ConcatProperties
<1> HIDE DEF l, r
<1>7. Len(l) = Len(r)
  BY <1>1, <1>2, <1>3, <1>5, <1>6
<1>8. ASSUME NEW i \in 1 .. Len(l) PROVE l[i] = r[i]
  <2>1. l[i] = IF i + 1 <= Len(s) THEN s[i + 1] ELSE t[i + 1 - Len(s)]
    <3>1. l[i] = j[i + 1] /\ i + 1 \in 1 .. Len(s) + Len(t)
      BY <1>1, <1>2, <1>5
    <3> QED BY <1>2, <3>1
  <2>2. i \in 1 .. Len(a) + Len(t)
    BY <1>6, <1>7
  <2>3. r[i] = IF i <= Len(a) THEN a[i] ELSE t[i - Len(a)]
    BY <2>2, <1>6
  <2>4. CASE i <= Len(a)
    <3>1. i + 1 <= Len(s) /\ a[i] = s[i + 1]
      BY <2>2, <2>4, <1>1, <1>3
    <3> QED BY <3>1, <2>1, <2>3, <2>4
  <2>5. CASE ~ (i <= Len(a))
    <3>1. ~ (i + 1 <= Len(s)) /\ i - Len(a) = i + 1 - Len(s)
      BY <2>2, <2>5, <1>1, <1>3
    <3> QED BY <3>1, <2>1, <2>3, <2>5
  <2> QED BY <2>4, <2>5
<1>9. l = r
  BY <1>5, <1>6, <1>7, <1>8, SeqEqual
<1>10. Head(j) = Head(s)
  <2>1. Head(j) = j[1] /\ Head(s) = s[1]
    BY <1>2, <1>4
  <2> QED BY <2>1, <1>1, <1>2
<1> QED BY <1>4, <1>9, <1>10 DEF l, r, j, a

-----------------------------------------------------------------------------
(* The messages. The frames between the server and callback() can be read    *)
(* one after the other: what receivedData holds after each, and how many     *)
(* messages were completed, up to where the server is.                       *)

\* One frame takes receivedData from b to a, and the number of messages from m to n.
Reads(f, b, a, m, n, words) ==
  /\ f.kind = "part" => a = Append(b, f.id) /\ n = m
  /\ f.kind = "text" =>
       a = <<>> /\ n = m + 1 /\ n \in DOMAIN words /\ words[n] = Append(b, f.id)
  /\ f.kind = "junk" => a = <<>> /\ n = m
  /\ f.kind \in {"ping", "close"} => a = b /\ n = m

Reading(Q, data, count, held, words) ==
  /\ data \in [0 .. Len(Q) -> Seq(Nat)] /\ count \in [0 .. Len(Q) -> Nat]
  /\ data[Len(Q)] = held /\ count[Len(Q)] = Len(words)
  /\ \A i \in 1 .. Len(Q) : Reads(Q[i], data[i - 1], data[i], count[i - 1], count[i], words)

\* From the state b with m messages given, the frames of Q lead to held and to words.
Readable(Q, b, m, held, words) ==
  \E data \in [0 .. Len(Q) -> Seq(Nat)], count \in [0 .. Len(Q) -> Nat] :
    data[0] = b /\ count[0] = m /\ Reading(Q, data, count, held, words)

LEMMA NothingToRead ==
  ASSUME NEW b \in Seq(Nat), NEW words \in Seq(Seq(Nat))
  PROVE  Readable(<<>>, b, Len(words), b, words)
<1> DEFINE data == [i \in 0 .. 0 |-> b]
           count == [i \in 0 .. 0 |-> Len(words)]
<1>1. Len(words) \in Nat /\ Len(<<>>) = 0
  BY LenProperties
<1>2. data \in [0 .. 0 -> Seq(Nat)] /\ count \in [0 .. 0 -> Nat] /\ data[0] = b /\ count[0] = Len(words)
  BY <1>1
<1> HIDE DEF data, count
<1>3. Reading(<<>>, data, count, b, words)
  BY <1>1, <1>2 DEF Reading
<1> QED BY <1>1, <1>2, <1>3 DEF Readable

\* The frame at the head is read; from there the others are.
LEMMA ReadHead ==
  ASSUME NEW Q \in Seq(Incoming), Q # <<>>, NEW b, NEW m, NEW held, NEW words,
         Readable(Q, b, m, held, words)
  PROVE  \E a \in Seq(Nat), n \in Nat :
           Reads(Head(Q), b, a, m, n, words) /\ Readable(Tail(Q), a, n, held, words)
<1> DEFINE T == Tail(Q)
<1>1. PICK data \in [0 .. Len(Q) -> Seq(Nat)], count \in [0 .. Len(Q) -> Nat] :
        data[0] = b /\ count[0] = m /\ Reading(Q, data, count, held, words)
  BY DEF Readable
<1>2. Len(Q) \in Nat \ {0}
  BY EmptySeq
<1>3. T \in Seq(Incoming) /\ Len(T) = Len(Q) - 1 /\ \A i \in 1 .. Len(T) : T[i] = Q[i + 1]
  BY HeadTailProperties
<1>4. Head(Q) = Q[1]
  OBVIOUS
<1> HIDE DEF T
<1> DEFINE d == [i \in 0 .. Len(T) |-> data[i + 1]]
           c == [i \in 0 .. Len(T) |-> count[i + 1]]
<1>5. d \in [0 .. Len(T) -> Seq(Nat)] /\ c \in [0 .. Len(T) -> Nat]
  BY <1>1, <1>2, <1>3
<1>6. \A i \in 0 .. Len(T) : d[i] = data[i + 1] /\ c[i] = count[i + 1]
  OBVIOUS
<1> HIDE DEF d, c
<1>7. d[Len(T)] = held /\ c[Len(T)] = Len(words)
  BY <1>1, <1>2, <1>3, <1>6 DEF Reading
<1>8. ASSUME NEW i \in 1 .. Len(T)
      PROVE  Reads(T[i], d[i - 1], d[i], c[i - 1], c[i], words)
  <2>1. Reads(Q[i + 1], data[i], data[i + 1], count[i], count[i + 1], words)
    <3>1. i + 1 \in 1 .. Len(Q) /\ (i + 1) - 1 = i
      BY <1>2, <1>3
    <3> QED BY <1>1, <3>1 DEF Reading
  <2>2. i - 1 \in 0 .. Len(T) /\ i \in 0 .. Len(T) /\ (i - 1) + 1 = i
    BY <1>2, <1>3
  <2>3. d[i - 1] = data[i] /\ d[i] = data[i + 1] /\ c[i - 1] = count[i] /\ c[i] = count[i + 1]
    BY <1>6, <2>2
  <2>4. T[i] = Q[i + 1]
    BY <1>3
  <2> QED BY <2>1, <2>3, <2>4
<1>9. Readable(T, d[0], c[0], held, words)
  BY <1>5, <1>7, <1>8, Zenon DEF Readable, Reading
<1>10. 0 \in 0 .. Len(T)
  BY <1>2, <1>3
<1>11. Reads(Head(Q), b, d[0], m, c[0], words)
  <2>1. Reads(Q[1], data[0], data[1], count[0], count[1], words)
    <3>1. 1 \in 1 .. Len(Q) /\ 1 - 1 = 0
      BY <1>2
    <3> QED BY <1>1, <3>1 DEF Reading
  <2>2. d[0] = data[1] /\ c[0] = count[1]
    BY <1>6, <1>10
  <2> QED BY <1>1, <1>4, <2>1, <2>2
<1>12. d[0] \in Seq(Nat) /\ c[0] \in Nat
  BY <1>5, <1>10
<1> QED BY <1>9, <1>11, <1>12 DEF T

\* Another frame of the server is read after those that are pending.
LEMMA ReadMore ==
  ASSUME NEW Q \in Seq(Incoming), NEW b, NEW m, NEW held, NEW words \in Seq(Seq(Nat)),
         Readable(Q, b, m, held, words),
         NEW f \in Incoming, NEW a \in Seq(Nat), NEW more \in Seq(Seq(Nat)),
         Len(words) <= Len(more), \A i \in 1 .. Len(words) : more[i] = words[i],
         Reads(f, held, a, Len(words), Len(more), more)
  PROVE  Readable(Append(Q, f), b, m, a, more)
<1> DEFINE R == Append(Q, f)
<1>1. PICK data \in [0 .. Len(Q) -> Seq(Nat)], count \in [0 .. Len(Q) -> Nat] :
        data[0] = b /\ count[0] = m /\ Reading(Q, data, count, held, words)
  BY DEF Readable
<1>2. Len(Q) \in Nat /\ Len(words) \in Nat /\ Len(more) \in Nat
  BY LenProperties
<1>3. R \in Seq(Incoming) /\ Len(R) = Len(Q) + 1 /\ R[Len(Q) + 1] = f
      /\ \A i \in 1 .. Len(Q) : R[i] = Q[i]
  BY AppendProperties
<1> HIDE DEF R
<1> DEFINE d == [i \in 0 .. Len(R) |-> IF i <= Len(Q) THEN data[i] ELSE a]
           c == [i \in 0 .. Len(R) |-> IF i <= Len(Q) THEN count[i] ELSE Len(more)]
<1>4. d \in [0 .. Len(R) -> Seq(Nat)] /\ c \in [0 .. Len(R) -> Nat]
  BY <1>1, <1>2, <1>3
<1>5. \A i \in 0 .. Len(Q) : d[i] = data[i] /\ c[i] = count[i]
  BY <1>2, <1>3
<1>6. d[Len(R)] = a /\ c[Len(R)] = Len(more)
  BY <1>2, <1>3
<1> HIDE DEF d, c
<1>7. DOMAIN words = 1 .. Len(words) /\ DOMAIN more = 1 .. Len(more)
  BY LenProperties
<1>8. ASSUME NEW i \in 1 .. Len(R)
      PROVE  Reads(R[i], d[i - 1], d[i], c[i - 1], c[i], more)
  <2>1. CASE i <= Len(Q)
    <3>1. i \in 1 .. Len(Q) /\ i \in 0 .. Len(Q) /\ i - 1 \in 0 .. Len(Q)
      BY <1>2, <2>1
    <3>2. Reads(Q[i], data[i - 1], data[i], count[i - 1], count[i], words)
      BY <1>1, <3>1 DEF Reading
    <3>3. d[i - 1] = data[i - 1] /\ d[i] = data[i] /\ c[i - 1] = count[i - 1] /\ c[i] = count[i] /\ R[i] = Q[i]
      BY <1>3, <1>5, <3>1
    <3>4. \A n \in DOMAIN words : n \in DOMAIN more /\ more[n] = words[n]
      BY <1>2, <1>7
    <3> QED BY <3>2, <3>3, <3>4 DEF Reads
  <2>2. CASE i = Len(Q) + 1
    <3>1. d[i] = a /\ c[i] = Len(more) /\ R[i] = f /\ i - 1 = Len(Q)
      BY <1>2, <1>3, <1>6, <2>2
    <3>2. d[Len(Q)] = held /\ c[Len(Q)] = Len(words)
      BY <1>1, <1>2, <1>5 DEF Reading
    <3> QED BY <3>1, <3>2
  <2> QED BY <1>2, <1>3, <2>1, <2>2
<1>9. 0 \in 0 .. Len(Q)
  BY <1>2
<1>10. d[0] = b /\ c[0] = m
  BY <1>1, <1>5, <1>9
<1>11. Readable(R, b, m, a, more)
  BY <1>4, <1>6, <1>8, <1>10, Zenon DEF Readable, Reading
<1> QED BY <1>11 DEF R

(* Where the subscriptions are: in the frames that were sent and then those  *)
(* in txbuf, up to n.                                                        *)
UpTo(sent, n) ==
  /\ \A j \in DOMAIN sent : Channel(sent[j]) => sent[j].id <= n
  /\ \A c \in 1 .. n : \E j \in DOMAIN sent : sent[j] = Subscribe(c)

LEMMA CountUpStart == CountUp(<<>>) /\ UpTo(<<>>, 0)
  BY DEF CountUp, UpTo

\* What was sent counts up if it does so with what is still to be sent.
LEMMA CountUpSent ==
  ASSUME NEW s \in Seq(Outgoing), NEW t \in Seq(Outgoing), CountUp(s \o t)
  PROVE  CountUp(s)
<1> DEFINE j == s \o t
<1>1. Len(s) \in Nat /\ Len(t) \in Nat /\ DOMAIN s = 1 .. Len(s)
  BY LenProperties
<1>2. j \in Seq(Outgoing) /\ Len(j) = Len(s) + Len(t)
      /\ \A i \in 1 .. Len(s) + Len(t) : j[i] = IF i <= Len(s) THEN s[i] ELSE t[i - Len(s)]
  BY ConcatProperties
<1>3. CountUp(j)
  OBVIOUS
<1> HIDE DEF j
<1>4. DOMAIN j = 1 .. Len(s) + Len(t)
  BY <1>2, LenProperties
<1>5. \A i \in 1 .. Len(s) : i \in DOMAIN j /\ j[i] = s[i]
  BY <1>1, <1>2, <1>4
<1>6. ASSUME NEW i \in DOMAIN s, Channel(s[i])
      PROVE  /\ s[i].id >= 1
             /\ \A k \in 1 .. i - 1 : Channel(s[k]) => s[k].id < s[i].id
             /\ \A c \in 1 .. s[i].id - 1 : \E k \in 1 .. i - 1 : s[k] = Subscribe(c)
  <2>1. i \in DOMAIN j /\ j[i] = s[i]
    BY <1>1, <1>5
  <2>2. \A k \in 1 .. i - 1 : k \in 1 .. Len(s)
    BY <1>1
  <2>3. \A k \in 1 .. i - 1 : j[k] = s[k]
    BY <1>5, <2>2
  <2>4. /\ j[i].id >= 1
        /\ \A k \in 1 .. i - 1 : Channel(j[k]) => j[k].id < j[i].id
        /\ \A c \in 1 .. j[i].id - 1 : \E k \in 1 .. i - 1 : j[k] = Subscribe(c)
    BY <1>3, <1>6, <2>1 DEF CountUp
  <2> QED BY <2>1, <2>3, <2>4
<1> QED BY <1>6 DEF CountUp

\* A frame behind the others counts up with them if it is no subscription, or the next.
LEMMA CountUpAppend ==
  ASSUME NEW Q \in Seq(Outgoing), CountUp(Q), NEW f \in Outgoing,
         Channel(f) => /\ f.id >= 1
                       /\ \A k \in DOMAIN Q : Channel(Q[k]) => Q[k].id < f.id
                       /\ \A c \in 1 .. f.id - 1 : \E k \in DOMAIN Q : Q[k] = Subscribe(c)
  PROVE  CountUp(Append(Q, f))
<1> DEFINE R == Append(Q, f)
<1>1. Len(Q) \in Nat /\ DOMAIN Q = 1 .. Len(Q)
  BY LenProperties
<1>2. R \in Seq(Outgoing) /\ Len(R) = Len(Q) + 1 /\ R[Len(Q) + 1] = f
      /\ \A i \in 1 .. Len(Q) : R[i] = Q[i]
  BY AppendProperties
<1> HIDE DEF R
<1>3. DOMAIN R = 1 .. Len(Q) + 1
  BY <1>2, LenProperties
<1>4. ASSUME NEW i \in DOMAIN R, Channel(R[i])
      PROVE  /\ R[i].id >= 1
             /\ \A k \in 1 .. i - 1 : Channel(R[k]) => R[k].id < R[i].id
             /\ \A c \in 1 .. R[i].id - 1 : \E k \in 1 .. i - 1 : R[k] = Subscribe(c)
  <2>1. \A k \in 1 .. i - 1 : k \in 1 .. Len(Q)
    BY <1>1, <1>3
  <2>2. \A k \in 1 .. i - 1 : R[k] = Q[k]
    BY <1>2, <2>1
  <2>3. CASE i = Len(Q) + 1
    <3>1. R[i] = f /\ i - 1 = Len(Q)
      BY <1>1, <1>2, <2>3
    <3> QED BY <1>1, <1>4, <2>2, <3>1
  <2>4. CASE i <= Len(Q)
    <3>1. i \in DOMAIN Q /\ R[i] = Q[i]
      BY <1>1, <1>2, <1>3, <2>4
    <3>2. /\ Q[i].id >= 1
          /\ \A k \in 1 .. i - 1 : Channel(Q[k]) => Q[k].id < Q[i].id
          /\ \A c \in 1 .. Q[i].id - 1 : \E k \in 1 .. i - 1 : Q[k] = Subscribe(c)
      BY <1>4, <3>1 DEF CountUp
    <3> QED BY <2>2, <3>1, <3>2
  <2> QED BY <1>1, <1>3, <2>3, <2>4
<1>5. CountUp(R)
  BY <1>4 DEF CountUp
<1> QED BY <1>5 DEF R

\* The frames that count up to n, and another, which is no subscription or the next.
LEMMA UpToAppend ==
  ASSUME NEW Q \in Seq(Outgoing), NEW n \in Nat, UpTo(Q, n), NEW f \in Outgoing, NEW m \in {n, n + 1},
         IF m = n THEN ~ Channel(f) ELSE f = Subscribe(m)
  PROVE  UpTo(Append(Q, f), m)
<1> DEFINE R == Append(Q, f)
<1>1. Len(Q) \in Nat /\ DOMAIN Q = 1 .. Len(Q)
  BY LenProperties
<1>2. R \in Seq(Outgoing) /\ Len(R) = Len(Q) + 1 /\ R[Len(Q) + 1] = f
      /\ \A i \in 1 .. Len(Q) : R[i] = Q[i]
  BY AppendProperties
<1> HIDE DEF R
<1>3. DOMAIN R = 1 .. Len(Q) + 1
  BY <1>2, LenProperties
<1>4. ASSUME NEW j \in DOMAIN R, Channel(R[j]) PROVE R[j].id <= m
  <2>1. CASE j = Len(Q) + 1
    BY <2>1, <1>2, <1>4 DEF Subscribe
  <2>2. CASE j # Len(Q) + 1
    <3>1. j \in DOMAIN Q /\ R[j] = Q[j]
      BY <2>2, <1>1, <1>2, <1>3
    <3>2. Q[j].id <= n /\ Q[j] \in Outgoing
      BY <3>1, <1>4, ElementOfSeq, <1>1 DEF UpTo
    <3>3. Q[j].id \in Nat
      BY <3>2, BoundsAssumption DEF Outgoing
    <3> QED BY <3>1, <3>2, <3>3
  <2> QED BY <2>1, <2>2
<1>5. ASSUME NEW c \in 1 .. m PROVE \E j \in DOMAIN R : R[j] = Subscribe(c)
  <2>1. CASE c <= n
    <3>1. PICK j \in DOMAIN Q : Q[j] = Subscribe(c)
      BY <2>1 DEF UpTo
    <3>2. j \in DOMAIN R /\ R[j] = Subscribe(c)
      BY <3>1, <1>1, <1>2, <1>3
    <3> QED BY <3>2
  <2>2. CASE ~ (c <= n)
    <3>1. c = m /\ f = Subscribe(c)
      BY <2>2
    <3>2. Len(Q) + 1 \in DOMAIN R
      BY <1>1, <1>3
    <3> QED BY <3>1, <3>2, <1>2
  <2> QED BY <2>1, <2>2
<1>6. UpTo(R, m)
  BY <1>4, <1>5 DEF UpTo
<1> QED BY <1>6 DEF R

-----------------------------------------------------------------------------
(* What the traffic of a connection keeps: nothing is left of it without a   *)
(* socket; the frames on their way lead from what callback() was given to    *)
(* what the server has said; the frames sent and those to be sent count up.  *)

Fresh ==
  /\ main.pc = "connect" => ws = NoSocket
  /\ ws = NoSocket => wire = <<>> /\ arrived = <<>> /\ said = <<>> /\ saying = <<>> /\ heard = <<>>

MessagesFollow ==
  /\ Len(heard) <= Len(said) /\ \A i \in 1 .. Len(heard) : heard[i] = said[i]
  /\ ws # NoSocket => Readable(ws.rx \o wire, ws.data, Len(heard), saying, said)

Subscribing == main.pc = "send" /\ (ws.state = "open" \/ main.busy)

SubscriptionsFollow ==
  ws # NoSocket /\ ~ raced =>
    /\ CountUp(arrived \o ws.tx)
    /\ Subscribing => UpTo(arrived \o ws.tx, main.channel - 1)

Traffic == Fresh /\ MessagesFollow /\ SubscriptionsFollow

LEMMA InitTraffic == Init => Traffic
<1> SUFFICES ASSUME Init PROVE Traffic
  OBVIOUS
<1>1. Len(heard) = 0 /\ Len(said) = 0
  BY DEF Init
<1> QED BY <1>1 DEF Init, Idle, Traffic, Fresh, MessagesFollow, SubscriptionsFollow

\* The threads that have a socket use it, and do not connect.
LEMMA OnSocket ==
  ASSUME Inv, Fresh, poller \notin {"none", "done"} \/ main.pc = "send"
  PROVE  ws # NoSocket /\ ws \in Socket /\ main.pc # "connect"
  BY SocketType DEF Inv, SocketOutlivesThread, Fresh

LEMMA FreshKept ==
  ASSUME Inv, Inv', Traffic, [Next]_vars
  PROVE  Fresh'
<1>1. CASE Start \/ Stop \/ Destroy
  BY <1>1 DEF Start, Stop, Destroy, BeginStop, Idle, server, Traffic, Fresh
<1>2. CASE Joined
  BY <1>2 DEF Joined, NewConnection, Fresh
<1>3. CASE Connect
  BY <1>3, OpenedIsSocket, SocketIsSome DEF Connect, Fresh
<1>4. CASE ConnectFails
  BY <1>4 DEF ConnectFails, Idle, server, Traffic, Fresh
<1>5. CASE Subscribed \/ SendIgnored \/ BeginInsert \/ EndInsert
  <2>1. ws # NoSocket /\ main.pc = "send"
    BY <1>5, OnSocket DEF Subscribed, SendIgnored, BeginInsert, EndInsert, Inserting, Traffic
  <2>2. main \in Sending
    BY <2>1, MainType DEF Inv
  <2>3. CASE Subscribed
    BY <2>1, <2>3 DEF Subscribed, Idle, Fresh
  <2>4. CASE SendIgnored \/ BeginInsert
    <3>1. main'.pc = "send" /\ ws' = ws
      BY <2>1, <2>2, <2>4 DEF SendIgnored, BeginInsert, Sending
    <3> QED BY <2>1, <3>1 DEF Fresh
  <2>5. CASE EndInsert
    <3>1. main'.pc = "send"
      BY <2>1, <2>2, <2>5 DEF EndInsert, Sending
    <3> QED BY <3>1 DEF Inv, SocketOutlivesThread, Fresh
  <2> QED BY <1>5, <2>3, <2>4, <2>5
<1>6. CASE PollerStep
  <2>1. poller \notin {"none", "done"}
    BY <1>6 DEF PollerStep, RaceKills, TestRunning, Receive, TransmitFails, TransmitRaces, DispatchEnds,
                Fragment, Message, MessageKills, Ping, Closing, Dispatching
  <2>2. main'.pc # "connect"
    <3>1. main.pc # "connect"
      BY <2>1, OnSocket DEF Traffic
    <3>2. main' = main \/ main' = Dead
      BY <1>6 DEF PollerStep, RaceKills, TestRunning, Receive, TransmitFails, TransmitRaces, Transmit,
                DispatchEnds, Fragment, Message, MessageKills, Ping, Closing
    <3> QED BY <3>1, <3>2 DEF Dead
  <2>3. ws' # NoSocket
    <3>1. CASE TestRunning
      BY <3>1, <2>1, OnSocket DEF TestRunning, Traffic
    <3>2. CASE ~ TestRunning
      <4>1. poller' \notin {"none", "done"}
        BY <1>6, <3>2 DEF PollerStep, RaceKills, Receive, TransmitFails, TransmitRaces, Transmit,
                DispatchEnds, Fragment, Message, MessageKills, Ping, Closing, Dispatching
      <4> QED BY <4>1 DEF Inv, SocketOutlivesThread
    <3> QED BY <3>1, <3>2
  <2> QED BY <2>2, <2>3 DEF Fresh
<1>7. CASE ServerStep
  BY <1>7 DEF ServerStep, Drops, Says, Connected, client, Traffic, Fresh
<1>8. CASE UNCHANGED vars
  BY <1>8 DEF vars, client, server, Traffic, Fresh
<1> QED BY <1>1, <1>2, <1>3, <1>4, <1>5, <1>6, <1>7, <1>8 DEF Next, MainStep, Over

\* A step that leaves the buffers of the incoming frames alone.
LEMMA MessagesStay ==
  ASSUME MessagesFollow, heard' = heard, said' = said, saying' = saying, wire' = wire,
         ws' # NoSocket => ws # NoSocket /\ ws'.rx = ws.rx /\ ws'.data = ws.data
  PROVE  MessagesFollow'
  BY DEF MessagesFollow

LEMMA ReplyStays ==
  ASSUME ws \in Socket, NEW frame, NEW state, Reply(frame, state)
  PROVE  ws'.rx = Tail(ws.rx) /\ ws'.data = ws.data
  BY DEF Reply, Socket

\* A frame is dispatched: what it makes of receivedData is what Reads says.
LEMMA MessagesDispatched ==
  ASSUME Inv, Inv', MessagesFollow, ws # NoSocket, ws.rx # <<>>, ws' # NoSocket,
         ws'.rx = Tail(ws.rx), UNCHANGED <<wire, said, saying>>,
         \A a \in Seq(Nat), n \in Nat :
           Reads(Head(ws.rx), ws.data, a, Len(heard), n, said) =>
             /\ ws'.data = a /\ Len(heard') = n
             /\ heard' = heard \/ (n \in DOMAIN said /\ heard' = Append(heard, said[n]))
  PROVE  MessagesFollow'
<1>1. ws.rx \in Seq(Incoming) /\ wire \in Seq(Incoming) /\ said \in Seq(Seq(Nat)) /\ heard \in Seq(Seq(Nat))
  BY SocketType DEF Inv, TypeOK
<1> DEFINE Q == ws.rx \o wire
<1>2. Q \in Seq(Incoming) /\ Q # <<>> /\ Head(Q) = Head(ws.rx) /\ Tail(Q) = Tail(ws.rx) \o wire
  <2>1. Q \in Seq(Incoming)
    BY <1>1, ConcatProperties
  <2> DEFINE r == ws.rx
  <2>2. r \in Seq(Incoming) /\ r # <<>>
    BY <1>1
  <2> HIDE DEF r
  <2>3. r \o wire # <<>> /\ Head(r \o wire) = Head(r) /\ Tail(r \o wire) = Tail(r) \o wire
    BY <1>1, <2>2, TailOfBoth
  <2> QED BY <2>1, <2>3 DEF r
<1>3. Readable(Q, ws.data, Len(heard), saying, said)
  BY DEF MessagesFollow
<1> HIDE DEF Q
<1>4. PICK a \in Seq(Nat), n \in Nat :
        Reads(Head(Q), ws.data, a, Len(heard), n, said) /\ Readable(Tail(Q), a, n, saying, said)
  BY <1>2, <1>3, ReadHead
<1>5. /\ ws'.data = a /\ Len(heard') = n
      /\ heard' = heard \/ (n \in DOMAIN said /\ heard' = Append(heard, said[n]))
  BY <1>2, <1>4
<1>6. Readable(ws'.rx \o wire', ws'.data, Len(heard'), saying', said')
  BY <1>2, <1>4, <1>5
<1>7. Len(heard') <= Len(said) /\ \A i \in 1 .. Len(heard') : heard'[i] = said[i]
  <2>1. CASE heard' = heard
    BY <2>1 DEF MessagesFollow
  <2>2. CASE n \in DOMAIN said /\ heard' = Append(heard, said[n])
    <3>1. DOMAIN said = 1 .. Len(said) /\ Len(said) \in Nat /\ Len(heard) \in Nat
      BY <1>1, LenProperties
    <3>2. said[n] \in Seq(Nat)
      BY <1>1, <2>2, <3>1, ElementOfSeq
    <3>3. Len(heard') = Len(heard) + 1 /\ heard'[Len(heard) + 1] = said[n]
          /\ \A i \in 1 .. Len(heard) : heard'[i] = heard[i]
      BY <1>1, <2>2, <3>2, AppendProperties
    <3>4. n = Len(heard) + 1
      BY <1>5, <3>3
    <3> QED BY <2>2, <3>1, <3>3, <3>4 DEF MessagesFollow
  <2> QED BY <1>5, <2>1, <2>2
<1> QED BY <1>6, <1>7 DEF MessagesFollow

LEMMA MessagesReceived ==
  ASSUME Inv, Traffic, Receive
  PROVE  MessagesFollow'
<1>1. ws \in Socket /\ ws # NoSocket /\ MessagesFollow
  BY OnSocket DEF Receive, Traffic
<1>2. CASE ws.state = "closed"
  BY <1>1, <1>2, MessagesStay DEF Receive
<1>3. CASE ws.state # "closed"
  <2>1. wire' = <<>> /\ ws' = [ws EXCEPT !.rx = @ \o wire, !.state = IF dropped THEN "closed" ELSE @]
    BY <1>3 DEF Receive
  <2>2. ws'.rx = ws.rx \o wire /\ ws'.data = ws.data
    BY <1>1, <2>1 DEF Socket
  <2>3. ws.rx \in Seq(Incoming) /\ wire \in Seq(Incoming)
    BY <1>1 DEF Inv, TypeOK, Socket
  <2>4. ws'.rx \o wire' = ws.rx \o wire
    <3> DEFINE Q == ws.rx \o wire
    <3>1. Q \in Seq(Incoming)
      BY <2>3, ConcatProperties
    <3>2. ws'.rx = Q
      BY <2>2
    <3> HIDE DEF Q
    <3>3. Q \o <<>> = Q
      BY <3>1, ConcatEmptySeq
    <3>4. ws'.rx \o wire' = Q
      BY <2>1, <3>2, <3>3
    <3> QED BY <3>4 DEF Q
  <2>5. heard' = heard /\ said' = said /\ saying' = saying
    BY DEF Receive
  <2> QED BY <1>1, <2>2, <2>4, <2>5 DEF MessagesFollow
<1> QED BY <1>2, <1>3

LEMMA MessagesSaid ==
  ASSUME Inv, Inv', Traffic, NEW kind \in {"part", "text", "junk", "ping", "close"}, Says(kind)
  PROVE  MessagesFollow'
<1> DEFINE f == [kind |-> kind, id |-> frames + 1]
<1>1. ws # NoSocket /\ ws' = ws /\ heard' = heard
  BY DEF Says, Connected, client
<1>2. ws.rx \in Seq(Incoming) /\ wire \in Seq(Incoming) /\ said \in Seq(Seq(Nat)) /\ heard \in Seq(Seq(Nat))
      /\ said' \in Seq(Seq(Nat)) /\ saying \in Seq(Nat) /\ saying' \in Seq(Nat)
  BY <1>1, SocketType DEF Inv, TypeOK
<1>3. frames + 1 \in Nat
  BY BoundsAssumption DEF Inv, TypeOK
<1>4. f \in Incoming /\ f.kind = kind /\ f.id = frames + 1
  BY <1>3 DEF Incoming
<1>5. wire' = Append(wire, f)
  BY DEF Says
<1> HIDE DEF f
<1> DEFINE Q == ws.rx \o wire
<1>6. ws'.rx \o wire' = Append(Q, f)
  <2> DEFINE r == ws.rx
  <2>1. r \in Seq(Incoming) /\ wire \in Seq(Incoming) /\ f \in Incoming
    BY <1>2, <1>4
  <2> HIDE DEF r
  <2>2. r \o Append(wire, f) = Append(r \o wire, f)
    BY <2>1, AppendBehind
  <2>3. ws'.rx \o wire' = ws.rx \o Append(wire, f)
    BY <1>1, <1>5
  <2> QED BY <2>2, <2>3 DEF r
<1>7. Q \in Seq(Incoming)
  BY <1>2, ConcatProperties
<1>8. Readable(Q, ws.data, Len(heard), saying, said)
  BY <1>1 DEF Traffic, MessagesFollow
<1> HIDE DEF Q
<1>9. Len(said) \in Nat /\ Len(heard) \in Nat /\ Len(heard) <= Len(said)
      /\ \A i \in 1 .. Len(heard) : heard[i] = said[i]
  BY <1>2, LenProperties DEF Traffic, MessagesFollow
<1>10. /\ Len(said) <= Len(said')
       /\ \A i \in 1 .. Len(said) : said'[i] = said[i]
       /\ Reads(f, saying, saying', Len(said), Len(said'), said')
  <2>1. CASE kind = "text"
    <3>1. said' = Append(said, Append(saying, frames + 1)) /\ saying' = <<>>
      BY <2>1 DEF Says
    <3>2. Append(saying, frames + 1) \in Seq(Nat)
      BY <1>2, <1>3, AppendProperties
    <3>3. Len(said') = Len(said) + 1 /\ said'[Len(said) + 1] = Append(saying, frames + 1)
          /\ \A i \in 1 .. Len(said) : said'[i] = said[i]
      BY <1>2, <3>1, <3>2, AppendProperties
    <3>4. Len(said') \in DOMAIN said'
      BY <1>2, <1>9, <3>3, LenProperties
    <3> QED BY <2>1, <1>4, <1>9, <3>1, <3>3, <3>4 DEF Reads
  <2>2. CASE kind # "text"
    <3>1. said' = said
      BY <2>2 DEF Says
    <3>2. CASE kind = "part"
      BY <3>1, <3>2, <1>4, <1>9 DEF Says, Reads
    <3>3. CASE kind = "junk"
      BY <3>1, <3>3, <1>4, <1>9 DEF Says, Reads
    <3>4. CASE kind \in {"ping", "close"}
      BY <3>1, <3>4, <1>4, <1>9 DEF Says, Reads
    <3> QED BY <2>2, <3>2, <3>3, <3>4
  <2> QED BY <2>1, <2>2
<1>11. Readable(Append(Q, f), ws.data, Len(heard), saying', said')
  BY <1>2, <1>4, <1>7, <1>8, <1>10, ReadMore
<1>12. Len(heard') <= Len(said') /\ \A i \in 1 .. Len(heard') : heard'[i] = said'[i]
  <2>1. Len(said') \in Nat
    BY <1>2, LenProperties
  <2> QED BY <1>1, <1>9, <1>10, <2>1
<1> QED BY <1>1, <1>6, <1>11, <1>12 DEF MessagesFollow

\* A fragment, a message, or a frame that is no part of one.
LEMMA MessagesTaken ==
  ASSUME Inv, Inv', Fresh', Traffic, Fragment \/ Message \/ Ping \/ Closing
  PROVE  MessagesFollow'
<1>1. ws \in Socket /\ ws # NoSocket /\ ws.rx # <<>> /\ MessagesFollow
  BY OnSocket DEF Fragment, Message, Ping, Closing, Dispatching, Traffic
<1>2. Head(ws.rx) \in Incoming /\ heard \in Seq(Seq(Nat)) /\ Len(heard) \in Nat /\ ws.data \in Seq(Nat)
  BY <1>1, TakeType, SocketType, LenProperties DEF Inv, TypeOK
<1>3. ws' # NoSocket
  BY <1>1 DEF Inv, SocketOutlivesThread, Fragment, Message, Ping, Closing, Dispatching
<1>4. CASE Fragment
  <2>1. ws' = [ws EXCEPT !.rx = Tail(@), !.data = Append(@, Head(ws.rx).id)] /\ Head(ws.rx).kind = "part"
    BY <1>4 DEF Fragment, Dispatching
  <2>2. ws'.rx = Tail(ws.rx) /\ ws'.data = Append(ws.data, Head(ws.rx).id)
    BY <1>1, <2>1 DEF Socket
  <2>3. UNCHANGED <<wire, said, saying, heard>>
    BY <1>4 DEF Fragment, server
  <2> QED BY <1>1, <1>3, <2>1, <2>2, <2>3, MessagesDispatched DEF Reads
<1>5. CASE Message
  <2>1. ws' = [ws EXCEPT !.rx = Tail(@), !.data = <<>>] /\ Head(ws.rx).kind = "text"
    BY <1>5 DEF Message, Dispatching
  <2>2. ws'.rx = Tail(ws.rx) /\ ws'.data = <<>>
    BY <1>1, <2>1 DEF Socket
  <2>3. UNCHANGED <<wire, said, saying>> /\ heard' = Append(heard, Append(ws.data, Head(ws.rx).id))
    BY <1>5 DEF Message, server
  <2>4. Append(ws.data, Head(ws.rx).id) \in Seq(Nat)
    BY <1>1, <1>2, TakeType, AppendProperties DEF Inv
  <2>5. Len(heard') = Len(heard) + 1
    BY <1>2, <2>3, <2>4, AppendProperties
  <2> QED BY <1>1, <1>3, <2>1, <2>2, <2>3, <2>5, MessagesDispatched DEF Reads
<1>6. CASE Ping \/ Closing
  <2>1. ws'.rx = Tail(ws.rx) /\ ws'.data = ws.data
    BY <1>1, <1>6, ReplyStays DEF Ping, Closing
  <2>2. UNCHANGED <<wire, said, saying, heard>> /\ Head(ws.rx).kind \in {"ping", "close"}
    BY <1>6 DEF Ping, Closing, Dispatching, server
  <2> QED BY <1>1, <1>3, <2>1, <2>2, MessagesDispatched DEF Reads
<1> QED BY <1>4, <1>5, <1>6

LEMMA MessagesKept ==
  ASSUME Inv, Inv', Fresh', Traffic, [Next]_vars
  PROVE  MessagesFollow'
<1>1. MessagesFollow
  BY DEF Traffic
<1>2. CASE Start \/ Stop \/ Destroy
  BY <1>1, <1>2, MessagesStay DEF Start, Stop, Destroy, BeginStop, server
<1>3. CASE Joined
  <2>1. Len(heard') = 0 /\ Len(said') = 0 /\ ws' = NoSocket
    BY <1>3 DEF Joined, NewConnection
  <2> QED BY <2>1 DEF MessagesFollow
<1>4. CASE Connect
  <2>1. wire' = <<>> /\ said' = <<>> /\ saying' = <<>> /\ heard' = <<>>
    BY <1>4 DEF Connect, server, Traffic, Fresh
  <2>2. ws'.rx = <<>> /\ ws'.data = <<>>
    BY <1>4 DEF Connect, Opened
  <2>3. Readable(<<>>, <<>>, Len(<<>>), <<>>, <<>>)
    <3>1. <<>> \in Seq(Nat) /\ <<>> \in Seq(Seq(Nat))
      OBVIOUS
    <3> QED BY <3>1, NothingToRead
  <2>4. <<>> \o <<>> = <<>>
    OBVIOUS
  <2>5. Len(heard') = 0 /\ Len(said') = 0
    BY <2>1
  <2>6. Readable(ws'.rx \o wire', ws'.data, Len(heard'), saying', said')
    BY <2>1, <2>2, <2>3, <2>4
  <2> QED BY <2>5, <2>6 DEF MessagesFollow
<1>5. CASE ConnectFails \/ Subscribed \/ SendIgnored \/ BeginInsert
  BY <1>1, <1>5, MessagesStay DEF ConnectFails, Subscribed, SendIgnored, BeginInsert, server
<1>6. CASE EndInsert
  <2>1. ws \in Socket /\ ws # NoSocket
    BY <1>6, OnSocket DEF EndInsert, Inserting, Traffic
  <2>2. ws'.rx = ws.rx /\ ws'.data = ws.data
    BY <2>1, <1>6 DEF EndInsert, Socket
  <2> QED BY <1>1, <1>6, <2>1, <2>2, MessagesStay DEF EndInsert, server
<1>7. CASE PollerStep
  <2>1. CASE TestRunning \/ DispatchEnds \/ MessageKills \/ RaceKills
    BY <1>1, <2>1, MessagesStay DEF TestRunning, DispatchEnds, MessageKills, RaceKills, server
  <2>2. CASE Receive
    BY <2>2, MessagesReceived
  <2>3. CASE TransmitFails \/ TransmitRaces \/ (poller = "transmit" /\ \E k \in 0 .. Len(ws.tx) : Transmit(k))
    <3>1. ws \in Socket /\ ws # NoSocket
      BY <2>3, OnSocket DEF TransmitFails, TransmitRaces, Traffic
    <3>2. CASE TransmitFails
      BY <1>1, <3>1, <3>2, MessagesStay DEF TransmitFails, Socket, server
    <3>3. \A tx : AfterSending(tx).rx = ws.rx /\ AfterSending(tx).data = ws.data
      BY <3>1 DEF AfterSending, Socket
    <3>4. CASE TransmitRaces
      BY <1>1, <3>1, <3>3, <3>4, MessagesStay DEF TransmitRaces, server
    <3>5. CASE \E k \in 0 .. Len(ws.tx) : Transmit(k)
      BY <1>1, <3>1, <3>3, <3>5, MessagesStay DEF Transmit, Sends, server
    <3> QED BY <2>3, <3>2, <3>4, <3>5
  <2>4. CASE Fragment \/ Message \/ Ping \/ Closing
    BY <2>4, MessagesTaken
  <2> QED BY <1>7, <2>1, <2>2, <2>3, <2>4 DEF PollerStep
<1>8. CASE ServerStep
  <2>1. CASE Drops
    BY <1>1, <2>1, MessagesStay DEF Drops, client
  <2> QED BY <1>8, <2>1, MessagesSaid DEF ServerStep
<1>9. CASE UNCHANGED vars
  BY <1>1, <1>9, MessagesStay DEF vars, client, server
<1> QED BY <1>2, <1>3, <1>4, <1>5, <1>6, <1>7, <1>8, <1>9 DEF Next, MainStep, Over

-----------------------------------------------------------------------------
(* The subscriptions.                                                        *)

\* A step after which the same frames were sent or are to be sent.
LEMMA SubscriptionsStay ==
  ASSUME SubscriptionsFollow,
         ws' # NoSocket /\ ~ raced' =>
           /\ ws # NoSocket /\ ~ raced
           /\ arrived' \o ws'.tx = arrived \o ws.tx
           /\ Subscribing' => Subscribing /\ main'.channel = main.channel
  PROVE  SubscriptionsFollow'
  BY DEF SubscriptionsFollow

\* A pong or a close frame goes behind the others.
LEMMA SubscriptionsReply ==
  ASSUME Inv, SubscriptionsFollow, ws # NoSocket, ws.rx # <<>>, main' = main, arrived' = arrived,
         NEW frame \in Outgoing, ~ Channel(frame),
         NEW state \in {"open", "closing"}, Reply(frame, state)
  PROVE  SubscriptionsFollow'
<1>1. ws \in Socket /\ ws.tx \in Seq(Outgoing) /\ arrived \in Seq(Outgoing)
  BY SocketType DEF Inv, TypeOK
<1>2. CASE ws.state # "open"
  <2>1. ws'.tx = ws.tx /\ ws'.state = ws.state /\ raced' = raced
    BY <1>1, <1>2 DEF Reply, Socket
  <2> QED BY <2>1, SubscriptionsStay DEF Subscribing
<1>3. CASE ws.state = "open" /\ ~ raced'
  <2>1. ~ raced /\ ~ Inserting
    BY <1>3 DEF Reply
  <2>2. ws' = [[ws EXCEPT !.rx = Tail(@)] EXCEPT
                 !.tx = Append(SubSeq(@, 0 + 1, Len(@)), frame), !.state = state]
    BY <1>3, <2>1 DEF Reply
  <2>3. ws'.tx = Append(SubSeq(ws.tx, 1, Len(ws.tx)), frame)
    BY <1>1, <2>2 DEF Socket
  <2>4. ws'.tx = Append(ws.tx, frame)
    BY <1>1, <2>3, SubSeqFull
  <2> DEFINE t == ws.tx
  <2>5. t \in Seq(Outgoing)
    BY <1>1
  <2> DEFINE Q == arrived \o t
  <2>6. Q \in Seq(Outgoing) /\ CountUp(Q) /\ (Subscribing => UpTo(Q, main.channel - 1))
    BY <1>1, <2>1, ConcatProperties DEF SubscriptionsFollow
  <2> HIDE DEF t
  <2>7. arrived \o Append(t, frame) = Append(arrived \o t, frame)
    BY <1>1, <2>5, AppendBehind
  <2>8. arrived' \o ws'.tx = Append(Q, frame)
    BY <2>4, <2>7 DEF t
  <2> HIDE DEF Q
  <2>9. CountUp(Append(Q, frame))
    BY <2>6, CountUpAppend
  <2>10. ASSUME Subscribing'
         PROVE  UpTo(Append(Q, frame), main'.channel - 1)
    <3>1. main.pc = "send" /\ Subscribing
      BY <1>3, <2>10 DEF Subscribing
    <3>2. main.channel \in 1 .. Channels + 1
      BY <3>1, MainType DEF Inv, Sending
    <3>3. main.channel - 1 \in Nat
      BY <3>2, BoundsAssumption
    <3>4. UpTo(Q, main.channel - 1)
      BY <3>1, <2>6
    <3> DEFINE n == main.channel - 1
    <3> HIDE DEF n
    <3>5. n \in Nat /\ UpTo(Q, n)
      BY <3>3, <3>4 DEF n
    <3>6. UpTo(Append(Q, frame), n)
      BY <2>6, <3>5, UpToAppend
    <3> QED BY <3>6 DEF n
  <2> QED BY <2>8, <2>9, <2>10 DEF SubscriptionsFollow
<1> QED BY <1>2, <1>3 DEF SubscriptionsFollow

\* The next subscription goes behind the others.
LEMMA SubscriptionInserted ==
  ASSUME Inv, Traffic, EndInsert
  PROVE  SubscriptionsFollow'
<1> SUFFICES ASSUME ~ raced PROVE SubscriptionsFollow'
  BY DEF EndInsert, SubscriptionsFollow
<1>1. ws \in Socket /\ ws # NoSocket /\ main \in Sending /\ main.pc = "send" /\ main.busy
  BY OnSocket, MainType DEF EndInsert, Inserting, Traffic, Inv
<1>2. ws.tx \in Seq(Outgoing) /\ arrived \in Seq(Outgoing)
  BY <1>1 DEF Inv, TypeOK, Socket
<1>3. main.channel \in 1 .. Channels /\ main'.channel = main.channel + 1
  BY <1>1, BoundsAssumption DEF EndInsert, Inv, InsertsAChannel, Sending
<1> DEFINE n == main.channel - 1
           f == Subscribe(main.channel)
           t == ws.tx
           Q == arrived \o t
<1>4. n \in Nat /\ n + 1 = main.channel /\ f = Subscribe(n + 1)
  BY <1>3, BoundsAssumption
<1>5. f \in Outgoing /\ f.id = n + 1
  BY <1>3, BoundsAssumption DEF Subscribe, Outgoing
<1>6. ws'.tx = Append(t, f)
  BY <1>1 DEF EndInsert, Socket
<1>7. Q \in Seq(Outgoing) /\ CountUp(Q) /\ UpTo(Q, n)
  BY <1>1, <1>2, ConcatProperties DEF Traffic, SubscriptionsFollow, Subscribing
<1>8. t \in Seq(Outgoing)
  BY <1>2
<1> HIDE DEF f, t, n
<1>9. arrived \o Append(t, f) = Append(Q, f)
  BY <1>2, <1>5, <1>8, AppendBehind
<1>10. arrived' \o ws'.tx = Append(Q, f)
  BY <1>6, <1>9 DEF EndInsert
<1> HIDE DEF Q
<1>11. CountUp(Append(Q, f))
  <2>1. ASSUME NEW k \in DOMAIN Q, Channel(Q[k]) PROVE Q[k].id < f.id
    <3>1. Q[k].id <= n /\ Q[k] \in Outgoing
      BY <1>7, <2>1, ElementOfSeq, LenProperties DEF UpTo
    <3>2. Q[k].id \in Nat
      BY <3>1, BoundsAssumption DEF Outgoing
    <3> QED BY <3>1, <3>2, <1>4, <1>5
  <2>2. \A c \in 1 .. f.id - 1 : \E k \in DOMAIN Q : Q[k] = Subscribe(c)
    BY <1>4, <1>5, <1>7 DEF UpTo
  <2>3. f.id >= 1
    BY <1>4, <1>5
  <2> QED BY <1>5, <1>7, <2>1, <2>2, <2>3, CountUpAppend
<1>12. UpTo(Append(Q, f), n + 1)
  <2>1. n + 1 # n
    BY <1>4
  <2> QED BY <1>4, <1>5, <1>7, <2>1, UpToAppend
<1>13. main'.channel - 1 = n + 1
  BY <1>3, <1>4
<1> QED BY <1>10, <1>11, <1>12, <1>13 DEF SubscriptionsFollow

\* send() takes the first frames of txbuf: the same frames are sent or to be sent.
LEMMA SubscriptionsSent ==
  ASSUME Inv, Traffic, ws # NoSocket, NEW k \in 0 .. Len(ws.tx), Transmit(k)
  PROVE  SubscriptionsFollow'
<1>1. ws \in Socket /\ ws.tx \in Seq(Outgoing) /\ arrived \in Seq(Outgoing)
  BY SocketType DEF Inv, TypeOK
<1>2. main' = main /\ raced' = raced /\ ws' = AfterSending(SubSeq(ws.tx, k + 1, Len(ws.tx)))
  BY DEF Transmit, Sends
<1>3. ws'.tx = SubSeq(ws.tx, k + 1, Len(ws.tx)) /\ (ws'.state = "open" => ws.state = "open")
  BY <1>1, <1>2 DEF AfterSending, Socket
<1>4. ~ raced => arrived' \o ws'.tx = arrived \o ws.tx
  <2> SUFFICES ASSUME ~ raced PROVE arrived' \o ws'.tx = arrived \o ws.tx
    OBVIOUS
  <2> DEFINE t == ws.tx
             a == SubSeq(t, 1, k)
             b == SubSeq(t, k + 1, Len(t))
  <2>1. t \in Seq(Outgoing) /\ k \in 0 .. Len(t) /\ Len(t) \in Nat
    BY <1>1, LenProperties
  <2>2. arrived' = arrived \o a /\ ws'.tx = b
    BY <1>3 DEF Transmit, Sends
  <2>3. arrived \o t = arrived \o ws.tx
    OBVIOUS
  <2> HIDE DEF t
  <2>4. a \in Seq(Outgoing)
    <3>1. SubSeq(t, 0 + 1, k) \in Seq(Outgoing)
      BY <2>1, Cut
    <3> QED BY <3>1
  <2>5. b \in Seq(Outgoing)
    <3>1. Len(t) \in 0 .. Len(t)
      BY <2>1
    <3> QED BY <2>1, <3>1, Cut
  <2>6. a \o b = t
    <3>1. 1 \in 1 .. Len(t) + 1 /\ k \in 1 - 1 .. Len(t) /\ Len(t) \in k .. Len(t)
      BY <2>1
    <3>2. a \o b = SubSeq(t, 1, Len(t))
      BY <2>1, <3>1, ConcatAdjacentSubSeq
    <3> QED BY <2>1, <3>2, SubSeqFull
  <2> HIDE DEF a, b
  <2>7. (arrived \o a) \o b = arrived \o (a \o b)
    BY <1>1, <2>4, <2>5, ConcatAssociative
  <2> QED BY <2>2, <2>3, <2>6, <2>7
<1> QED BY <1>2, <1>3, <1>4, SubscriptionsStay DEF Traffic, Subscribing

LEMMA SubscriptionsKept ==
  ASSUME Inv, Inv', Fresh', Traffic, [Next]_vars
  PROVE  SubscriptionsFollow'
<1>1. SubscriptionsFollow
  BY DEF Traffic
<1>2. CASE Start \/ Stop \/ Destroy
  BY <1>1, <1>2, SubscriptionsStay DEF Start, Stop, Destroy, BeginStop, Subscribing
<1>3. CASE Joined
  BY <1>3 DEF Joined, SubscriptionsFollow
<1>4. CASE Connect
  <2>1. arrived' = <<>> /\ ws'.tx = <<>> /\ main'.channel - 1 = 0
    BY <1>4 DEF Connect, Opened, Traffic, Fresh
  <2>2. <<>> \o <<>> = <<>>
    OBVIOUS
  <2> QED BY <2>1, <2>2, CountUpStart DEF SubscriptionsFollow
<1>5. CASE ConnectFails \/ Subscribed
  BY <1>1, <1>5, SubscriptionsStay DEF ConnectFails, Subscribed, Idle, Subscribing
<1>6. CASE SendIgnored \/ BeginInsert
  <2>1. main \in Sending /\ main.busy = FALSE /\ main.pc = "send"
    BY <1>6, MainType DEF SendIgnored, BeginInsert, Inv, Sending
  <2>2. CASE SendIgnored
    <3>1. main'.busy = FALSE /\ ws' = ws /\ ws.state # "open"
      BY <2>1, <2>2 DEF SendIgnored, Sending
    <3> QED BY <1>1, <2>2, <3>1, SubscriptionsStay DEF SendIgnored, Subscribing
  <2>3. CASE BeginInsert
    <3>1. main'.channel = main.channel /\ ws' = ws /\ ws.state = "open"
      BY <2>1, <2>3 DEF BeginInsert, Sending
    <3> QED BY <1>1, <2>1, <2>3, <3>1, SubscriptionsStay DEF BeginInsert, Subscribing
  <2> QED BY <1>6, <2>2, <2>3
<1>7. CASE EndInsert
  BY <1>7, SubscriptionInserted
<1>8. CASE PollerStep
  <2>1. CASE TestRunning \/ DispatchEnds
    BY <1>1, <2>1, SubscriptionsStay DEF TestRunning, DispatchEnds, Subscribing
  <2>2. CASE MessageKills
    BY <1>1, <2>2, SubscriptionsStay DEF MessageKills, Subscribing, Dead
  <2>3. CASE RaceKills
    BY <2>3 DEF RaceKills, SubscriptionsFollow
  <2>4. CASE Receive \/ TransmitFails \/ Fragment \/ Message
    <3>1. ws \in Socket /\ ws # NoSocket
      BY <2>4, OnSocket DEF Receive, TransmitFails, Fragment, Message, Dispatching, Traffic
    <3>2. ws'.tx = ws.tx /\ (ws'.state = "open" => ws.state = "open")
      <4>1. CASE Receive
        BY <3>1, <4>1 DEF Receive, Socket
      <4>2. CASE TransmitFails
        BY <3>1, <4>2 DEF TransmitFails, Socket
      <4>3. CASE Fragment
        BY <3>1, <4>3 DEF Fragment, Socket
      <4>4. CASE Message
        BY <3>1, <4>4 DEF Message, Socket
      <4> QED BY <2>4, <4>1, <4>2, <4>3, <4>4
    <3>3. main' = main /\ arrived' = arrived /\ raced' = raced
      BY <2>4 DEF Receive, TransmitFails, Fragment, Message
    <3> QED BY <1>1, <3>1, <3>2, <3>3, SubscriptionsStay DEF Subscribing
  <2>5. CASE TransmitRaces
    BY <2>5 DEF TransmitRaces, SubscriptionsFollow
  <2>6. CASE poller = "transmit" /\ \E k \in 0 .. Len(ws.tx) : Transmit(k)
    <3>1. ws # NoSocket
      BY <2>6, OnSocket DEF Traffic
    <3>2. PICK k \in 0 .. Len(ws.tx) : Transmit(k)
      BY <2>6
    <3> QED BY <3>1, <3>2, SubscriptionsSent
  <2>7. CASE Ping \/ Closing
    <3>1. ws # NoSocket /\ ws.rx # <<>> /\ main' = main /\ arrived' = arrived
      BY <2>7, OnSocket DEF Ping, Closing, Dispatching, Traffic
    <3>2. Pong \in Outgoing /\ ~ Channel(Pong) /\ Close \in Outgoing /\ ~ Channel(Close)
      BY BoundsAssumption DEF Pong, Close, Outgoing, Channel
    <3>3. Reply(Pong, "open") \/ Reply(Close, "closing")
      BY <2>7 DEF Ping, Closing
    <3>4. CASE Reply(Pong, "open")
      BY <1>1, <3>1, <3>2, <3>4, SubscriptionsReply
    <3>5. CASE Reply(Close, "closing")
      BY <1>1, <3>1, <3>2, <3>5, SubscriptionsReply
    <3> QED BY <3>3, <3>4, <3>5
  <2> QED BY <1>8, <2>1, <2>2, <2>3, <2>4, <2>5, <2>6, <2>7 DEF PollerStep
<1>9. CASE ServerStep
  <2>1. main' = main /\ ws' = ws /\ arrived' = arrived /\ raced' = raced
    BY <1>9 DEF ServerStep, Drops, Says, client
  <2> QED BY <1>1, <2>1, SubscriptionsStay DEF Subscribing
<1>10. CASE UNCHANGED vars
  BY <1>1, <1>10, SubscriptionsStay DEF vars, client, server, Subscribing
<1> QED BY <1>2, <1>3, <1>4, <1>5, <1>6, <1>7, <1>8, <1>9, <1>10 DEF Next, MainStep, Over

-----------------------------------------------------------------------------
(* The theorems about the traffic.                                           *)

LEMMA TrafficFollows == Spec => [](Inv /\ Traffic)
<1>1. ASSUME Inv, Inv', Traffic, [Next]_vars PROVE Traffic'
  BY <1>1, FreshKept, MessagesKept, SubscriptionsKept DEF Traffic
<1> QED BY Invariant, InitTraffic, <1>1, PTL DEF Spec

(* However the messages of the server are cut into frames, however many of   *)
(* these wait, and whatever pings and close frames are between them, what    *)
(* callback() was given is a beginning of what the server said (dispatch).   *)
THEOREM MessagesComeInOrder == Spec => []MessagesInOrder
<1>1. Inv /\ Traffic => MessagesInOrder
  <2> SUFFICES ASSUME Inv, Traffic PROVE MessagesInOrder
    OBVIOUS
  <2>1. DOMAIN heard = 1 .. Len(heard) /\ DOMAIN said = 1 .. Len(said) /\ Len(heard) \in Nat /\ Len(said) \in Nat
    BY LenProperties DEF Inv, TypeOK
  <2> QED BY <2>1 DEF Traffic, MessagesFollow, MessagesInOrder
<1> QED BY <1>1, TrafficFollows, PTL

(* Until both threads are in txbuf at once, the subscriptions arrive in the  *)
(* order of the channels, each once (PusherClient::start over sendData).     *)
THEOREM SubscriptionsComeInOrder == Spec => []SubscriptionsInOrder
<1>1. Inv /\ Traffic => SubscriptionsInOrder
  <2> SUFFICES ASSUME Inv, Traffic, ~ raced PROVE CountUp(arrived)
    BY DEF SubscriptionsInOrder
  <2>1. CASE ws = NoSocket
    BY <2>1, CountUpStart DEF Traffic, Fresh
  <2>2. CASE ws # NoSocket
    <3> DEFINE t == ws.tx
    <3>1. t \in Seq(Outgoing) /\ arrived \in Seq(Outgoing) /\ CountUp(arrived \o t)
      BY <2>2, SocketType DEF Inv, TypeOK, Traffic, SubscriptionsFollow
    <3> HIDE DEF t
    <3> QED BY <3>1, CountUpSent
  <2> QED BY <2>1, <2>2
<1> QED BY <1>1, TrafficFollows, PTL
=============================================================================
