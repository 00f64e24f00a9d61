------------------------------ MODULE WebSocket ------------------------------
(* network/WebSocketClient.hpp and network/Pusher.hpp over the WebSocket of  *)
(* easywsclient.cpp: start, stop and the destructor on the main thread, the  *)
(* poll thread they start and join, and the server at the other end.         *)
(* A frame is in a buffer once all its bytes are; _ws and what it points to  *)
(* are one record, or NoSocket. txbuf is a std::vector that both threads     *)
(* use without a lock: see Transmit and Reply.                               *)
(* Op_Fault is a faulty variant of Op, as in Source.                         *)
EXTENDS Naturals, Sequences

CONSTANTS Channels,     \* how many channels the subscriptions name
          MaxStarts,    \* bound: calls of start()
          MaxFrames     \* bound: frames the server sends on a connection

ASSUME BoundsAssumption == Channels \in Nat /\ MaxStarts \in Nat /\ MaxFrames \in Nat

VARIABLES
  running,  \* _is_running
  ws,       \* _ws: readyState, txbuf, rxbuf and receivedData
  poller,   \* where the poll thread is; "none" when _thread is NULL
  main,     \* where the main thread is
  starts,   \* how many times start() was called
  wire,     \* frames from the server that were not received yet
  frames,   \* how many frames the server has sent
  dropped,  \* the server, or the network, has closed the connection
  arrived,  \* ghost: the frames the client has sent, until the threads have raced
  said,     \* ghost: the messages the server has completed
  saying,   \* ghost: the fragments of the message it is sending
  heard,    \* ghost: the messages callback() was given
  raced     \* ghost: both threads have used txbuf at the same time

client == <<running, ws, poller, main, starts>>
server == <<wire, frames, dropped, said, saying>>
vars   == <<client, server, arrived, heard, raced>>

NoSocket == [state |-> "none"]
Opened   == [state |-> "open", tx |-> <<>>, rx |-> <<>>, data |-> <<>>]

Subscribe(c) == [kind |-> "subscribe", id |-> c]
Pong  == [kind |-> "pong", id |-> 0]
Close == [kind |-> "close", id |-> 0]

Idle == [pc |-> "idle"]
Dead == [pc |-> "dead"]   \* std::terminate, a pure virtual call, a corrupted heap

\* The main thread is inside sendData, between its first look at txbuf and its last.
Inserting == main.pc = "send" /\ main.busy

Init ==
  /\ running = FALSE /\ ws = NoSocket /\ poller = "none"
  /\ main = Idle /\ starts = 0
  /\ wire = <<>> /\ frames = 0 /\ dropped = FALSE
  /\ arrived = <<>> /\ said = <<>> /\ saying = <<>> /\ heard = <<>>
  /\ raced = FALSE

\* What travels on a connection is forgotten with it.
NewConnection ==
  /\ wire' = <<>> /\ frames' = 0 /\ dropped' = FALSE
  /\ arrived' = <<>> /\ said' = <<>> /\ saying' = <<>> /\ heard' = <<>>
  /\ raced' = FALSE

-----------------------------------------------------------------------------
(* The main thread.                                                          *)

\* stop(), from start(), from the program or from the destructor: the flag ...
BeginStop(then) ==
  /\ main = Idle
  /\ running' = FALSE
  /\ main' = [pc |-> "join", then |-> then]
  /\ UNCHANGED <<ws, poller, server, arrived, heard, raced>>

Start == starts < MaxStarts /\ starts' = starts + 1 /\ BeginStop("connect")
Stop  == UNCHANGED starts /\ BeginStop("idle")
Destroy == UNCHANGED starts /\ BeginStop("gone")

Joined_Detached ==
  /\ main.pc = "join"
  /\ ws' = NoSocket
  /\ main' = [pc |-> main.then]
  /\ NewConnection
  /\ UNCHANGED <<running, poller, starts>>

(* ... then join, and close and delete the socket. The close frame goes to   *)
(* a buffer that nobody sends any more, so the server is not told.           *)
Joined ==
  /\ main.pc = "join"
  /\ poller \in {"none", "done"}
  /\ poller' = "none"
  /\ ws' = NoSocket
  /\ main' = [pc |-> main.then]
  /\ NewConnection
  /\ UNCHANGED <<running, starts>>

\* The rest of WebSocketClient::start: the socket, then the thread.
Connect ==
  /\ main.pc = "connect"
  /\ running' = TRUE
  /\ ws' = Opened /\ poller' = "test"
  /\ main' = [pc |-> "send", channel |-> 1, busy |-> FALSE]
  /\ UNCHANGED <<starts, server, arrived, heard, raced>>

\* from_url returns NULL and start throws; _is_running stays true.
ConnectFails ==
  /\ main.pc = "connect"
  /\ running' = TRUE
  /\ main' = Idle
  /\ UNCHANGED <<ws, poller, starts, server, arrived, heard, raced>>

\* PusherClient::start: one "pusher:subscribe" for each channel, in order.
Subscribed ==
  /\ main.pc = "send" /\ main.channel > Channels
  /\ main' = Idle
  /\ UNCHANGED <<running, ws, poller, starts, server, arrived, heard, raced>>

SendIgnored_Open ==
  /\ main.pc = "send" /\ ~ main.busy /\ main.channel <= Channels
  /\ ws.state = "open"
  /\ main' = [main EXCEPT !.channel = @ + 1]
  /\ UNCHANGED <<running, ws, poller, starts, server, arrived, heard, raced>>

\* sendData returns at once when the socket is closing or closed ...
SendIgnored ==
  /\ main.pc = "send" /\ ~ main.busy /\ main.channel <= Channels
  /\ ws.state # "open"
  /\ main' = [main EXCEPT !.channel = @ + 1]
  /\ UNCHANGED <<running, ws, poller, starts, server, arrived, heard, raced>>

\* ... and otherwise inserts a frame at the end of txbuf.
BeginInsert ==
  /\ main.pc = "send" /\ ~ main.busy /\ main.channel <= Channels
  /\ ws.state = "open"
  /\ main' = [main EXCEPT !.busy = TRUE]
  /\ UNCHANGED <<running, ws, poller, starts, server, arrived, heard, raced>>

EndInsert_Stuck ==
  /\ Inserting
  /\ ws' = [ws EXCEPT !.tx = Append(@, Subscribe(main.channel))]
  /\ main' = [main EXCEPT !.busy = FALSE]
  /\ UNCHANGED <<running, poller, starts, server, arrived, heard, raced>>
EndInsert ==
  /\ Inserting
  /\ ws' = [ws EXCEPT !.tx = Append(@, Subscribe(main.channel))]
  /\ main' = [main EXCEPT !.busy = FALSE, !.channel = @ + 1]
  /\ UNCHANGED <<running, poller, starts, server, arrived, heard, raced>>

MainStep ==
  \/ Joined \/ Connect \/ ConnectFails
  \/ Subscribed \/ SendIgnored \/ BeginInsert \/ EndInsert

-----------------------------------------------------------------------------
(* The poll thread: WebSocketClient::_start.                                 *)

TestRunning_Never ==
  /\ poller = "test"
  /\ poller' = "receive"
  /\ UNCHANGED <<running, ws, main, starts, server, arrived, heard, raced>>
TestRunning ==
  /\ poller = "test"
  /\ poller' = IF running THEN "receive" ELSE "done"
  /\ UNCHANGED <<running, ws, main, starts, server, arrived, heard, raced>>

(* poll: all that has come in is read, and the end of the connection too. A  *)
(* closed socket is not touched again, and nobody connects it again.         *)
Receive ==
  /\ poller = "receive"
  /\ IF ws.state = "closed"
     THEN poller' = "dispatch" /\ UNCHANGED <<ws, wire>>
     ELSE /\ poller' = "transmit"
          /\ wire' = <<>>
          /\ ws' = [ws EXCEPT !.rx = @ \o wire, !.state = IF dropped THEN "closed" ELSE @]
  /\ UNCHANGED <<running, main, starts, frames, dropped, said, saying, arrived, heard, raced>>

AfterSending(tx) ==
  [ws EXCEPT !.tx = tx, !.state = IF tx = <<>> /\ @ = "closing" THEN "closed" ELSE @]

\* send() takes the first k frames of txbuf and would then block.
Sends(k) ==
  /\ arrived' = IF raced THEN arrived ELSE arrived \o SubSeq(ws.tx, 1, k)
  /\ ws' = AfterSending(SubSeq(ws.tx, k + 1, Len(ws.tx)))

Transmit(k) ==
  /\ poller = "transmit" /\ ~ Inserting
  /\ ws.state # "closed"
  /\ Sends(k)
  /\ poller' = "dispatch"
  /\ UNCHANGED <<running, main, starts, server, heard, raced>>

\* send() fails: the connection is lost.
TransmitFails ==
  /\ poller = "transmit"
  /\ ws.state = "closed" \/ (dropped /\ (ws.tx # <<>> \/ Inserting))
  /\ ws' = [ws EXCEPT !.state = "closed"]
  /\ poller' = "dispatch"
  /\ UNCHANGED <<running, main, starts, server, arrived, heard, raced>>

(* While the main thread inserts, txbuf is being moved or cut: anything may  *)
(* be sent, and any part of it may be left.                                  *)
TransmitRaces ==
  /\ poller = "transmit" /\ Inserting
  /\ ws.state # "closed"
  /\ raced' = TRUE
  /\ \E lost \in 0 .. Len(ws.tx) : ws' = AfterSending(SubSeq(ws.tx, lost + 1, Len(ws.tx)))
  /\ poller' = "dispatch"
  /\ UNCHANGED <<running, main, starts, server, arrived, heard>>

\* dispatch: rxbuf is empty, or the frame at its head is taken.
DispatchEnds ==
  /\ poller = "dispatch" /\ ws.rx = <<>>
  /\ poller' = "test"
  /\ UNCHANGED <<running, ws, main, starts, server, arrived, heard, raced>>

Dispatching(kind) == poller = "dispatch" /\ ws.rx # <<>> /\ Head(ws.rx).kind = kind

Fragment ==
  /\ Dispatching("part")
  /\ ws' = [ws EXCEPT !.rx = Tail(@), !.data = Append(@, Head(ws.rx).id)]
  /\ UNCHANGED <<running, poller, main, starts, server, arrived, heard, raced>>

Message_Keeps ==
  /\ Dispatching("text")
  /\ heard' = Append(heard, Append(ws.data, Head(ws.rx).id))
  /\ ws' = [ws EXCEPT !.rx = Tail(@), !.data = Append(@, Head(ws.rx).id)]
  /\ UNCHANGED <<running, poller, main, starts, server, arrived, raced>>

\* The last fragment of a message: callback() is given the whole.
Message ==
  /\ Dispatching("text")
  /\ heard' = Append(heard, Append(ws.data, Head(ws.rx).id))
  /\ ws' = [ws EXCEPT !.rx = Tail(@), !.data = <<>>]
  /\ UNCHANGED <<running, poller, main, starts, server, arrived, raced>>

(* callback() ends the program: JSON::parse throws and nothing catches it    *)
(* (line 72 of Pusher.hpp), or the derived object is already destroyed when  *)
(* ~WebSocketClient joins the thread.                                        *)
MessageKills ==
  /\ \/ Dispatching("junk")
     \/ Dispatching("text") /\ main.pc = "join" /\ main.then = "gone"
  /\ main' = Dead /\ poller' = "dead"
  /\ UNCHANGED <<running, ws, starts, server, arrived, heard, raced>>

\* sendData, or close(), from dispatch; with it a frame of the server is dealt with.
Reply(frame, state) ==
  LET rest == [ws EXCEPT !.rx = Tail(@)] IN
    IF ws.state # "open" THEN ws' = rest /\ UNCHANGED raced
    ELSE /\ raced' = (raced \/ Inserting)
         /\ \E lost \in IF Inserting THEN 0 .. Len(ws.tx) ELSE {0} :
              ws' = [rest EXCEPT !.tx = Append(SubSeq(@, lost + 1, Len(@)), frame),
                                 !.state = state]

Ping ==
  /\ Dispatching("ping")
  /\ Reply(Pong, "open")
  /\ UNCHANGED <<running, poller, main, starts, server, arrived, heard>>

Closing ==
  /\ Dispatching("close")
  /\ Reply(Close, "closing")
  /\ UNCHANGED <<running, poller, main, starts, server, arrived, heard>>

\* Both threads use a vector that one of them moves: the program may also die.
RaceKills ==
  /\ Inserting
  /\ poller = "transmit" \/ Dispatching("ping") \/ Dispatching("close")
  /\ ws.state # "closed"
  /\ main' = Dead /\ poller' = "dead" /\ raced' = TRUE
  /\ UNCHANGED <<running, ws, starts, server, arrived, heard>>

PollerStep ==
  \/ RaceKills
  \/ TestRunning \/ Receive \/ TransmitFails \/ TransmitRaces
  \/ (poller = "transmit" /\ \E k \in 0 .. Len(ws.tx) : Transmit(k))
  \/ DispatchEnds \/ Fragment \/ Message \/ MessageKills \/ Ping \/ Closing

-----------------------------------------------------------------------------
(* The server: fragments and messages, pings, a close frame, payloads that   *)
(* are not JSON; and the end of the connection.                              *)

Connected == ws # NoSocket /\ ~ dropped /\ poller # "dead"

Says(kind) ==
  /\ Connected
  /\ frames < MaxFrames
  /\ frames' = frames + 1
  /\ wire' = Append(wire, [kind |-> kind, id |-> frames + 1])
  /\ said' = IF kind = "text" THEN Append(said, Append(saying, frames + 1)) ELSE said
  /\ saying' = CASE kind = "part" -> Append(saying, frames + 1)
                 [] kind \in {"text", "junk"} -> <<>>
                 [] OTHER -> saying
  /\ UNCHANGED <<client, dropped, arrived, heard, raced>>

Drops ==
  /\ Connected
  /\ dropped' = TRUE
  /\ UNCHANGED <<client, wire, frames, said, saying, arrived, heard, raced>>

ServerStep == Drops \/ \E kind \in {"part", "text", "junk", "ping", "close"} : Says(kind)

-----------------------------------------------------------------------------
\* The client is gone, or the program is dead.
Over == main.pc \in {"gone", "dead"} /\ UNCHANGED vars

Next == Start \/ Stop \/ Destroy \/ MainStep \/ PollerStep \/ ServerStep \/ Over

(* Threads that can run are scheduled, and a send to a server that listens   *)
(* does not block for ever. Nothing forces a call or a frame of the server.  *)
Fairness ==
  /\ WF_vars(MainStep)
  /\ WF_vars(PollerStep)
  /\ SF_vars(poller = "transmit" /\ Transmit(Len(ws.tx)))

Spec     == Init /\ [][Next]_vars
FairSpec == Spec /\ Fairness

-----------------------------------------------------------------------------
(* Properties.                                                               *)

Incoming == [kind : {"part", "text", "junk", "ping", "close"}, id : Nat]
Outgoing == [kind : {"subscribe", "pong", "close"}, id : 0 .. Channels]
Socket == [state : {"open", "closing", "closed"}, tx : Seq(Outgoing), rx : Seq(Incoming), data : Seq(Nat)]

\* Where the main thread can be.
Elsewhere == [pc : {"idle", "connect", "gone", "dead"}]
Stopping  == [pc : {"join"}, then : {"idle", "connect", "gone"}]
Sending   == [pc : {"send"}, channel : 1 .. Channels + 1, busy : BOOLEAN]

\* Every variable holds a value the program can give it.
TypeOK ==
  /\ running \in BOOLEAN
  /\ ws \in Socket \union {NoSocket}
  /\ poller \in {"none", "test", "receive", "transmit", "dispatch", "done", "dead"}
  /\ main \in Elsewhere \union Stopping \union Sending
  /\ starts \in 0 .. MaxStarts
  /\ wire \in Seq(Incoming) /\ frames \in 0 .. MaxFrames /\ dropped \in BOOLEAN
  /\ arrived \in Seq(Outgoing)
  /\ said \in Seq(Seq(Nat)) /\ saying \in Seq(Nat) /\ heard \in Seq(Seq(Nat))
  /\ raced \in BOOLEAN

(* Whatever sequence of starts that succeed or fail, stops and destruction,  *)
(* the poll thread never outlives the socket it uses, and the main thread    *)
(* never sends on a socket that is gone (WebSocketClient.hpp, lines 43-69).  *)
SocketOutlivesThread ==
  poller \notin {"none", "done"} \/ main.pc = "send" => ws # NoSocket

Channel(f) == f.kind = "subscribe"

(* A subscription comes after those of all the channels before its own, and  *)
(* after no other: 1, 2, 3 ... whatever else is between them.                *)
CountUp(sent) ==
  \A i \in DOMAIN sent : Channel(sent[i]) =>
    /\ sent[i].id >= 1
    /\ \A j \in 1 .. i - 1 : Channel(sent[j]) => sent[j].id < sent[i].id
    /\ \A c \in 1 .. sent[i].id - 1 : \E j \in 1 .. i - 1 : sent[j] = Subscribe(c)

(* As long as the two threads have not met in txbuf, the server gets the     *)
(* subscriptions in the order of the channels, each once, whatever pongs and *)
(* close frames are sent between them and however send() cuts the buffer.    *)
SubscriptionsInOrder == ~ raced => CountUp(arrived)

(* callback() is given the messages of the server in order, each once and    *)
(* whole: fragments are joined, and a ping or a close frame between two of   *)
(* them is not in the way (easywsclient.cpp, lines 265-340).                 *)
MessagesInOrder == \A i \in DOMAIN heard : i \in DOMAIN said /\ heard[i] = said[i]

(* stop() returns, and with it start() and the destructor, or a message ends *)
(* the program: the poll thread sees _is_running in the end, whatever it has *)
(* to dispatch and whatever became of the connection.                        *)
StopReturns == main.pc = "join" ~> main.pc # "join"

(* Once start() has returned from a connection that stays open, the server   *)
(* gets every subscription, unless the client is stopped or the threads meet *)
(* in txbuf.                                                                 *)
SubscriptionsArrive ==
  (main.pc = "send") ~>
    \/ Len(SelectSeq(arrived, Channel)) = Channels
    \/ raced \/ dropped \/ ws.state # "open" \/ main.pc \in {"join", "dead"}
=============================================================================
