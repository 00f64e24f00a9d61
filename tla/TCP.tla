--------------------------------- MODULE TCP ----------------------------------
(* network/TCPServer.hpp and network/TCPClient.hpp: the main thread of a      *)
(* server, its accept thread, one thread for each connection, and clients.    *)
(* The handler and the client are those of tests/tcp.cpp: the handler reads a *)
(* request of one message and answers it with several, each by a write of its *)
(* own, of which the first is a copy of the request; the client reads them    *)
(* one by one. The test's messages have 8 bytes and 1; here each has Size     *)
(* units. Unit i of a stream is the number i, and 0 is a unit of no message.  *)
(* That time(NULL) is past _endtime is a choice of each test: recv, send and  *)
(* the scheduler may take any time.                                           *)
(* Op_Fault is a faulty variant of Op, as in Source.                          *)
EXTENDS Naturals, Sequences

CONSTANTS Clients,
          Size,         \* units of a message
          Requests,     \* bound: requests of each client
          Ends,         \* how many messages the first k answers to a client have
          MaxCuts,      \* bound: calls of send() that a signal cuts
          Room          \* bound: units the kernel keeps for a client

ASSUME SizeAssumption    == Size \in Nat \ {0} /\ Room \in Nat /\ Room >= Size
ASSUME BoundsAssumption  == Requests \in [Clients -> Nat] /\ MaxCuts \in Nat
ASSUME AnswersAssumption ==
  \A c \in Clients :
    /\ Ends[c] \in [0 .. Requests[c] -> Nat] /\ Ends[c][0] = 0
    /\ \A j, k \in 0 .. Requests[c] : j < k => Ends[c][j] < Ends[c][k]

VARIABLES
  built,        \* how many of _is_running, _timeout and _connections are initialized
  running,      \* TCPServer::_is_running
  connections,  \* _connections
  main,         \* where the thread that owns the server is
  acceptor,     \* where the accept thread is
  early,        \* ghost: the accept thread used a member that was not initialized
  backlog,      \* clients the kernel has connected and nobody has accepted
  conn,         \* the TCPConnection of each client: pc, _is_running, data, offset,
                \* and how many messages it has written
  client,       \* each client: pc, data, and ghosts: how many requests it sent and
                \* messages it read, whether they were the right ones, and whether
                \* it is excused from being orderly
  up, down,     \* units on their way to the server, and to the client
  cuts          \* how many sends were cut

server == <<built, running, connections, main, acceptor, early>>
vars   == <<server, backlog, conn, client, up, down, cuts>>

Least(a, b) == IF a < b THEN a ELSE b
Drop(s, n)  == SubSeq(s, n + 1, Len(s))

\* The units of the n-th message to a client, and of its k-th request.
Piece(n) == [i \in 1 .. Size |-> (n - 1) * Size + i]
Request(c, k) == Piece(Ends[c][k - 1] + 1)

Closed == [pc |-> "closed", run |-> FALSE, data |-> <<>>, sent |-> 0, wrote |-> 0]
NotYet == [Closed EXCEPT !.pc = "none"]
Fresh  == [Closed EXCEPT !.pc = "test", !.run = TRUE]

New == [pc |-> "new", data |-> <<>>, asked |-> 0, heard |-> 0, right |-> TRUE, excused |-> FALSE]

ServerClosed_Never(c) == main.pc = "dead"
ServerClosed(c) == conn[c].pc = "closed" \/ main.pc = "dead"
ClientClosed(c) == client[c].pc = "closed"

\* _is_running is read by the accept thread before the constructor has set it.
Init ==
  /\ built = 0 /\ running \in BOOLEAN /\ connections = <<>>
  /\ main = [pc |-> "build", at |-> 0] /\ acceptor = "setup" /\ early = FALSE
  /\ backlog = <<>>
  /\ conn = [c \in Clients |-> NotYet]
  /\ client = [c \in Clients |-> New]
  /\ up = [c \in Clients |-> <<>>] /\ down = [c \in Clients |-> <<>>]
  /\ cuts = 0

-----------------------------------------------------------------------------
(* The thread that owns the server: the members declared after _thread are    *)
(* initialized while it runs; the destructor joins it, then each connection.  *)

Build ==
  /\ main.pc = "build"
  /\ built' = built + 1
  /\ running' = (built = 0 \/ running)
  /\ connections' = IF built = 2 THEN <<>> ELSE connections
  /\ main' = IF built = 2 THEN [main EXCEPT !.pc = "idle"] ELSE main
  /\ UNCHANGED <<acceptor, early, backlog, conn, client, up, down, cuts>>

Destroy ==
  /\ main.pc = "idle"
  /\ running' = FALSE
  /\ main' = [main EXCEPT !.pc = "join"]
  /\ UNCHANGED <<built, connections, acceptor, early, backlog, conn, client, up, down, cuts>>

\* delete of the i-th connection: its flag, then the join.
Delete(i) ==
  IF i > Len(connections)
  THEN main' = [pc |-> "gone", at |-> 0] /\ UNCHANGED conn
  ELSE /\ main' = [pc |-> "delete", at |-> i]
       /\ conn' = [conn EXCEPT ![connections[i]].run = FALSE]

JoinAcceptor ==
  /\ main.pc = "join" /\ acceptor = "done"
  /\ Delete(1)
  /\ UNCHANGED <<built, running, connections, acceptor, early, backlog, client, up, down, cuts>>

JoinConnection_Detached ==
  /\ main.pc = "delete"
  /\ Delete(main.at + 1)
  /\ UNCHANGED <<built, running, connections, acceptor, early, backlog, client, up, down, cuts>>
JoinConnection ==
  /\ main.pc = "delete" /\ conn[connections[main.at]].pc = "closed"
  /\ Delete(main.at + 1)
  /\ UNCHANGED <<built, running, connections, acceptor, early, backlog, client, up, down, cuts>>

MainStep == Build \/ JoinAcceptor \/ JoinConnection

\* Memory that is not the program's was written: the process may die.
Crash ==
  /\ main' = [pc |-> "dead", at |-> 0] /\ acceptor' = "done"
  /\ conn' = [c \in Clients |-> IF conn[c].pc = "none" THEN NotYet ELSE Closed]
  /\ UNCHANGED <<built, running, connections, backlog, client, up, down, cuts>>

-----------------------------------------------------------------------------
(* The accept thread: start(). The socket it listens on is never closed.      *)

Listening == acceptor # "setup" /\ main.pc # "dead"

Listen ==
  /\ acceptor = "setup"
  /\ acceptor' = "test"
  /\ UNCHANGED <<built, running, connections, main, early, backlog, conn, client, up, down, cuts>>

\* The timeout of select is any number as long as _timeout is not initialized.
TestRunning ==
  /\ acceptor = "test"
  /\ acceptor' = IF ~ running THEN "done" ELSE IF built < 2 THEN "stray" ELSE "select"
  /\ early' = (early \/ built < 2)
  /\ UNCHANGED <<built, running, connections, main, backlog, conn, client, up, down, cuts>>

TimesOut_Again(select) == acceptor = select /\ backlog = <<>> /\ UNCHANGED vars
TimesOut(select) ==
  /\ acceptor = select /\ backlog = <<>>
  /\ acceptor' = "test"
  /\ UNCHANGED <<built, running, connections, main, early, backlog, conn, client, up, down, cuts>>

\* A list that is used before its constructor has run loses the connection ...
Accept ==
  /\ acceptor \in {"select", "stray"} /\ backlog # <<>>
  /\ backlog' = Tail(backlog)
  /\ conn' = [conn EXCEPT ![Head(backlog)] = Fresh]
  /\ connections' = Append(connections, Head(backlog))
  /\ acceptor' = "test"
  /\ early' = (early \/ built < 3)
  /\ UNCHANGED <<built, running, main, client, up, down, cuts>>

\* ... or kills the process.
AcceptKills ==
  /\ acceptor \in {"select", "stray"} /\ backlog # <<>> /\ built < 3
  /\ early' = TRUE
  /\ Crash

AcceptorStep == Listen \/ TestRunning \/ TimesOut("select") \/ Accept

-----------------------------------------------------------------------------
(* The thread of a connection: loop(), and read() and write() in the callback.*)

Goes(c, pc)  == conn' = [conn EXCEPT ![c].pc = pc]
Closes(c)    == conn' = [conn EXCEPT ![c] = Closed] /\ up' = [up EXCEPT ![c] = <<>>]

Loop_KeepsData(c) ==
  /\ conn[c].pc = "test"
  /\ IF conn[c].run THEN Goes(c, "read") /\ UNCHANGED up ELSE Closes(c)
  /\ UNCHANGED <<server, backlog, client, down, cuts>>
Loop(c) ==
  /\ conn[c].pc = "test"
  /\ IF conn[c].run
     THEN conn' = [conn EXCEPT ![c].pc = "read", ![c].data = <<>>] /\ UNCHANGED up
     ELSE Closes(c)
  /\ UNCHANGED <<server, backlog, client, down, cuts>>

(* recv may give less than was asked for, and is then asked for the whole     *)
(* size again: what exceeds the buffer is taken from the next request.        *)
Recv(c) ==
  /\ conn[c].pc = "read"
  /\ \E n \in 1 .. Least(Size, Len(up[c])) :
       LET data == conn[c].data \o SubSeq(up[c], 1, n) IN
         \/ /\ conn' = [conn EXCEPT ![c].pc = "received", ![c].data = SubSeq(data, 1, Least(Size, Len(data)))]
            /\ up' = [up EXCEPT ![c] = Drop(@, n)]
            /\ UNCHANGED <<server, backlog, client, down, cuts>>
         \/ /\ Len(data) > Size
            /\ UNCHANGED early /\ Crash

\* recv returns 0 and ensure_is_not_closed throws, or recv returns -1.
RecvFails(c) ==
  /\ conn[c].pc = "read" /\ ClientClosed(c)
  /\ Closes(c)
  /\ UNCHANGED <<server, backlog, client, down, cuts>>

(* ensure_is_not_closed, after a recv or a send. That the client has closed   *)
(* is seen when it has and its units are all read, or never yet.              *)
Throws(c) ==
  /\ conn[c].pc \in {"received", "sent"}
  /\ Closes(c)
  /\ UNCHANGED <<server, backlog, client, down, cuts>>

ReadMore_Once(c) ==
  /\ conn[c].pc = "received"
  /\ Goes(c, "write")
  /\ UNCHANGED <<server, backlog, client, up, down, cuts>>
ReadMore(c) ==
  /\ conn[c].pc = "received"
  /\ Goes(c, IF Len(conn[c].data) < Size THEN "read" ELSE "write")
  /\ UNCHANGED <<server, backlog, client, up, down, cuts>>

\* What is written by the k-th send of n units: data, then what follows it in memory.
Written(c, n) == [i \in 1 .. n |-> IF conn[c].sent + i <= Size THEN conn[c].data[conn[c].sent + i] ELSE 0]

HasRoom(c) == Len(down[c]) + Size <= Room \/ ClientClosed(c)

(* send is given the whole size again too. A blocking send gives less only    *)
(* when a signal cuts it; the kernel drops what a closed client is sent.      *)
Send(c) ==
  /\ conn[c].pc = "write" /\ HasRoom(c)
  /\ \E n \in 1 .. Size :
       /\ n = Size \/ cuts < MaxCuts
       /\ cuts' = IF n = Size THEN cuts ELSE cuts + 1
       /\ down' = IF ClientClosed(c) THEN down ELSE [down EXCEPT ![c] = @ \o Written(c, n)]
       /\ conn' = [conn EXCEPT ![c].pc = "sent", ![c].sent = Least(@ + n, Size)]
       /\ client' = [client EXCEPT ![c].excused = @ \/ n < Size]
  /\ UNCHANGED <<server, backlog, up>>

SendFails(c) ==
  /\ conn[c].pc = "write" /\ ClientClosed(c)
  /\ Closes(c)
  /\ UNCHANGED <<server, backlog, client, down, cuts>>

\* The message that was sent is the last of an answer.
EndsAnswer(c) == \E k \in 1 .. Requests[c] : conn[c].wrote + 1 = Ends[c][k]

(* The rest of write(), then the callback's next write. After the last one    *)
(* the callback returns, and the loop goes on or ends: it returned false, or  *)
(* ensure_is_not_closed throws.                                               *)
WriteMore(c) ==
  /\ conn[c].pc = "sent"
  /\ \/ conn[c].sent < Size /\ Goes(c, "write") /\ UNCHANGED up
     \/ /\ conn[c].sent = Size /\ ~ EndsAnswer(c)
        /\ conn' = [conn EXCEPT ![c].pc = "write", ![c].sent = 0, ![c].wrote = @ + 1,
                                ![c].data = Piece(conn[c].wrote + 2)]
        /\ UNCHANGED up
     \/ /\ conn[c].sent = Size /\ EndsAnswer(c)
        /\ conn' = [conn EXCEPT ![c].pc = "test", ![c].sent = 0, ![c].wrote = @ + 1]
        /\ UNCHANGED up
     \/ conn[c].sent = Size /\ EndsAnswer(c) /\ Closes(c)
  /\ UNCHANGED <<server, backlog, client, down, cuts>>

ConnectionStep(c) ==
  \/ Loop(c) \/ Recv(c) \/ RecvFails(c) \/ Throws(c) \/ ReadMore(c)
  \/ Send(c) \/ SendFails(c) \/ WriteMore(c)

-----------------------------------------------------------------------------
(* The clients: TCPClient, and a program that may stop at any time.           *)

ClientGoes(c, pc) == client' = [client EXCEPT ![c].pc = pc]

(* The constructor. When it throws, its socket is left open: one that timed   *)
(* out may still be connected by the kernel, and is then a client that never  *)
(* says a word.                                                               *)
Connect(c) ==
  /\ client[c].pc = "new" /\ Listening
  /\ backlog' = Append(backlog, c)
  /\ ClientGoes(c, "ready")
  /\ UNCHANGED <<server, conn, up, down, cuts>>

ConnectFails(c) ==
  /\ client[c].pc = "new"
  /\ ClientGoes(c, "failed")
  /\ UNCHANGED <<server, backlog, conn, up, down, cuts>>

\* How many messages answer what it asked, and whether one is to come.
Due(c) == Ends[c][client[c].asked]
Awaits(c) == client[c].heard < Due(c)

(* A client that waits for each answer, on a connection no send of which was  *)
(* cut and no recv of which gave it a part of a message and not the whole,    *)
(* but for the last message of an answer.                                     *)
Orderly(c) == ~ client[c].excused

\* write(): one send, of which less than the whole goes unnoticed.
Ask(c) ==
  /\ client[c].pc = "ready" /\ client[c].asked < Requests[c]
  /\ \E n \in 1 .. Size :
       /\ n = Size \/ cuts < MaxCuts
       /\ cuts' = IF n = Size THEN cuts ELSE cuts + 1
       /\ up' = IF ServerClosed(c) THEN up
                ELSE [up EXCEPT ![c] = @ \o SubSeq(Request(c, client[c].asked + 1), 1, n)]
       /\ client' = [client EXCEPT ![c].asked = @ + 1,
                                    ![c].excused = @ \/ Awaits(c) \/ n < Size]
  /\ UNCHANGED <<server, backlog, conn, down>>

(* read(), which a program calls when it has a message to come, or when what  *)
(* it has read before makes it believe so.                                    *)
BeginRead(c) ==
  /\ client[c].pc = "ready" /\ (Awaits(c) \/ ~ Orderly(c))
  /\ client' = [client EXCEPT ![c].pc = "read", ![c].data = <<>>]
  /\ UNCHANGED <<server, backlog, conn, up, down, cuts>>

\* As in Recv, what exceeds the object is taken from the next message ...
RecvAnswer(c) ==
  /\ client[c].pc = "read"
  /\ \E n \in 1 .. Least(Size, Len(down[c])) :
       LET data == client[c].data \o SubSeq(down[c], 1, n) IN
         /\ client' = [client EXCEPT
              ![c].pc = "received", ![c].data = SubSeq(data, 1, Least(Size, Len(data))),
              ![c].excused = @ \/ (Len(data) < Size /\ client[c].heard + 1 < Due(c))]
         /\ down' = [down EXCEPT ![c] = Drop(@, n)]
  /\ UNCHANGED <<server, backlog, conn, up, cuts>>

\* ... and the program may die of it, or end for reasons of its own.
Leave(c) ==
  /\ client[c].pc \in {"ready", "read", "received"}
  /\ client' = [client EXCEPT ![c] = [New EXCEPT !.pc = "closed"]]
  /\ down' = [down EXCEPT ![c] = <<>>]
  /\ UNCHANGED <<server, backlog, conn, up, cuts>>

\* An exception: recv or send fails, or the server has closed and nothing is left to read.
ClientThrows(c) ==
  /\ \/ client[c].pc = "read" /\ ServerClosed(c)
     \/ client[c].pc = "received" /\ ServerClosed(c) /\ down[c] = <<>>
  /\ Leave(c)

\* A read that has all it asked for returns, unless it throws first.
ReadOn(c) ==
  /\ client[c].pc = "received"
  /\ client' = IF Len(client[c].data) < Size THEN [client EXCEPT ![c].pc = "read"]
               ELSE [client EXCEPT ![c].pc = "ready", ![c].data = <<>>, ![c].heard = @ + 1,
                                    ![c].right = @ /\ client[c].data = Piece(client[c].heard + 1)]
  /\ UNCHANGED <<server, backlog, conn, up, down, cuts>>

ReadStep(c) == RecvAnswer(c) \/ ClientThrows(c) \/ ReadOn(c)

ClientStep(c) ==
  \/ Connect(c) \/ ConnectFails(c) \/ Ask(c) \/ BeginRead(c) \/ ReadStep(c) \/ Leave(c)

-----------------------------------------------------------------------------
\* The clients have left, and the server is destroyed or dead.
Over ==
  /\ main.pc \in {"gone", "dead"}
  /\ \A c \in Clients : client[c].pc \in {"closed", "failed"}
  /\ UNCHANGED vars

Next ==
  \/ MainStep \/ Destroy
  \/ AcceptorStep \/ TimesOut("stray") \/ AcceptKills
  \/ \E c \in Clients : ConnectionStep(c) \/ ClientStep(c)
  \/ Over

(* Threads that can run are scheduled, and a client that waits for an answer  *)
(* reads what comes. No client has to connect, ask, read or leave.            *)
Fairness ==
  /\ WF_vars(MainStep) /\ WF_vars(AcceptorStep)
  /\ \A c \in Clients : WF_vars(ConnectionStep(c)) /\ WF_vars(ReadStep(c))

Spec     == Init /\ [][Next]_vars
FairSpec == Spec /\ Fairness

-----------------------------------------------------------------------------
(* Properties.                                                                *)

Units == Nat
Message == [pc : {"none", "test", "read", "received", "write", "sent", "closed"},
            run : BOOLEAN, data : Seq(Units), sent : 0 .. Size, wrote : Nat]
Peer == [pc : {"new", "ready", "read", "received", "closed", "failed"},
         data : Seq(Units), asked : Nat, heard : Nat, right : BOOLEAN, excused : BOOLEAN]

(* Every variable holds a value the program can give it; no buffer holds more *)
(* than a message, and what is written has a whole message to be taken from.  *)
TypeOK ==
  /\ built \in 0 .. 3 /\ running \in BOOLEAN /\ early \in BOOLEAN
  /\ connections \in Seq(Clients) /\ backlog \in Seq(Clients)
  /\ main \in [pc : {"build", "idle", "join", "delete", "gone", "dead"}, at : 0 .. Len(connections)]
  /\ acceptor \in {"setup", "test", "select", "stray", "done"}
  /\ conn \in [Clients -> Message] /\ client \in [Clients -> Peer]
  /\ \A c \in Clients : Len(conn[c].data) <= Size /\ Len(client[c].data) <= Size
  /\ \A c \in Clients : conn[c].pc \in {"write", "sent"} => Len(conn[c].data) = Size
  /\ \A c \in Clients : client[c].asked <= Requests[c]
  /\ up \in [Clients -> Seq(Units)] /\ down \in [Clients -> Seq(Units)]
  /\ cuts \in 0 .. MaxCuts

(* A client that waits for each answer before it asks again is given the      *)
(* messages of the answers to its requests, in order and whole, as long as no *)
(* recv gives it a part of one that others of the same answer follow. In the  *)
(* last one nothing is overrun, however many pieces it comes in, nor is in a  *)
(* request, although both sides ask for the whole size after a part of it     *)
(* (TCPServer.hpp, line 110, TCPClient.hpp, line 112): nothing more is sent.  *)
AnswersInOrder ==
  \A c \in Clients : Orderly(c) => client[c].right /\ client[c].heard <= Due(c)

(* When the destructor has returned no thread of the server runs and every    *)
(* connection it accepted is closed, unless a thread has used a member that   *)
(* was not initialized (TCPServer.hpp, lines 158 and 161-171).                *)
NoThreadIsLeft ==
  main.pc = "gone" /\ ~ early =>
    /\ acceptor = "done"
    /\ \A c \in Clients : conn[c].pc \in {"none", "closed"}

\* A connection thread that is blocked until its client acts.
Waits(c) ==
  \/ conn[c].pc = "read" /\ up[c] = <<>> /\ ~ ClientClosed(c)
  \/ conn[c].pc = "write" /\ ~ HasRoom(c)

(* Only a client that for ever neither speaks, reads nor leaves can keep the  *)
(* destructor from returning: the timeout, which is tested after recv, does   *)
(* not (TCPServer.hpp, lines 52-55, 71 and 110).                              *)
DestructorReturns ==
  <>[](main.pc \in {"join", "delete"}) => <>[](early \/ \E c \in Clients : Waits(c))

Reading(c) == client[c].pc \in {"read", "received"}

\* Connected by the kernel, to a socket that nobody will accept from.
Forgotten(c) == acceptor = "done" /\ \E i \in DOMAIN backlog : backlog[i] = c

(* An orderly client that waits for a message gets it or an exception, unless *)
(* it connected too late to be accepted. One that was given a part of a       *)
(* message before the last may wait for ever for what it has overrun.         *)
AnswersCome ==
  \A c \in {d \in Clients : Requests[d] > 0} :
    Reading(c) ~> ~ Reading(c) \/ ~ Orderly(c) \/ early \/ Forgotten(c)
=============================================================================
