# Verification of CppTrading

CppTrading is a C++ library for trading programs: it receives the orders and
trades of an exchange, keeps them in histories (in memory or in databases),
simulates a broker that executes the decisions of bots, and has the network and
storage classes these need. This directory holds TLA+ models of it, the TLC
configurations that check them on small instances, and TLAPS proofs of what
they check, but for liveness. Paths below are relative to the repository; the
sources are in `src/src/`, the programs that use them in `src/tests/`.

1. [The system](#1-the-system): components, state, operations, what is hard
2. [Modules](#2-modules): which module models what, and how
3. [Runs](#3-runs): what each checks, its bounds and why they are enough
4. [Fairness](#4-fairness)
5. [Proofs](#5-proofs)
6. [Findings](#6-findings)
7. [What is not modelled](#7-what-is-not-modelled)
8. [Plan](#8-plan)

To repeat everything, in this directory: `tlc -workers 2 -config <cfg> <MC module>`
for each line of the table of section 3, and `tlapm <module>.tla` for each module
whose name ends in `Proofs` and for `LeastNumber`. `PROJECT.json` maps each
definition to its lines.

## 1. The system

    exchange --- PusherClient / WebSocketClient / easywsclient      TCPServer --- TCPClient
                          | callbacks, on the poll thread                 (stand alone)
                          v
    CSV file ------>   Source   <---- _cleanup_thread
                          | feed(item), one history after the other
                          v
    bots --> Broker --> History: MemoryHistory, DBHistory, LogHistory
                          ^   |          |  one log and one index per kind
                          |   |          +--> PlainLog, RotatingLog, GzipLog, UpscaleBTree
               get_balance    +--> Range, SortedRange, FilterRange, UpscaleBTreeRange
                                   History::synchronize_with(another history)

Nothing in the library is protected by a mutex, but for the accessors of the
`tbb::concurrent_hash_map` of Source. Threads meet through plain `bool`s,
`std::set`s, `std::vector`s and `std::multimap`s.

| Component | State | Operations | What is hard, and what makes it correct |
|---|---|---|---|
| Source (`sources/Source.hpp`) | the versions of each order, the deleted ids, the last timestamp, the histories | `feed` (order, trade), `puke`, `historize`, `cleanup`, the destructor | The cleaner copies, filters and writes back a vector while the feeder appends to it. The book must keep what a later trade is matched with; every history must get every trade; destruction must end the thread. |
| BitstampSource | those of Source, and a connection | callbacks of the exchange | Which thread feeds: the poll thread. |
| CSVSource | those of Source, and a file | `parse` | It feeds on the caller's thread, until a line it does not understand. |
| Broker, PretendBroker | the balance, which is what a history last said; a decision counter | `init`, `validate`, `execute`, `feed` | One decision is four items fed to several histories: a death in between. The balance is read twice; restarts open the account again. The account must spend no money it lacks, oversell no more than the code's quotients do, and what is settled must be backed. |
| Bot, RandomBot | its last price | `decide` | Its price is an average over a window of a history into which its own trades go: it must see the market, as it was. |
| History | none | `synchronize_with`, filtered ranges, summaries | An exchange of items between two histories that may fail half-way and be repeated. |
| MemoryHistory | vectors and multimaps | `feed`, ranges, balance at a time | Lost with the program. |
| DBHistory | a log and an index per kind | the same | Log first, then index: what falls between, and what half a record in the log does to the rest of it. |
| Range and its kinds | a range object, shared by its iterators, holding the position and, for the index, a cursor | `begin`, `++`, comparison with `end`, destruction | Records inserted while a range is walked; positions and cursors left by an earlier walk; bounds. |
| UpscaleBTree | an upscaledb environment | `insert`, `get`, `count`, `contains`, the extreme keys | Cursors, duplicates, a transaction that fails after the insertion. |
| PlainLog, GzipLog, RotatingLog | files | `append`; `next` of a reader next to the writer | A write that fails half-way; a read that does not look at its result; rotation under a reader; names made of local time. |
| WebSocketClient, PusherClient over easywsclient | the socket with its buffers, the poll thread | `start`, `stop`, `send`, `subscribe`, the destructor, `callback` | Two threads use `txbuf`; the thread must not outlive its socket; `stop` must return. |
| TCPServer, TCPConnection, TCPClient | an accept thread and a thread for each connection | construction, destruction, `read`, `write`, `is_closed` | A thread started before the members it reads are initialized; partial transfers; a destructor that joins threads blocked in `recv`. |
| models | plain records | comparisons, `Balance::operator+`, formatting, parsing | Comparisons decide what a `std::set` of them holds. |
| LogHistory | an output file, or stdout | `feed`, which prints; ranges without data | A synchronization with it feeds it everything, each time. Of one on a file every read is undefined. |
| RestClient, math, exceptions, directories, json | | | Not modelled, see section 7. |

`PROJECT.json` lists the hazards of this code one by one, each at its line, with
the properties that would notice it going wrong, or why none does.

## 2. Modules

In every module an action is one atomic step of one thread: what happens between
two points at which another thread, a failure or a death can come in. A comment
names the code; an operator `Op_Fault` is `Op` with a plausible bug, used to see
that a property notices, and is part of no specification.

### OrderBook, Source (MCSource, SourceProofs)

`Source` has three threads. The *feeder* runs the callbacks: `FeedOrder` and
`StoreOrder` are `feed(Order&)` before and under its accessor; `PukeKnown`,
`PukeUnknown`, `BeginMark` and `EndMark` are `puke(Order&)`, whose insertion in
the `std::set` `_deleted_orders_ids` takes time; `FeedTrade`, `RetrieveBuy`,
`RetrieveSell`, `FeedHistory` and `TradeDone` are `feed(Trade&)`, which looks two
orders up and walks the set of histories. The *cleaner* is `_cleanup_thread`:
`Wake`, then for each id `SkipId` or `LockId`, `ScanVersion` for each version
(each reads `_last_timestamp` again), `StoreKept`, `EndPass`. *Main* calls
`historize` and the destructor. `lock` has who holds the accessor of a key. A
walk over a `std::set` into which another thread inserts is a data race:
`Successors` lets it step to any element, or end. An order is a sequence of
versions, each a timestamp and its number of arrival.

`OrderBook` is what the book promises, with atomic purges: versions are appended,
and only a deleted order loses versions, each older than the threshold.
`RefinesOrderBook` maps `current`, the deleted ids and `_last_timestamp` to it.

### Account, Broker (MCBroker, BrokerProofs)

`Broker` is `Broker.hpp` and `PretendBroker.hpp` with the histories they feed.
`Start` is a program's start and `init()`; `DecideAndExecute` is a bot's, and `Execute` is
`execute()` up to its feeds, with `validate()`; the items it feeds are a queue, and `FeedOne` gives the
head of it to one history, in the order of addresses of the `std::set`. `Crash`
may come between any two: what a DBHistory has survives, a MemoryHistory is
emptied. Balances are read as the code reads them, `MemoryHistory` taking the
first change of a timestamp. A bot is the choice of a type, a price, perhaps an
amount, and a time.

Quantities are whole numbers of small units, rounded down where the code divides
doubles. A price `p` stands for `p / One`, so that with `One = 2` there are prices
of a half, of one, and of one and a half. With stock counted in units of any size
`u`, and money in units of `u / One`, a volume times a price is money, and money
over a price is a volume. The amount of a SELL is not: `Broker.hpp:36` divides
*stock* by the price, and `AutoAmount` has `stock * One \div price`. Below the price
of one that is more than the stock, and the stock of the next balance is negative.

`Account` is what the owner is promised: money spent was there, with the
commissions still due; a sale is of no more than the stock, except below the
price of one, where it earns less than its volume at one and no more than the
stock at one; one commission for a trade. `ImplementsAccount` maps the last balance
of the history that is read to it.

### Backtest (MCBacktest, BrokerProofs)

The simulation of `src/tests/bots.cpp`, over Broker (which it EXTENDS): `ParseLine`
and `ParseEnds` are `CSVSource::parse`, `OpenAccount` is `init`, `ReadSpan`
is `get_time_span` before the loop, `Decide` is one turn of the loop with
`RandomBot::decide` and the `execute` it ends in. `ByTimestamp` is what the range
of a memory, or of a database, returns for the window `]t - Step, t]`; `Average`
is that of `TradeSummary`, which counts a trade of the market half on each side. A
run may be made on what an earlier one has left in the database, and die
anywhere. `FeedOne`, `Crash` and `Effects` are Broker's own, so that
`ImplementsAccount` is checked of the composition too.

### HistorySync (MCHistorySync, HistorySyncProofs)

`History::synchronize_with` on the main thread, over memories, databases and
histories on stdout, while the thread of a source feeds those it has registered
(`Live`): `Announce` is an item the exchange sends, `SourceFeeds` its turn for one
history. `Feed` is a broker's or a parser's, on the main thread between calls. Each
`Push` and `Pull` feeds one item; for a DBHistory that is `append`, then
`Index`, and `half` has, for each thread, what lies between the two. `Throw` is an
exception of an `append` that wrote nothing or of an insertion, `CommitThrows` one of
`ups_txn_commit`, after which the record is there; `Crash` is a death; each may come
between any two of these steps.

The call reads the first history (`ReadFirst`), then the second (`ReadSecond`), and
the source may feed either meanwhile. The two sets it computes (`Specific1`,
`Specific2`) are what the nested loops over a `std::set` leave, duplicates
and `Equivalent` included: trades and orders are compared by `memcmp`, decisions
by their conversion to `bool`. `Readable` has that a MemoryHistory reads orders
from a vector nothing fills, and that nothing can be read back from stdout. `Live`
has no memory: a `std::vector` that one thread walks while another appends is
undefined behaviour, which this module says nothing of.

An `append` whose `fwrite` or `fflush` fails may also leave a part of the record
(`PlainLog.hpp:113-118`): `ThrowHalfway` on the main thread, and `DieHalfway` on that of
the source, where nothing catches the exception. An item is therefore a pair of
halves. `rest` has the half at the end of a log that no read gives, and `Found` what
is read once the next item is appended: the half that was left and the first half
of the item, whose second half is then left in its turn (`Writes`). So after
half a record every later item of that log is read wrongly, whoever feeds it, until
another half brings the file back into line; the index gets the item as it was
given. `damaged` names the logs this ever happened to. What two halves that do not
belong together show is an item like any other, which `synchronize_with` exchanges.
A record is cut in the middle or not at all, and an `append` is one step: two threads between
the `fwrite` and the `fflush` of one `FILE` are not modelled.

### Ranges (MCRanges, RangesProofs)

The ranges of histories and their iterators: SortedRange with and without bounds,
UpscaleBTreeRange with bounds (forward, reverse, a point) and without, FilterRange
over a log, the loops of `count` and `contains`, and `get_extremum_key`. A
container holds records of equal keys in order of insertion. A range keeps its
position in the range object, so that a second iteration starts where the first
left it; the model has what `init` does in each class. `Feed` inserts between any
two steps. `cursors` counts the cursors of the index that are open; `Drop` is the
end of the range, at any point of an iteration, which closes the last one. A range
of the index that was never iterated over closes a cursor that was never
initialized: `Drop` then may kill the program.

### Logs (MCLogs, LogsProofs)

A writer and a reader of a rotating, a plain or a compressed log, with a clock and
a local time that may be put back. A file is a sequence of half records, so that a
call that fails half-way leaves a half; `AppendRotates` has the rotation of
`RotatingLogWriter::append` with the name it builds, `RotationFails` an `fopen`
that fails. A reader lists the directory once and opens the names in
lexicographic order. What `fread` and `gzread` return at the end of a file that
grows is in `ReadRecord` and `ReadEnd`. The listing of a directory is one step.
A GzipLogReader has two functions `next`. `next(T&)` returns what `gzread` returned, and
`ReadFails` is a program that looks at it; `T next()` does not look, and
`ReadUnset` is what it gives at the end of the file or behind damage: an item of
which nothing was set, or the first half only (`Scrap`). A half nobody set is
`Unset`, whatever is in memory there.

### WebSocket (MCWebSocket, WebSocketProofs)

`WebSocketClient` and `PusherClient` with the parts of easywsclient they run. The
main thread starts (which stops first, may fail, then sends the subscriptions),
stops and destroys. The poll thread is the loop of `_start`: `TestRunning`, then
`poll()` (`Receive`, `Transmit` or `TransmitFails`), then `dispatch()` one frame
at a time. The server sends fragments, whole messages, pings, close frames and
payloads that are not JSON, or drops the connection. `txbuf` is a `std::vector`
both threads use: while the main thread is inserting (`BeginInsert` to
`EndInsert`), a send or a reply of the poll thread may lose any part of it
(`TransmitRaces`, `Reply`), or the program dies (`RaceKills`). An exception in
`callback` also ends the program (`MessageKills`).

### TCP (MCTCP, TCPProofs)

`TCPServer`, `TCPConnection` and `TCPClient`. The thread that owns the server
initializes the three members declared after `_thread` one by one (`Build`) while
the accept thread already runs: it may read any `_is_running`, call `select` with
any `_timeout` ("stray"), or push to a list that is not constructed, which loses
the connection or kills the process (`AcceptKills`). A connection thread is
`loop()` with the handler of `src/tests/tcp.cpp`: it reads a request and answers it with
several messages, each by a `write` of its own, of which the first is the
request again. `Ends[c][k]` is how many messages the first `k` answers to `c` have, and
may be any numbers that grow; message `n` is the units from `(n - 1) * Size + 1` to `n * Size`
(`Piece`), so that a unit tells where it belongs. `WriteMore` is what
comes after a `send`: the rest of the message, the next message, or the end of the
callback. `Recv` takes any
part of what has come and asks for the whole size again, so that it may take units
of the next message and write past the buffer; `Send` may be cut by a signal and
then sends units of no message. Whether time has run out is a choice of every test
of it (`Throws`): the clock is read after a `recv` or `send` that may take any
time. Clients may fail to connect, ask before the last message has come, read the
messages one by one (`BeginRead`, `RecvAnswer`, `ReadOn`), and leave. A client whose
constructor throws leaves its socket open; one the kernel has connected all the
same is a client that never speaks.

A client is `Orderly` while it asks only when it has read all the answers, no
`send` was cut, and no `recv` has given it a part of a message, and not the whole, when others of
the same answer are to follow. The last of these is not in anyone's hands: after a part
`TCPClient::read` asks for the whole size again (`TCPClient.hpp:112`), and takes units
of the next message if they have come. The model goes on with such a client, and with what
it makes of the units it was given, but nothing is promised to it.

## 3. Runs

Every run finishes within some minutes on two cores; states are distinct states.

| Run | cfg | Bounds | States | Shows |
|---|---|---|---|---|
| `source_book` | MCSourceBook | 2 orders, times 1..3, threshold 1, 4 callbacks | 243,118 | the book keeps what it owes (`GraceKept`), in order (`ArrivalOrderKept`), every lookup is answered as it must (`TradeSeesItsOrders`), nothing runs after destruction (`DestroyedIsQuiet`), the threads implement `OrderBook`, callbacks return, deleted orders are purged, the destructor returns |
| `source_fan` | MCSourceFan | 2 histories, one time, 3 callbacks | 759,120 | a trade that no `historize` overlapped reaches each registered history once (`HistoriesMissNothing`) |
| `broker_account` | MCBrokerAccount | a memory and a database, 16 of funds, prices of a half, one, and one and a half, 4 decisions, 1 crash | 2,157,276 | `execute` implements `Account` |
| `broker_crash` | MCBrokerCrash | a memory and two databases, 3 decisions that may share a time, 1 crash | 370,820 | `LedgerAddsUp`, `DecisionsAreBacked`, `LaterHistoriesLeaveOut` |
| `backtest` | MCBacktest | a memory and a database, files of up to 3 lines, prices of a half, and of one and a half, 8 of funds, 1 death | 1,065,990 | `PricesAreTheMarkets`, `PricesStayInRange`, and `Account` once more |
| `history_sync` | MCHistorySync | a memory, two databases and stdout, a source that feeds both databases, 2 trades, 1 order, 1 decision, 2 feeds, 2 calls, 1 failure; the trades, and the databases, are interchangeable | 3,115,065 | `TradesConverge`, `OnlyMissingMoves`, `IndexMissesFailuresOnly` |
| `ranges` | MCRanges | 4 keys, 4 records, 2 range objects walked twice, 9 kinds of range | 2,782,467 | `ShownInOrder`, `StraysComeFirst`, `NothingMissed`, `CursorsAreHeld` |
| `logs` | MCLogs | 3 kinds, 4 records, 3 seconds, 2 failures, local time put back by 1 or 2, 4 items shown with a record or without | 656,645 | `RecordsInOrder`, `UndamagedAreShown`, `OnlyDamageMisleads` |
| `websocket` | MCWebSocket | 2 channels, 2 starts, 2 frames on a connection | 222,877 | `SocketOutlivesThread`, `SubscriptionsInOrder`, `MessagesInOrder`, `StopReturns`, `SubscriptionsArrive` |
| `tcp` | MCTCP | 2 clients, one that asks twice, answered by 2 messages and by 1, and one that only connects, messages of 2 units, 1 cut send, room for a message and a half | 932,103 | `AnswersInOrder`, `NoThreadIsLeft`, `DestructorReturns`, `AnswersCome` |
| `sync_decisions` | MCHistorySyncDecisions | two databases, 2 decisions | violation | section 6 |
| `tree_bounds` | MCRangesTree | ranges of the index | violation | section 6 |

All modules have a type invariant `TypeOK`, which most runs check with the rest.
No run switches the check for deadlock off: a state without successor is an error
unless everything has ended (`Destroyed`, `Finished`, `Over` in the modules).

Why the bounds are enough:

* Source: a lost `push_back` needs one order, one pass and one callback; a trade
  needs two orders, sell and buy; the three times are one that is young, one at the
  threshold and one beyond it. A walk over a set that is inserted into needs two
  elements. Four callbacks are: announce, delete, announce again, trade.
* Broker: the first history is the one read, the other two differ in what they
  survive with; `LaterHistoriesLeaveOut` compares two databases. One crash lets a
  program start again on what was left. Funds of 16 with commissions of a quarter
  make decisions that pass, that are cut to zero and that are refused. Prices of a
  half, of one, and of one and a half are on both sides of the one at which a sale exceeds the stock,
  and on it; four decisions are a purchase, a sale that leaves the stock below zero, and two made from there.
* Backtest: three lines are a trade before, in and after a window; a file whose
  times go back is among them. Small volumes go with one price and large ones with the other,
  so that an average over trades is not one over volumes. A death gives a second
  run, on the trades the first has left in the database.
* HistorySync: two trades can be shared, missing on a side, or duplicated; two
  feeds, one of which may be the source's and reaches both databases, put a duplicate in
  one history and the item in the other, or something new between the reads; two calls
  are a call and its repetition. One failure leaves half a record behind, an item that
  is read together with a later one's half, and a call that meets them.
* Ranges: four keys are before, at, between and after two bounds, four records give
  duplicates on either side of a position; two walks are the first and a second
  one, two range objects an old cursor and a new one.
* Logs: three files are one read, one being read and one that is opened meanwhile;
  two failures are one in each of two files or two in one. Four items are two records
  and two of `T next()` behind them, the first and a later one.
* WebSocket: two subscriptions have an order, two frames are a fragment and its end
  or a frame between. The run also passes with three frames (1.77 million states).
* TCP: a message of two units is the shortest that can come in pieces; two requests
  are the fewest that can be pipelined, and an answer of two messages the shortest in which one follows a
  part of another. Room for a message and a half lets a second message come before the first is read,
  in part, and makes the server wait for the reader. The second client makes the destructor join
  two connections and need not ever speak.

For each property of a passing run, `PROJECT.json` names a faulty variant of a
definition under which TLC finds the property violated by the same configuration.

Conditions in the properties are limits of the code, beyond which the promise does
not hold:

* `LedgerAddsUp` owes nothing to the third change of one timestamp in a memory,
  whose `lower_bound` reads the first.
* `PricesAreTheMarkets` is owed to a bot that reads a database only while no window
  was empty, since the range of the index then shows the next trade, of the
  future (section 6); and only in a first run, as a second one finds the trades of
  the first.
* `TradesConverge` and `OnlyMissingMoves` except what a source has fed the two
  histories since the exchange began (`since`), and the second also an item the other history
  holds twice. Neither promises anything of a history whose own log of trades ends in half a record
  (`rest`) at that moment: it does not show what it was fed, and is fed it again each time. They do
  hold of the other history of the call, and again once a second half has brought the log back into line.
* `IndexMissesFailuresOnly` compares an index with its log where no append has ever left half
  a record (`damaged`): behind one, the index has items that the log no longer shows.
* `NothingMissed` is promised to the first iteration over a range of the index or of
  a log, and to no unbounded SortedRange. `StraysComeFirst` excepts what `Stray`
  names: the first record of a range of the index, and in a reverse range what was
  fed above its begin since, or what lay there in a second iteration.
* `CursorsAreHeld` ends where a range of the index is begun again, which overwrites
  the pointer to its cursor, or an empty index was asked for its first or last key,
  which throws past `ups_cursor_close` (`careless`).
* `RecordsInOrder` orders records only while local time was not put back, and is about what was read:
  an item of which nothing was set may look like any record.
* `OnlyDamageMisleads` has no damage as a reason where the log is compressed: `T next()` gives an item
  when there is none, at the end of a sound file too. What it says is that this comes after all
  that can be read, and how much of the file it may show.
* `SubscriptionsInOrder` and `SubscriptionsArrive` stop where both threads have
  been in `txbuf` at once; `HistoriesMissNothing` where `historize` overlapped a walk.
* `AnswersInOrder` and `AnswersCome` are for an `Orderly` client: it waits for each answer,
  no signal cut a send, and no `recv` gave it a part of a message that others of the same answer follow
  (section 6); `AnswersCome` not for one that the kernel connected
  after the accept thread had ended, since the listening socket is never closed;
  `NoThreadIsLeft`, `DestructorReturns` and `AnswersCome` not for a server whose
  accept thread used a member before it was initialized.
* `DestructorReturns`: a client that stays silent does keep `~TCPServer` waiting.

## 4. Fairness

Fairness says only that a thread which can run is scheduled; nothing forces the
exchange to send, a program to call, a client to speak, or a failure to occur.

* Source: strong fairness of the feeder's steps, since the cleaner holds an
  accessor again and again, but sleeps half a second between passes, during which
  the accessors are free; weak fairness of the cleaner, of the end of an
  insertion and of the join.
* WebSocket: weak fairness of the poll thread and of the main thread inside a call;
  strong fairness of a `send` that takes the whole buffer, which a server that
  reads at all allows again and again.
* TCP: weak fairness of the accept thread (the `select` of which times out, except
  with an uninitialized timeout), of each connection thread, of the destructor and
  of a client inside `read`.

Broker, Backtest, HistorySync, Ranges and Logs run what a program calls, or what an
exchange sends, at their own pace, and a call that loops is bounded by what it has
read; they have safety properties only.

## 5. Proofs

The eight modules of proofs are checked by TLAPS without assumptions but those named
ASSUME in the modules, which TLC evaluates in every run. `LeastNumber` has what
they share: a nonempty set of naturals has a least element, from the library's theorems
on well-founded relations. Where a proof would go by induction, it looks at
the least number for which the fact fails.

**Source.** For any orders, timestamps, threshold, histories and number of events:

* `TypeCorrect`: `Spec => []TypeOK`. The step needs one fact that is not a type,
  that the length a pass remembers is the length of the vector it scans.
* `GraceIsKept`: `Spec => []GraceKept`. The property is not inductive: a pass that is about
  to write its copy back would lose what was appended since. `Inv` adds
  `Accessors` (the lock of a key says exactly who is where, so that the feeder
  cannot append to the key being scanned), `Visited` (only deleted orders are
  scanned, even by a walk that a racing insertion misleads), `Scanned` (the copy
  holds, in order, every version scanned that is still young; versions only grow
  older, `RecentBefore`) and `Numbered` (versions are numbered by arrival).
* `ArrivalOrderIsKept`: `Spec => []ArrivalOrderKept`, from the same `Inv`.
* `TradesSeeTheirOrders`: `Spec => TradeSeesItsOrders`, an action property. The
  lemma `RetrieveIsLatest` shows that the loop of `retrieve_order` returns a
  version with the greatest timestamp not after the trade; `GraceKept` says that
  it was still there to be found.
* `SourceImplementsOrderBook`: `Spec => RefinesOrderBook`. Initial states map to
  initial states; `StoreOrder` is an `Announce`, `BeginMark` a `Delete`
  (an id that is being inserted counts as deleted), `StoreKept` a
  `Purge` (because of `Scanned`), the first step of an event an `Advance` or nothing,
  and every other step a stutter.
* `HistoriesAreAllFed`: `Spec => HistoriesMissNothing`, an action property. `Fanned` says
  where a trade stands: a history before the position of the walk has it once, as its last
  one, and a history after it has nothing of that number, unless a `historize` raced with the
  walk. That the walk leaves none out while nothing races with it is `WalkGoesUp`.
* `TheDestroyedAreQuiet`: `Spec => []DestroyedIsQuiet`, from `Joined`.

**WebSocket.** For any number of channels, starts and frames:

* `TypeCorrect` and `SocketOutlivesItsThread`: `TypeOK` and `SocketOutlivesThread`
  are proved together, as a step of the poll thread keeps the type of a socket only
  because there is one; `InsertsAChannel` says which subscription is being inserted.
  The case that matters is `Joined`, which deletes the socket only when the thread is
  gone, whether or not `_is_running` told the truth after a failed start.
* `MessagesComeInOrder` (`MessagesInOrder`) and `SubscriptionsComeInOrder`
  (`SubscriptionsInOrder`), from `Traffic`. `MessagesFollow`: what `callback` has heard
  is the beginning of what the server said, and the payloads that can be made out in
  `rxbuf` and on the wire, one after the other, lead from the one to the other.
  `SubscriptionsFollow`: what arrived and what is in `txbuf` count the channels up,
  as far as `start` has sent. `Fresh`: nothing is left of a connection when there is no
  socket, so that the next one begins anew.

**TCP.** For any clients, size of messages, numbers of requests and of cut sends:

* `TypeCorrect`: `TypeOK`, which also says that no buffer holds more than a message.
  It needs `Building`, that a constructor under way has `built` below 3.
* `NothingIsLeft`: `NoThreadIsLeft`. `Inv` adds `Listed` (a connection that runs is in
  `_connections`, unless the accept thread was early), `NoneBefore` (none was accepted
  before there was a list), `Whole` (the destructor begins when the constructor has
  ended) and `Joined` (once the accept thread has been joined no connection is added,
  and those before `main.at` are closed and stay so).
* `InOrder`: `AnswersInOrder`, for answers of any number of messages. The property is not
  inductive, as it says nothing of what is on its way. `Exchange` says that there is an `m`, how
  many messages were written, such that what the client has of a message and what it has still to receive
  are together the units of the messages from the one it reads to the `m`-th, in this order (`Stream`, `Flow`);
  and that the last request has been answered to the end (`Settled`), or is, in order, in the
  connection and in what that has still to receive (`Asking`), or that some of the messages
  of its answer are still to be written (`Answering`), unless the connection is closed.
  `Cut` is what the condition of `Orderly` is for: a client that has a part of a message reads the last one
  due to it. So a read that asks for a whole message after a part of one finds only the rest of it
  (`PieceFits`), and what has its length is the message (`Exact`); in a connection this needs no
  condition, since no request follows before the answer has been read. `Queued`, that a client is
  accepted once, and `Dead`, that a process which died runs nothing, keep a connection
  from being opened again under an exchange.

**Ranges.** For any keys, records, range objects and walks:

* `TypeCorrect` and `NoCursorIsLost` (`CursorsAreHeld`) from `Safe`: no iteration
  without a range, and the range holds the cursor it has opened. That an iterator
  which goes on stands on a record is what `Least` and `Greatest` over a finite set of
  positions must give (`LeastIs`, `GreatestIs`).
* `IterationsKeepOrder` (`ShownInOrder`), `StraysAreKnown` (`StraysComeFirst`) and
  `NothingIsMissed` (`NothingMissed`) from `Inv`. `InOrder` alone is not inductive:
  `Behind` says that nothing shown is ahead of the position, `Covers` that what was
  asked for and was there is shown or ahead, and `Bounds` where a range stands between its
  bounds, of which `Descends` is the reason why a reverse range shows no stray
  record in its first iteration but what was fed after it began.

**Broker.** For any histories, prices, amounts, plans, times and deaths. All of it rests on
`Owed(h)`, what the call under way has still to feed `h`: the queue, without its head
for a history that had its turn.

* `TypeCorrect` (`TypeOK`): `Core` says that what is owed is the opening, or the
  rest of one decision's items (`Shaped`), that times do not go back (`Timely`) and that
  a history read by a broker has been opened (`Readable`), so that
  `BalanceAt` reads a change that is there.
* `TheLedgerAddsUp` (`LedgerAddsUp`): `Ledger` says it of the log of the first history and
  of the change still owed to it.
* `DecisionsStayBacked` (`DecisionsAreBacked`): `Backing` follows, for each history, the
  items of a decision: the trade, the change, the decision as made, as settled.
* `LaterOnesLeaveOut` (`LaterHistoriesLeaveOut`): `LeftOut` has that the log of a later
  database leaves something out of an earlier one's, or will when it was fed what the
  earlier one was and it was not; the order-preserving map grows with each feed.
* `TheAccountIsImplemented` (`ImplementsAccount`), for a broker that chooses its
  amounts (`Amounts = {}`) and, if it reads a memory, decides at different times
  (`Pause # 0`): `Honest` says that the change owed to the first history is one the
  account allows. `Covered` is the arithmetic of it, over the quotients of `AutoAmount`, for any price
  above zero, below one or not: what a sale of `stock * One \div price` earns is no more than `stock * One`,
  and if it is of more than the stock, the price is below `One`.

**Backtest.** For any file, step, number of decisions and of runs before. These are in
`BrokerProofs` too, since they are about Broker's own steps (`EffectsMade` says what an
`execute` may feed).

* `PricesFollowTheMarket` (`PricesAreTheMarkets`), from `Priced`. The average is that of the
  trades of the window; that no trade of the bot is among them is `Watching`: in the loop
  those lie before the window, and what is owed to the watched history is `now - Step` old
  (`Scene`). It holds of a memory, and of a database that no run before has left (`Clean`).
* `PricesAreKeptInRange` (`PricesStayInRange`) and `SimulationsAreTyped`
  (`BacktestTypeOK`), from `Sound`. That an average lies between the least and the greatest of the
  prices is a fact about sums over functions. `SumsExist` and
  `SumsAreBound` have it without induction over data, from the least number of elements of a
  set for which it would fail. `Sound` also
  says that no trade of any history is out of range (`Dealt`), that the window before the
  first has a trade (`Looped`), and that the balance of the history which is read is there
  to be read (`Funded`).
* `SimulationsImplementTheAccount` (`ImplementsAccount`), from `Paying`. What had to be
  asked of a broker alone is so of a simulation: a bot leaves its amounts to the
  broker, and its decisions are `Step` apart.

**Logs.** For any records, files, lengths, and clocks that are put back:

* `TypeCorrect` (`TypeOK`), `RecordsComeInOrder` (`RecordsInOrder`),
  `UndamagedComeOut` (`UndamagedAreShown`) and `OnlyDamageMisleadsReaders`
  (`OnlyDamageMisleads`), from `Inv`. Of the files, `Numbered`: the halves in a file are those
  of later and later records, the second half of a record right after its first;
  `Apart`: no half is in two files; `Named`: what is in a file is older than what
  is in a file whose name comes later, until local time is put back. Of the reader, `Sourced`:
  all it showed comes from behind its position or from a file it has finished; `Covered`:
  every whole record there was shown, if no half record lies before it; `Ordered`:
  none is shown twice, nor before an older one; `Misled`: what is shown and is no record
  lies behind a half record, or was given unset; `Blind`: what is unset was given by a reader of
  a compressed log that had come to its end, and nothing is set in any item after it.

**HistorySync.** For any histories, items, sources and failures:

* `TypeCorrect` (`TypeOK`), from `Typed` (the shapes) and `OfKind` (what is
  filed, half fed, left at the end of a log or under way in a call is made of
  halves of items of its own kind, also where a half record makes a log be read
  from the wrong place: every kind has a file of its own).
* `TheTradesConverge` (`TradesConverge`) and `MissingTradesMove` (`OnlyMissingMoves`), action
  properties, from `Exchange`: `Stands` relates, at each place in a call, what the two
  histories show to what they showed when it began, to what is still to be pushed and pulled,
  and to what the source fed them since; of each of the two only as far as its log is `Straight`, which
  a call cannot undo, since a failure ends it.
* `TheIndexMissesFailuresOnly` (`IndexMissesFailuresOnly`). `Backlog` says that in a
  database an item is in the index, or owed to it by a thread, no more often than it is in the
  log, if that is not damaged, and that an index lacks no more than `2 * failures` and what threads owe it.
  The step that matters is `HolesOfIndexed`: indexing an item which the log has more
  often fills one hole, the first of that item, whichever thread's it was.

Every invariant and every safety action property that a run of section 3 checks is stated by
one of these theorems. Only model-checked:

* every liveness property (`CallbacksReturn`, `DeletedArePurged`, `ShutdownCompletes`,
  `StopReturns`, `SubscriptionsArrive`, `DestructorReturns`, `AnswersCome`): TLAPS does not
  reach fairness or ENABLED;
* `DecisionsConverge` and `TreeStaysInBounds`, which TLC finds violated.

## 6. Findings

* **`synchronize_with` does not exchange decisions** (`history/History.hpp:160-190`;
  run `sync_decisions`). It fills a `std::set<Decision>`; Decision has no `operator<`,
  so `std::less` compares the results of `operator bool`, and all decisions other than WAIT
  are equivalent. Two histories with one different decision each exchange nothing.
* **A range of the index may show a record beyond its end**
  (`db/UpscaleBTree.hpp:102-110`; run `tree_bounds`). `init` places the cursor by
  `begin` alone and only `next` compares with the end, so that a range `]begin, end]`
  in which no key lies shows the first key after it. `src/tests/upscalebtree.cpp:61`
  says "Showing ]2, 12]".

Behaviours that the models contain and that nothing in the repository contradicts:
a trade of which only the sell order is known feeds an order of zeros, since
`sources/Source.hpp:56` asks whether the sell order was found before it feeds the buy order;
a bot that reads a database is given, for a window without trades, the first trade after
it, a price of the future (`db/UpscaleBTree.hpp:107-110`); orders a MemoryHistory was fed are never read back, so each synchronization feeds
orders again; after a restart `init()` opens the account anew on a history that has
one; an order that is announced again after its deletion is purged when it is old;
a websocket connection that is lost is not noticed; a TCP connection whose client was
silent longer than the timeout is closed when its next request has been read, without
an answer; connections of a server are deleted only with it. And four the properties above make room for:

* A SELL whose amount is left to the broker is of `stock / price` (`brokers/Broker.hpp:36`). Below the price of
  one it sells more stock than there is, and leaves the stock of the balance negative.
* After an append that has left half a record (`db/PlainLog.hpp:113-118`) a DBHistory reads every later item of that
  log wrongly. It no longer shows the items it is fed, so that each `synchronize_with` feeds it the same items
  once more, and its log and its index no longer have the same items.
* `T next()` of a GzipLogReader (`db/GzipLog.hpp:80-85`) gives an item at the end of the file and behind damage too,
  of which nothing, or only a first part, was set.
* In the exchange of `src/tests/tcp.cpp`, a client that is given a part of a message while others of the
  answer follow asks for too much (`network/TCPClient.hpp:112`) and takes units of the next one: they
  are lost, or written past the object it reads, and it may then wait for ever for a message that it has overrun.

## 7. What is not modelled

* RotatingLogRange: `init` and `next` have no `return` statement, so that what an
  iteration over it does is undefined from its first step.
* LogHistory on a file: its reader writes through a pointer nobody has set, so that any read
  of it is undefined, and `get_balance_at_timestamp` returns nothing. On stdout
  it is a history of HistorySync.
* A vector (of a MemoryHistory, or under a ForwardRange) that one thread walks while another
  appends to it, and a history destroyed while the poll thread feeds it
  (`src/tests/bitstamp_source.cpp:7` declares histories after their source): both are
  undefined behaviour of the containers, so that no outcome can be told from any other.
* The constructor of UpscaleBTree, its environment, and `count` of a record. Its
  transactions matter in one way only, as the insertion is not made in them:
  `CommitThrows` of HistorySync.
* A SortedRange without bounds compares keys with the time of day; the model has that time
  as a constant later than every key but not the records of the future.
* The rounding of doubles, NaN as the balance of an INIT change, and prices of zero or less:
  quantities are whole numbers of small units, prices multiples of `1 / One`, and where the code divides
  doubles the models round down.
* An `append` that leaves half a record under Broker and Backtest, whose logs are fed whole
  records or none: what follows from it is in HistorySync and in Logs.
* Durability against the death of the operating system: nothing in the code syncs,
  and the models have the death of the program only.
* `unsubscribe` of PusherClient and the dispatch by event name; a `send` from a callback;
  more than one iterator at a time over a range; an `accept`, `bind` or
  `getaddrinfo` that fails; `TCPClient::read(std::string&)`; the counter of the handler of
  `src/tests/tcp.cpp`, which its connections share, and messages of different lengths.
* RestClient, JSON, formatting and parsing, directories, plots and numerics: one
  blocking call, a vendored library, pure input and output, or floating point. The
  vendored `json.hpp` alone has 17,159 of the repository's 22,528 lines, `math/` and the
  formatting of models another thousand: most of the lines that are mapped to nothing.

## 8. Plan

Written, in this order: OrderBook and Source with their proofs, Account and Broker,
HistorySync, Ranges, WebSocket with its proofs, Logs, TCP; then the source's thread and the
histories on stdout in HistorySync, cursors and extreme keys in Ranges, Backtest; then
the proofs of TCP, Ranges, Broker and HistorySync; then those of Logs and Backtest, and
what was left of Source and WebSocket. What could still be done:

1. *Proofs*: the ledger and the backing of decisions (`LedgerAddsUp`,
   `DecisionsAreBacked`), which are proved of Broker, of the simulations as well.
2. *A DBHistory over RotatingLog*, once `RotatingLogRange` returns what it finds.
3. *Lifetimes* of sources and histories, once something in the code orders them.
