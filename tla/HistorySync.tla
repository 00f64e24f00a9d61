----------------------------- MODULE HistorySync ------------------------------
(* Histories that are fed and synchronized: History::synchronize_with         *)
(* (history/History.hpp) over MemoryHistory, DBHistory and LogHistory, on the *)
(* main thread, while the thread of a source feeds those it has registered.   *)
(* A DBHistory feeds an append-only log, then an index by timestamp: the      *)
(* other thread, an exception, or the death of the program, may fall between  *)
(* the two, and between any two steps of a synchronization. An append that    *)
(* fails may leave half a record, and what is appended next is then read from *)
(* the wrong place: an item is its two halves. Items are told apart as the    *)
(* code does: trades and orders by memcmp, decisions by the only conversion   *)
(* they have, to bool.                                                        *)
EXTENDS Naturals, Sequences, FiniteSets

CONSTANTS Histories,
          Memory,       \* those that are MemoryHistory
          Printed,      \* those that are LogHistory on stdout; the others are DBHistory
          Live,         \* those the source has registered
          Halves,       \* halves of records
          Nothing,      \* no half
          Trades, Orders, Decisions,
          Waits,        \* records that read as decisions of type WAIT
          MaxFeeds,     \* bound: items fed by sources and brokers
          MaxSyncs,     \* bound: calls of synchronize_with
          MaxFailures   \* bound: exceptions and crashes

ASSUME HistoriesAssumption == Memory \subseteq Histories /\ Printed \subseteq Histories \ Memory
(* A std::vector that one thread reads while another appends is undefined:   *)
(* what follows is about sources that feed databases and stdout.             *)
ASSUME LiveAssumption == Live \subseteq Histories \ Memory
Records == Halves \X Halves
ASSUME RecordsAssumption == Trades \union Orders \union Decisions \subseteq Records /\ Nothing \notin Halves
(* No bot feeds a history a WAIT, which halves of others may add up to.      *)
ASSUME WaitsAssumption == Waits \subseteq Records \ Decisions
ASSUME BoundsAssumption == MaxFeeds \in Nat /\ MaxSyncs \in Nat /\ MaxFailures \in Nat

VARIABLES
  log,     \* what is read of _trades, _orders (_orders_by_id in a memory) and _decisions
  rest,    \* the half record at the end of each, which nothing reads, if there is one
  index,   \* _trades_by_timestamp and _decisions_by_timestamp, in order of insertion
  half,    \* what each thread has appended to a DBHistory and not yet indexed, if anything
  sync,    \* the call of synchronize_with under way and its locals
  source,  \* the item the source's thread feeds, and to which histories it still has to
  feeds, syncs, failures,
  shown,   \* what the two histories showed when the stage under way began
  since,   \* what they have shown since for the source has fed them
  damaged  \* the logs in which an append has ever left half a record

ghosts == <<shown, since>>
counts == <<feeds, syncs, failures>>
logs == <<log, rest, damaged>>
vars == <<logs, index, half, sync, source, counts, ghosts>>

Items == [trades |-> Trades, orders |-> Orders, decisions |-> Decisions]
Kinds == DOMAIN Items
Indexed == {"trades", "decisions"}

Elems(s) == {s[i] : i \in DOMAIN s}
Idle == [kind |-> "none"]
NoHalf == [kind |-> "none"]
Threads == {"main", "source"}
Databases == Histories \ (Memory \union Printed)

(* A MemoryHistory puts orders in _orders_by_id and reads them from _orders, *)
(* which nothing fills.                                                      *)
ReadableInMemory(h, kind) == IF kind = "orders" THEN <<>> ELSE log[h][kind]

(* The ranges of a LogHistory on stdout have no data. A DBHistory opens and  *)
(* reads its log, which append flushes.                                      *)
ReadableOnStdout == <<>>
Readable(h, kind) ==
  CASE h \in Memory  -> ReadableInMemory(h, kind)
    [] h \in Printed -> ReadableOnStdout
    [] OTHER         -> log[h][kind]

-----------------------------------------------------------------------------
(* The two sets synchronize_with computes.                                   *)

(* Neither is less than the other. Decision has no operator<, and its        *)
(* conversion to bool makes all the decisions but WAIT alike. (Op_Fault is a *)
(* faulty variant of Op, as in Source.)                                      *)
Equivalent(kind, x, y) == IF kind = "decisions" THEN x \in Waits <=> y \in Waits ELSE x = y

\* A std::set filled in the order of s keeps the first of equivalent elements.
Firsts(kind, s, among) ==
  {s[i] : i \in {j \in among : \A k \in among : k < j => ~ Equivalent(kind, s[k], s[j])}}

\* What is left of specific_instances_1 when every instance of s2 was looked up.
Specific1(kind, s1, s2) ==
  {x \in Firsts(kind, s1, DOMAIN s1) : \A y \in Elems(s2) : ~ Equivalent(kind, x, y)}

(* specific_instances_2: the instances of s2 that were not found, because s1 *)
(* has no equivalent, or because an earlier one of s2 has already taken it   *)
(* off the set.                                                              *)
NotFound(kind, s1, s2) ==
  {i \in DOMAIN s2 :
     \/ \A x \in Elems(s1) : ~ Equivalent(kind, x, s2[i])
     \/ \E j \in DOMAIN s2 : j < i /\ Equivalent(kind, s2[j], s2[i])}
Specific2_Everything(kind, s1, s2) == Elems(s2)
Specific2(kind, s1, s2) == Firsts(kind, s2, NotFound(kind, s1, s2))

-----------------------------------------------------------------------------
Empty == [h \in Histories |-> [kind \in Kinds |-> <<>>]]
NobodyHalf == [thread \in Threads |-> NoHalf]
Aligned == [h \in Histories |-> [kind \in Kinds |-> Nothing]]
Silent == [todo |-> {}]

Init ==
  /\ log = Empty /\ rest = Aligned /\ index = Empty
  /\ half = NobodyHalf
  /\ sync = Idle
  /\ source = Silent
  /\ feeds = 0 /\ syncs = 0 /\ failures = 0
  /\ shown = {} /\ since = {} /\ damaged = {}

Appended(files, h, kind, x) == [files EXCEPT ![h][kind] = Append(@, x)]
Kept(h) == h \notin Printed   \* stdout keeps nothing

\* The record that a reader finds next once x has been appended.
Found(h, kind, x) == IF rest[h][kind] = Nothing THEN x ELSE <<rest[h][kind], x[1]>>

\* append(), of a whole record.
Writes(h, kind, x) ==
  /\ log' = Appended(log, h, kind, Found(h, kind, x))
  /\ rest' = [rest EXCEPT ![h][kind] = IF @ = Nothing THEN Nothing ELSE x[2]]
  /\ UNCHANGED damaged

(* append() leaves half of x: fwrite or fflush fails after a part of it.     *)
Torn(h, kind, x) == IF rest[h][kind] = Nothing THEN log ELSE Appended(log, h, kind, Found(h, kind, x))
Tears(h, kind, x) ==
  /\ rest' = [rest EXCEPT ![h][kind] = IF @ = Nothing THEN x[1] ELSE Nothing]
  /\ damaged' = damaged \union {<<h, kind>>}

(* feed(): a MemoryHistory takes an item in one go, a DBHistory appends it   *)
(* first, and indexes it next unless it is an order.                         *)
FeedItem(thread, h, kind, x) ==
  /\ half[thread] = NoHalf
  /\ IF Kept(h) THEN Writes(h, kind, x) ELSE UNCHANGED logs
  /\ index' = IF h \in Memory /\ kind \in Indexed THEN Appended(index, h, kind, x) ELSE index
  /\ half' = IF h \in Databases /\ kind \in Indexed
             THEN [half EXCEPT ![thread] = [kind |-> kind, of |-> h, item |-> x]] ELSE half

\* A broker, or a source that parses a file, feeds a history on the main thread.
Feed(h, kind, x) ==
  /\ sync = Idle
  /\ feeds < MaxFeeds
  /\ feeds' = feeds + 1
  /\ FeedItem("main", h, kind, x)
  /\ UNCHANGED <<sync, source, syncs, failures, ghosts>>

Index_Once(thread) ==
  /\ half[thread] # NoHalf
  /\ LET it == half[thread] IN
       index' = IF it.item \in Elems(index[it.of][it.kind]) THEN index
                ELSE Appended(index, it.of, it.kind, it.item)
  /\ half' = [half EXCEPT ![thread] = NoHalf]
  /\ UNCHANGED <<logs, sync, source, counts, ghosts>>

\* The second half of DBHistory::feed.
Index(thread) ==
  /\ half[thread] # NoHalf
  /\ LET it == half[thread] IN index' = Appended(index, it.of, it.kind, it.item)
  /\ half' = [half EXCEPT ![thread] = NoHalf]
  /\ UNCHANGED <<logs, sync, source, counts, ghosts>>

-----------------------------------------------------------------------------
\* The source's thread: one item, fed to the registered histories one by one.

Announce(kind, x) ==
  /\ half["source"] = NoHalf /\ source = Silent
  /\ Live # {}
  /\ feeds < MaxFeeds
  /\ feeds' = feeds + 1
  /\ source' = [todo |-> Live, kind |-> kind, item |-> x]
  /\ UNCHANGED <<logs, index, half, sync, syncs, failures, ghosts>>

SourceFeeds(h) ==
  /\ h \in source.todo
  /\ FeedItem("source", h, source.kind, source.item)
  /\ source' = IF source.todo = {h} THEN Silent ELSE [source EXCEPT !.todo = @ \ {h}]
  /\ since' = IF sync # Idle /\ sync.kind = source.kind /\ h \in {sync.one, sync.two}
              THEN since \union {Found(h, source.kind, source.item)} ELSE since
  /\ UNCHANGED <<sync, counts, shown>>

-----------------------------------------------------------------------------
\* one.synchronize_with(two), on the main thread.

Stage(one, two, kind) ==
  [kind |-> kind, one |-> one, two |-> two, pc |-> "first", first |-> <<>>, push |-> {}, pull |-> {}]

BeginStage(one, two, kind) ==
  /\ sync' = Stage(one, two, kind)
  /\ shown' = Elems(Readable(one, kind)) \union Elems(Readable(two, kind))
  /\ since' = {}

BeginSync(one, two) ==
  /\ half["main"] = NoHalf
  /\ sync = Idle
  /\ syncs < MaxSyncs
  /\ syncs' = syncs + 1
  /\ BeginStage(one, two, "trades")
  /\ UNCHANGED <<logs, index, half, source, feeds, failures>>

\* The first loop reads history_1 up to its end, which moves while it is fed.
ReadFirst ==
  /\ sync # Idle /\ sync.pc = "first"
  /\ sync' = [sync EXCEPT !.pc = "second", !.first = Readable(sync.one, sync.kind)]
  /\ UNCHANGED <<logs, index, half, source, counts, ghosts>>

ReadSecond_Trades ==
  /\ sync # Idle /\ sync.pc = "second"
  /\ LET second == Readable(sync.two, "trades") IN
       sync' = [sync EXCEPT !.pc = "exchange", !.first = <<>>,
                            !.push = Specific1(sync.kind, sync.first, second),
                            !.pull = Specific2(sync.kind, sync.first, second)]
  /\ UNCHANGED <<logs, index, half, source, counts, ghosts>>

\* The second loop compares what history_2 shows with it.
ReadSecond ==
  /\ sync # Idle /\ sync.pc = "second"
  /\ LET second == Readable(sync.two, sync.kind) IN
       sync' = [sync EXCEPT !.pc = "exchange", !.first = <<>>,
                            !.push = Specific1(sync.kind, sync.first, second),
                            !.pull = Specific2(sync.kind, sync.first, second)]
  /\ UNCHANGED <<logs, index, half, source, counts, ghosts>>

Exchanging == sync # Idle /\ sync.pc = "exchange"

\* for (T instance : specific_instances_1) history_2.feed(instance)
Push_Back(x) ==
  /\ Exchanging
  /\ x \in sync.push
  /\ FeedItem("main", sync.one, sync.kind, x)
  /\ sync' = [sync EXCEPT !.push = @ \ {x}]
  /\ UNCHANGED <<source, counts, ghosts>>
Push(x) ==
  /\ Exchanging
  /\ x \in sync.push
  /\ FeedItem("main", sync.two, sync.kind, x)
  /\ sync' = [sync EXCEPT !.push = @ \ {x}]
  /\ UNCHANGED <<source, counts, ghosts>>

\* for (T instance : specific_instances_2) history_1.feed(instance)
Pull(x) ==
  /\ Exchanging
  /\ sync.push = {}
  /\ x \in sync.pull
  /\ FeedItem("main", sync.one, sync.kind, x)
  /\ sync' = [sync EXCEPT !.pull = @ \ {x}]
  /\ UNCHANGED <<source, counts, ghosts>>

\* Trades, then orders, then decisions; then the call returns.
NextStage ==
  /\ Exchanging
  /\ half["main"] = NoHalf
  /\ sync.push = {} /\ sync.pull = {}
  /\ CASE sync.kind = "trades" -> BeginStage(sync.one, sync.two, "orders")
       [] sync.kind = "orders" -> BeginStage(sync.one, sync.two, "decisions")
       [] OTHER -> sync' = Idle /\ shown' = {} /\ since' = {}
  /\ UNCHANGED <<logs, index, half, source, counts>>

(* append or insert throws on the main thread: nothing between feed and the  *)
(* caller of synchronize_with catches it, and the program may go on with     *)
(* what it has.                                                              *)
Thrown ==
  /\ failures < MaxFailures
  /\ failures' = failures + 1
  /\ half' = [half EXCEPT !["main"] = NoHalf]
  /\ sync' = Idle /\ shown' = {} /\ since' = {}
  /\ UNCHANGED <<source, feeds, syncs>>

\* append has written nothing, or insert inserted nothing.
Throw ==
  /\ \/ half["main"] # NoHalf
     \/ Exchanging /\ sync.push # {} /\ sync.two \in Databases
     \/ Exchanging /\ sync.push = {} /\ sync.pull # {} /\ sync.one \in Databases
  /\ Thrown
  /\ UNCHANGED <<logs, index>>

\* append has written half of the item.
ThrowHalfway(h, kind, x) ==
  /\ half["main"] = NoHalf
  /\ h \in Databases
  /\ \/ sync = Idle /\ x \in Items[kind]
     \/ Exchanging /\ h = sync.two /\ kind = sync.kind /\ x \in sync.push
     \/ Exchanging /\ h = sync.one /\ kind = sync.kind /\ sync.push = {} /\ x \in sync.pull
  /\ Thrown
  /\ log' = Torn(h, kind, x)
  /\ Tears(h, kind, x)
  /\ UNCHANGED index

(* insert throws because its transaction cannot be committed: the insertion, *)
(* which was not made in that transaction, is there all the same.            *)
CommitThrows ==
  /\ half["main"] # NoHalf
  /\ LET it == half["main"] IN index' = Appended(index, it.of, it.kind, it.item)
  /\ Thrown
  /\ UNCHANGED logs

\* The program dies, and with it what its memories hold.
Wiped(files) == [h \in Histories |-> IF h \in Memory THEN Empty[h] ELSE files[h]]
Dies ==
  /\ failures < MaxFailures
  /\ failures' = failures + 1
  /\ index' = Wiped(index)
  /\ half' = NobodyHalf
  /\ sync' = Idle /\ source' = Silent
  /\ shown' = {} /\ since' = {}
  /\ UNCHANGED <<feeds, syncs>>
Crash == Dies /\ log' = Wiped(log) /\ UNCHANGED <<rest, damaged>>

(* What append throws on the source's thread nothing catches at all: a Crash *)
(* if nothing is written.                                                    *)
DieHalfway(h) ==
  /\ half["source"] = NoHalf
  /\ h \in source.todo \intersect Databases
  /\ Dies
  /\ log' = Wiped(Torn(h, source.kind, source.item))
  /\ Tears(h, source.kind, source.item)

\* The program has nothing left to feed or to synchronize.
Finished ==
  /\ sync = Idle /\ half = NobodyHalf /\ source = Silent
  /\ feeds = MaxFeeds /\ syncs = MaxSyncs
  /\ UNCHANGED vars

Next ==
  \/ \E h \in Histories, kind \in Kinds : \E x \in Items[kind] : Feed(h, kind, x)
  \/ \E thread \in Threads : Index(thread)
  \/ \E kind \in {"trades", "orders"} : \E x \in Items[kind] : Announce(kind, x)
  \/ \E h \in Live : SourceFeeds(h)
  \/ \E one, two \in Histories : one # two /\ BeginSync(one, two)
  \/ ReadFirst
  \/ ReadSecond
  \/ sync # Idle /\ \E x \in sync.push : Push(x)
  \/ sync # Idle /\ \E x \in sync.pull : Pull(x)
  \/ NextStage
  \/ Throw \/ CommitThrows
  \/ \E h \in Databases, kind \in Kinds : \E x \in Items[kind] : ThrowHalfway(h, kind, x)
  \/ sync # Idle /\ \E h \in Databases, x \in sync.push \union sync.pull : ThrowHalfway(h, sync.kind, x)
  \/ Crash
  \/ \E h \in Live : DieHalfway(h)
  \/ Finished

Spec == Init /\ [][Next]_vars

-----------------------------------------------------------------------------
(* Properties.                                                               *)

\* The halves of the items of a kind, and what is made of two of them.
Pieces   == [kind \in Kinds |-> {x[i] : x \in Items[kind], i \in {1, 2}}]
Readings == [kind \in Kinds |-> Pieces[kind] \X Pieces[kind]]

(* Every variable holds a value the program can give it, and nothing of one  *)
(* kind comes among what is of another, however often half records were left *)
(* and what was read of them was exchanged.                                  *)
TypeOK ==
  /\ log \in [Histories -> [Kinds -> Seq(Records)]] /\ index \in [Histories -> [Kinds -> Seq(Records)]]
  /\ rest \in [Histories -> [Kinds -> Halves \union {Nothing}]]
  /\ \A h \in Histories, kind \in Kinds :
       /\ Elems(log[h][kind]) \union Elems(index[h][kind]) \subseteq Readings[kind]
       /\ rest[h][kind] # Nothing => rest[h][kind] \in Pieces[kind] /\ <<h, kind>> \in damaged
  /\ damaged \subseteq Databases \X Kinds
  /\ \A thread \in Threads : half[thread] # NoHalf =>
       /\ half[thread].of \in Databases /\ half[thread].kind \in Indexed
       /\ half[thread].item \in Readings[half[thread].kind]
  /\ sync # Idle => /\ {sync.one, sync.two} \subseteq Histories
                    /\ sync.push \union sync.pull \subseteq Readings[sync.kind]
  /\ source.todo \subseteq Live
  /\ feeds \in 0 .. MaxFeeds /\ syncs \in 0 .. MaxSyncs /\ failures \in 0 .. MaxFailures

Times(s, x) == Cardinality({i \in DOMAIN s : s[i] = x})

\* A stage of a synchronization ends without an exception.
Completes(kind) == sync.kind = kind /\ sync'.kind # kind /\ failures' = failures

Shows(h, kind) == Elems(Readable(h, kind))

(* When the trades of two histories that can be read have been exchanged,    *)
(* each of them shows what either showed when the exchange began, and        *)
(* nothing else but what a source fed them meanwhile: whatever duplicates    *)
(* they held and whatever an earlier call that failed left behind, half a    *)
(* record at the end of their own logs excepted (lines 157-183).             *)
TradesConverge ==
  [][Completes("trades") /\ {sync.one, sync.two} \intersect Printed = {} =>
       \A h \in {sync.one, sync.two} : rest[h].trades = Nothing =>
         /\ shown \subseteq Shows(h, "trades")
         /\ Shows(h, "trades") \subseteq shown \union since]_vars

(* The exchange is safe to repeat, after a failure too: synchronize_with     *)
(* only feeds a history a trade it does not show, unless the other history   *)
(* shows it twice (the second copy is not found again once the first was     *)
(* erased, line 171), a source fed it since the two were read, or a half     *)
(* record makes the history show what it was not fed.                        *)
OnlyMissingMoves ==
  [][sync.kind = "trades" /\ sync'.kind = "trades" =>
       \A h \in Histories, x \in (sync.push \ sync'.push) \union (sync.pull \ sync'.pull) :
         log'[h].trades # log[h].trades
           => \/ Times(Readable(h, "trades"), x) = 0
              \/ Times(log[sync.two].trades, x) > 1
              \/ x \in since
              \/ rest[h].trades # Nothing]_vars

Missing(h, kind) ==
  {i \in DOMAIN log[h][kind] :
     /\ <<h, kind>> \notin damaged
     /\ Times(SubSeq(log[h][kind], 1, i), log[h][kind][i]) > Times(index[h][kind], log[h][kind][i])}

(* What a DBHistory shows by timestamp it also shows in its log, unless an   *)
(* append has left half a record there, and an exception or a death makes it *)
(* miss by timestamp the items that were being fed at that moment, one for   *)
(* each thread at most: append comes before insert (DBHistory.hpp, lines     *)
(* 48-58).                                                                   *)
IndexMissesFailuresOnly ==
  \A h \in Histories :
    /\ \A kind \in Indexed : \A x \in Elems(index[h][kind]) :
         <<h, kind>> \notin damaged => Times(index[h][kind], x) <= Times(log[h][kind], x)
    /\ Cardinality(Missing(h, "trades")) + Cardinality(Missing(h, "decisions"))
         <= failures * Cardinality(Threads)
            + Cardinality({thread \in Threads : half[thread] # NoHalf})

\* one and two show the same items of a kind.
Alike(kind) == Shows(sync.one, kind) = Shows(sync.two, kind)

(* synchronize_with also says it exchanges decisions (lines 24 and 188): when *)
(* it returns, both histories would show the same ones. They do not.          *)
DecisionsConverge == [][Completes("decisions") => Alike("decisions")]_vars
=============================================================================
