-------------------------------- MODULE Source --------------------------------
(* sources/Source.hpp: the order book kept by a Source and its fan-out to    *)
(* histories, with the threads that touch it:                                *)
(*   feeder   the thread that runs the callbacks (the poll thread of the     *)
(*            websocket for BitstampSource, the caller of parse for a file)  *)
(*   cleaner  _cleanup_thread                                                *)
(*   main     the thread that calls historize and the destructor             *)
(* An accessor of tbb::concurrent_hash_map is a lock on one key: `lock`.      *)
(* _histories and _deleted_orders_ids are plain std::sets that one thread    *)
(* walks while another inserts: see Successors.                              *)
(* A vector of order versions is a sequence; <<>> stands for an absent key.  *)
(* An operator named Op_Fault is a faulty variant of Op: the checks replace  *)
(* Op by it to see that a property notices.                                  *)
EXTENDS Naturals, Sequences

CONSTANTS OrderIds,      \* uint64_t identifiers
          Times,         \* timestamps of trades and orders
          Threshold,     \* _cleanup_threshold
          Histories,     \* the addresses of the histories, which order the set
          MaxEvents,     \* bound: callbacks delivered by the exchange
          MaxReceived    \* bound: trades a racing walk may repeat to a history

ASSUME OrderIdsAssumption  == OrderIds \subseteq Nat \ {0}
ASSUME TimesAssumption     == Times \subseteq Nat \ {0}
ASSUME ThresholdAssumption == Threshold \in Nat
ASSUME HistoriesAssumption == Histories \subseteq Nat \ {0}
ASSUME BoundsAssumption    == MaxEvents \in Nat /\ MaxReceived \in Nat

VARIABLES
  current,      \* _current_orders
  last,         \* _last_timestamp
  deleted,      \* _deleted_orders_ids
  inserting,    \* the id whose insertion in _deleted_orders_ids is under way, or 0
  lock,         \* who holds the accessor of each key
  registered,   \* _histories
  historizing,  \* the history whose insertion in _histories is under way, or 0
  received,     \* what each history was fed: the trades and the orders with them
  feeder,       \* where the feeder is, and the locals of the call it runs
  cleaner,      \* where the cleaner is, and the locals of cleanup()
  main,         \* "alive", "joining" (in the destructor), "destroyed"
  events,       \* how many callbacks were delivered
  announced,    \* ghost: every version ever stored
  raced         \* ghost: a historize overlapped the walk over _histories

book  == <<current, last, deleted, inserting, lock>>
fan   == <<registered, historizing, received, raced>>
vars  == <<book, fan, feeder, cleaner, main, events, announced>>

Version == [ts : Times, rev : Nat]
NoOrder == [ts |-> 0, rev |-> 0]      \* Order result_order = {0}

Elems(s) == {s[i] : i \in DOMAIN s}

\* The value _last_timestamp takes with an event of time t.
Later(t) == IF t > last THEN t ELSE last

\* cleanup() keeps v: order.timestamp > _last_timestamp - _cleanup_threshold.
Ignored_AtThreshold(v) == v.ts + Threshold >= last
Ignored_Inverted(v) == v.ts + Threshold <= last
Ignored(v) == v.ts + Threshold > last

\* The vector cleanup() copies, after a look at v.
Copied_Reversed(kept, v) == IF Ignored(v) THEN <<v>> \o kept ELSE kept
Copied(kept, v) == IF Ignored(v) THEN Append(kept, v) ELSE kept

\* find with an accessor, which is exclusive, of a key that is present.
Acquire_ReadOnly(id, who) ==
  lock[id] = "free" /\ current[id] # <<>> /\ UNCHANGED lock
Acquire(id, who) ==
  lock[id] = "free" /\ current[id] # <<>> /\ lock' = [lock EXCEPT ![id] = who]

(* The elements a walk over a std::set may step to from cursor (0 is the end *)
(* of the walk). An insertion under way is a data race: the tree is being    *)
(* relinked, so the walk may land on any element, the new one included, or   *)
(* believe it has reached the end.                                           *)
Successors(set, adding, cursor) ==
  LET above == {x \in set : x > cursor} IN
    IF adding # 0 THEN set \union {adding, 0}
    ELSE IF above = {} THEN {0}
    ELSE {x \in above : \A y \in above : x <= y}

(* The histories the walk over _histories may step to. The bound only cuts   *)
(* short the repetitions a racing walk could go on with.                     *)
NextHistory_FirstOnly(cursor) ==
  IF cursor # 0 THEN {0} ELSE Successors(registered, historizing, 0)
NextHistory(cursor) ==
  {h \in Successors(registered, historizing, cursor) :
     historizing = 0 \/ h = 0 \/ Len(received[h]) < MaxReceived}

(* Source::retrieve_order: the first of the latest versions at or before t.  *)
Matching_AnyTime(versions, t) == DOMAIN versions
Matching(versions, t) == {i \in DOMAIN versions : versions[i].ts <= t}
Retrieve(versions, t) ==
  IF Matching(versions, t) = {} THEN NoOrder
  ELSE versions[CHOOSE i \in Matching(versions, t) :
         \A j \in Matching(versions, t) :
           \/ versions[j].ts < versions[i].ts
           \/ versions[j].ts = versions[i].ts /\ i <= j]

Idle == [pc |-> "idle"]

Init ==
  /\ current = [id \in OrderIds |-> <<>>]
  /\ last = 0
  /\ deleted = {}
  /\ inserting = 0
  /\ lock = [id \in OrderIds |-> "free"]
  /\ registered = {}
  /\ historizing = 0
  /\ received = [h \in Histories |-> <<>>]
  /\ feeder = Idle
  /\ cleaner = [pc |-> "find", id |-> 0]  \* about to test _is_running
  /\ main = "alive"
  /\ events = 0
  /\ announced = [id \in OrderIds |-> <<>>]
  /\ raced = FALSE

-----------------------------------------------------------------------------
(* The feeder. BitstampSource::orders_callback and trades_callback run one   *)
(* at a time on the poll thread; that thread is joined before ~Source.       *)

Deliver ==
  /\ main = "alive"
  /\ feeder = Idle
  /\ events < MaxEvents
  /\ events' = events + 1

\* "order_created" and "order_changed": feed(Order&), up to the map access.
FeedOrder(id, t) ==
  /\ Deliver
  /\ last' = Later(t)
  /\ feeder' = [pc |-> "store", id |-> id, ts |-> t, puke |-> FALSE]
  /\ UNCHANGED <<current, deleted, inserting, lock, fan, cleaner, main, announced>>

\* feed(Order&): push_back under the accessor, or insert; then return to the
\* callback or to puke, which still has the id to insert.
StoreOrder ==
  /\ feeder.pc = "store"
  /\ lock[feeder.id] = "free"
  /\ LET v == [ts |-> feeder.ts, rev |-> Len(announced[feeder.id]) + 1] IN
       /\ current' = [current EXCEPT ![feeder.id] = Append(@, v)]
       /\ announced' = [announced EXCEPT ![feeder.id] = Append(@, v)]
  /\ feeder' = IF feeder.puke THEN [pc |-> "mark", id |-> feeder.id] ELSE Idle
  /\ UNCHANGED <<last, deleted, inserting, lock, fan, cleaner, main, events>>

\* "order_deleted" of a known order: puke keeps the accessor until it returns.
PukeKnown(id) ==
  /\ Deliver
  /\ Acquire(id, "feeder")
  /\ feeder' = [pc |-> "mark", id |-> id]
  /\ UNCHANGED <<current, last, deleted, inserting, fan, cleaner, main, announced>>

PukeUnknown_Locked(id, t) ==
  /\ Deliver
  /\ lock[id] = "free"
  /\ current[id] = <<>>
  /\ last' = Later(t)
  /\ lock' = [lock EXCEPT ![id] = "feeder"]
  /\ feeder' = [pc |-> "store", id |-> id, ts |-> t, puke |-> TRUE]
  /\ UNCHANGED <<current, deleted, inserting, fan, cleaner, main, announced>>

\* "order_deleted" of an unknown order: puke calls feed first.
PukeUnknown(id, t) ==
  /\ Deliver
  /\ lock[id] = "free"
  /\ current[id] = <<>>
  /\ last' = Later(t)
  /\ feeder' = [pc |-> "store", id |-> id, ts |-> t, puke |-> TRUE]
  /\ UNCHANGED <<current, deleted, inserting, lock, fan, cleaner, main, announced>>

\* _deleted_orders_ids.insert(order.id) begins ...
BeginMark ==
  /\ feeder.pc = "mark"
  /\ inserting = 0
  /\ inserting' = feeder.id
  /\ UNCHANGED <<current, last, deleted, lock, fan, feeder, cleaner, main, events, announced>>

\* ... and ends; puke returns and its accessor, if it holds one, is released.
EndMark ==
  /\ feeder.pc = "mark"
  /\ inserting # 0
  /\ deleted' = deleted \union {inserting}
  /\ inserting' = 0
  /\ lock' = [id \in OrderIds |-> IF lock[id] = "feeder" THEN "free" ELSE lock[id]]
  /\ feeder' = Idle
  /\ UNCHANGED <<current, last, fan, cleaner, main, events, announced>>

\* feed(Trade&), up to the first retrieve_order.
FeedTrade(t, b, s) ==
  /\ Deliver
  /\ last' = Later(t)
  /\ feeder' = [pc |-> "buy", n |-> events + 1, ts |-> t, buyId |-> b, sellId |-> s]
  /\ UNCHANGED <<current, deleted, inserting, lock, fan, cleaner, main, announced>>

RetrieveBuy ==
  /\ feeder.pc = "buy"
  /\ lock[feeder.buyId] = "free"
  /\ feeder' = [pc |-> "sell", n |-> feeder.n, ts |-> feeder.ts, sellId |-> feeder.sellId,
                buy |-> Retrieve(current[feeder.buyId], feeder.ts)]
  /\ UNCHANGED <<book, fan, cleaner, main, events, announced>>

\* The second retrieve_order, and the first step of the walk over _histories.
RetrieveSell ==
  /\ feeder.pc = "sell"
  /\ lock[feeder.sellId] = "free"
  /\ \E h \in NextHistory(0) :
       feeder' = [pc |-> "fan", n |-> feeder.n, buy |-> feeder.buy, to |-> h,
                  sell |-> Retrieve(current[feeder.sellId], feeder.ts)]
  /\ raced' = (historizing # 0)
  /\ UNCHANGED <<book, registered, historizing, received, cleaner, main, events, announced>>

(* One turn of the loop over _histories: the trade, then, when the sell order *)
(* was found, both orders (lines 56 and 59 test sell_order.type alike).       *)
FeedHistory ==
  /\ feeder.pc = "fan"
  /\ feeder.to # 0
  /\ received' = [received EXCEPT ![feeder.to] = Append(@,
       [n |-> feeder.n,
        orders |-> IF feeder.sell # NoOrder THEN <<feeder.buy, feeder.sell>> ELSE <<>>])]
  /\ \E h \in NextHistory(feeder.to) :
       feeder' = [feeder EXCEPT !.to = h]
  /\ UNCHANGED <<book, registered, historizing, raced, cleaner, main, events, announced>>

TradeDone ==
  /\ feeder.pc = "fan"
  /\ feeder.to = 0
  /\ feeder' = Idle
  /\ UNCHANGED <<book, fan, cleaner, main, events, announced>>

FeederStep ==
  \/ StoreOrder \/ BeginMark \/ EndMark
  \/ RetrieveBuy \/ RetrieveSell \/ FeedHistory \/ TradeDone

Event ==
  \/ \E id \in OrderIds :
       \/ PukeKnown(id)
       \/ \E t \in Times : FeedOrder(id, t) \/ PukeUnknown(id, t)
  \/ \E t \in Times, b, s \in OrderIds : b # s /\ FeedTrade(t, b, s)

-----------------------------------------------------------------------------
(* The cleaner: Source::_cleanup and Source::cleanup.                        *)

\* sleep_for returns and cleanup() takes the first deleted id.
Wake ==
  /\ cleaner.pc = "sleep"
  /\ \E id \in Successors(deleted, inserting, 0) : cleaner' = [pc |-> "find", id |-> id]
  /\ UNCHANGED <<book, fan, feeder, main, events, announced>>

\* _current_orders.find fails: the walk goes on.
SkipId ==
  /\ cleaner.pc = "find"
  /\ cleaner.id # 0
  /\ lock[cleaner.id] = "free"
  /\ current[cleaner.id] = <<>>
  /\ \E id \in Successors(deleted, inserting, cleaner.id) : cleaner' = [pc |-> "find", id |-> id]
  /\ UNCHANGED <<book, fan, feeder, main, events, announced>>

\* _current_orders.find succeeds: the accessor is held to the end of the turn,
\* and the loop over the vector takes its end once.
LockId ==
  /\ cleaner.pc = "find"
  /\ cleaner.id # 0
  /\ Acquire(cleaner.id, "cleaner")
  /\ cleaner' = [pc |-> "scan", id |-> cleaner.id, kept |-> <<>>,
                 at |-> 1, end |-> Len(current[cleaner.id])]
  /\ UNCHANGED <<current, last, deleted, inserting, fan, feeder, main, events, announced>>

\* One version: _last_timestamp is read again, and the feeder may have moved it.
ScanVersion ==
  /\ cleaner.pc = "scan"
  /\ cleaner.at <= cleaner.end
  /\ LET v == current[cleaner.id][cleaner.at] IN
       cleaner' = [cleaner EXCEPT !.at = @ + 1, !.kept = Copied(@, v)]
  /\ UNCHANGED <<book, fan, feeder, main, events, announced>>

\* erase when nothing is kept (<<>> is the absent key), assign otherwise.
StoreKept ==
  /\ cleaner.pc = "scan"
  /\ cleaner.at > cleaner.end
  /\ current' = [current EXCEPT ![cleaner.id] = cleaner.kept]
  /\ lock' = [lock EXCEPT ![cleaner.id] = "free"]
  /\ \E id \in Successors(deleted, inserting, cleaner.id) : cleaner' = [pc |-> "find", id |-> id]
  /\ UNCHANGED <<last, deleted, inserting, fan, feeder, main, events, announced>>

EndPass_Forever ==
  /\ cleaner.pc = "find"
  /\ cleaner.id = 0
  /\ cleaner' = [pc |-> "sleep"]
  /\ UNCHANGED <<book, fan, feeder, main, events, announced>>

\* cleanup() returns; _cleanup tests _is_running.
EndPass ==
  /\ cleaner.pc = "find"
  /\ cleaner.id = 0
  /\ cleaner' = [pc |-> IF main = "alive" THEN "sleep" ELSE "done"]
  /\ UNCHANGED <<book, fan, feeder, main, events, announced>>

CleanerStep == Wake \/ SkipId \/ LockId \/ ScanVersion \/ StoreKept \/ EndPass

-----------------------------------------------------------------------------
(* The main thread.                                                          *)

BeginHistorize(h) ==
  /\ main = "alive"
  /\ historizing = 0
  /\ h \notin registered
  /\ historizing' = h
  /\ raced' = TRUE
  /\ UNCHANGED <<book, registered, received, feeder, cleaner, main, events, announced>>

EndHistorize ==
  /\ historizing # 0
  /\ registered' = registered \union {historizing}
  /\ historizing' = 0
  /\ UNCHANGED <<book, received, raced, feeder, cleaner, main, events, announced>>

\* ~Source, once the derived class has joined the feeder: _is_running = false.
BeginDestroy ==
  /\ main = "alive"
  /\ historizing = 0
  /\ feeder = Idle
  /\ main' = "joining"
  /\ UNCHANGED <<book, fan, feeder, cleaner, events, announced>>

EndDestroy_Detached ==
  /\ main = "joining"
  /\ main' = "destroyed"
  /\ UNCHANGED <<book, fan, feeder, cleaner, events, announced>>

\* _cleanup_thread.join() returns.
EndDestroy ==
  /\ main = "joining"
  /\ cleaner.pc = "done"
  /\ main' = "destroyed"
  /\ UNCHANGED <<book, fan, feeder, cleaner, events, announced>>

\* Nothing is left to run.
Destroyed ==
  /\ main = "destroyed"
  /\ UNCHANGED vars

MainStep ==
  \/ \E h \in Histories : BeginHistorize(h)
  \/ EndHistorize
  \/ BeginDestroy
  \/ EndDestroy

Next == Event \/ FeederStep \/ CleanerStep \/ MainStep \/ Destroyed

(* A callback that has started runs to its end, the cleaner is a thread that *)
(* is scheduled, and so is a main thread inside historize or the destructor. *)
(* Strong fairness for the feeder: a key it waits for is free for the whole  *)
(* half second the cleaner sleeps between two passes.                        *)
(* Nothing forces an event to arrive, or the program to end.                 *)
Fairness ==
  /\ SF_vars(FeederStep)
  /\ WF_vars(CleanerStep)
  /\ WF_vars(EndHistorize)
  /\ WF_vars(EndDestroy)

Spec     == Init /\ [][Next]_vars
FairSpec == Spec /\ Fairness

-----------------------------------------------------------------------------
(* Properties.                                                               *)

Recent(v) == v.ts + Threshold > last

Gone == deleted \union ({inserting} \ {0})

FeederState ==
  {Idle}
  \union [pc : {"store"}, id : OrderIds, ts : Times, puke : BOOLEAN]
  \union [pc : {"mark"}, id : OrderIds]
  \union [pc : {"buy"}, n : Nat, ts : Times, buyId : OrderIds, sellId : OrderIds]
  \union [pc : {"sell"}, n : Nat, ts : Times, sellId : OrderIds, buy : Version \union {NoOrder}]
  \union [pc : {"fan"}, n : Nat, buy : Version \union {NoOrder},
          sell : Version \union {NoOrder}, to : Histories \union {0}]

CleanerState ==
  [pc : {"sleep", "done"}]
  \union [pc : {"find"}, id : OrderIds \union {0}]
  \union [pc : {"scan"}, id : OrderIds, kept : Seq(Version), at : Nat \ {0}, end : Nat]

Fed == [n : Nat, orders : Seq(Version \union {NoOrder})]

\* Every variable holds a value the program can give it.
TypeOK ==
  /\ current \in [OrderIds -> Seq(Version)]
  /\ announced \in [OrderIds -> Seq(Version)]
  /\ last \in Times \union {0}
  /\ deleted \subseteq OrderIds
  /\ inserting \in OrderIds \union {0}
  /\ lock \in [OrderIds -> {"free", "feeder", "cleaner"}]
  /\ registered \subseteq Histories
  /\ historizing \in Histories \union {0}
  /\ received \in [Histories -> Seq(Fed)]
  /\ feeder \in FeederState
  /\ cleaner \in CleanerState
  /\ main \in {"alive", "joining", "destroyed"}
  /\ events \in Nat
  /\ raced \in BOOLEAN

(* Whatever cleanup passes have run, and whenever the feeder moved           *)
(* _last_timestamp under them, the book still has every version that was     *)
(* announced and is younger than the threshold, and every version of an      *)
(* order that was not deleted: no push_back is lost to a pass that writes    *)
(* back the vector it copied (lines 105-116).                                *)
GraceKept ==
  \A id \in OrderIds : \A v \in Elems(announced[id]) :
    Recent(v) \/ id \notin Gone => v \in Elems(current[id])

(* The book holds nothing that was not announced, and keeps the versions of  *)
(* an order in order of arrival, which decides between equal timestamps in   *)
(* retrieve_order (line 40).                                                 *)
ArrivalOrderKept ==
  \A id \in OrderIds :
    /\ Elems(current[id]) \subseteq Elems(announced[id])
    /\ \A i, j \in DOMAIN current[id] : i < j => current[id][i].rev < current[id][j].rev

\* v answers a lookup of id at t as well as everything recent that was announced.
Answers(v, id, t) ==
  /\ v # NoOrder => v.ts <= t /\ v \in Elems(announced[id])
  /\ \A w \in Elems(announced[id]) :
       w.ts <= t /\ (Recent(w) \/ id \notin Gone) => v.ts >= w.ts

(* The order a trade is matched with is never newer than the trade, and      *)
(* never older than the latest version at that time that the book owes the   *)
(* trade, wherever the cleaner is in its pass (retrieve_order, lines 35-46). *)
TradeSeesItsOrders ==
  [][/\ feeder.pc = "buy" /\ feeder'.pc = "sell"
          => Answers(feeder'.buy, feeder.buyId, feeder.ts)
     /\ feeder.pc = "sell" /\ feeder'.pc = "fan"
          => Answers(feeder'.sell, feeder.sellId, feeder.ts)]_vars

(* A trade whose walk no historize overlapped has reached every registered   *)
(* history, once, when feed(Trade&) returns (lines 54-62).                   *)
HistoriesMissNothing ==
  [][feeder.pc = "fan" /\ feeder'.pc = "idle" /\ ~raced =>
       \A h \in registered :
         LET log == received[h] IN
           /\ log # <<>>
           /\ \A i \in DOMAIN log : log[i].n = feeder.n <=> i = Len(log)]_vars

\* Once the destructor has returned no thread of the source takes a step.
DestroyedIsQuiet == [][main = "destroyed" => UNCHANGED vars]_vars

(* A callback always returns: puke never calls feed while it holds the       *)
(* accessor that feed waits for (lines 77-80).                               *)
CallbacksReturn == feeder.pc # "idle" ~> feeder.pc = "idle"

\* A deleted order of which nothing is recent leaves the book, unless a new
\* version of it is announced or the source is destroyed.
Stale(id) == \A v \in Elems(current[id]) : ~Recent(v)
DeletedArePurged ==
  \A id \in OrderIds :
    (id \in deleted /\ Stale(id))
      ~> (current[id] = <<>> \/ ~Stale(id) \/ main # "alive")

\* The destructor returns: the cleaner sees _is_running and leaves its loop.
ShutdownCompletes == main = "joining" ~> main = "destroyed"

\* The threads together implement an order book whose purges are atomic.
Book == INSTANCE OrderBook WITH book <- current, gone <- Gone, clock <- last
RefinesOrderBook == Book!Spec
=============================================================================
