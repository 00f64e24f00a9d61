------------------------------- MODULE Broker --------------------------------
(* brokers/Broker.hpp and brokers/PretendBroker.hpp with the histories they  *)
(* feed, as a program like tests/bots.cpp runs them: the histories are       *)
(* registered, init() is called, then bots have their decisions executed at  *)
(* times that never go back. feed() hands an item to one history after the   *)
(* other, and the program may die between two of them: what a DBHistory was  *)
(* fed survives, what a MemoryHistory was fed does not.                      *)
(* Quantities are whole numbers, rounded down where the code divides doubles: *)
(* a price p is p / One, a stock or volume v is v units of any size U, and a *)
(* liquidity l is l / One units, so that a volume times a price is a         *)
(* liquidity and a liquidity by a price is a volume. A stock by a price is   *)
(* a volume of One times as many. Op_Fault is a faulty variant of Op, as in  *)
(* Source.                                                                   *)
EXTENDS Integers, Sequences, FiniteSets

CONSTANTS Histories,     \* the addresses of the histories, which order _histories
          Memory,        \* those that are MemoryHistory; the others are DBHistory
          Funds,         \* the liquidity given to init()
          FeeDivisor,    \* _commission is 1 / FeeDivisor
          One,           \* the price of 1.0, so that there are prices below it
          Prices,        \* decision.price
          Amounts,       \* decision.amount where the bot gives one
          Pause,         \* the time between two decisions, at least
          MaxTime,       \* bound: the time of the last decision
          MaxDecisions,  \* bound: decisions executed
          MaxCrashes     \* bound: crashes

ASSUME HistoriesAssumption == Histories \subseteq Nat /\ Histories # {} /\ IsFiniteSet(Histories)
ASSUME MemoryAssumption    == Memory \subseteq Histories
ASSUME MoneyAssumption     == Funds \in Nat /\ FeeDivisor \in Nat \ {0}
ASSUME PricesAssumption    == One \in Nat \ {0} /\ Prices \subseteq Nat \ {0}
ASSUME AmountsAssumption   == Amounts \subseteq Nat
ASSUME TimeAssumption      == Pause \in Nat /\ MaxTime \in Nat \ {0}

VARIABLES
  trades, changes, decisions,  \* what each history was fed, in order of arrival
  queue,      \* the items the call under way has still to feed, in order
  to,         \* the history that gets the head of queue next
  up,         \* the program runs
  now,        \* the timestamp of the last decision; init() used 0
  lastId,     \* Decision::last_id, a static: a restart begins again at 0
  count, crashes  \* how many decisions and crashes there were

logs == <<trades, changes, decisions>>
vars == <<trades, changes, decisions, queue, to, up, now, lastId, count, crashes>>

NaN == -1   \* an amount the bot leaves to the broker, or a price it does not know

First == CHOOSE h \in Histories : \A g \in Histories : h <= g
IsLast(h) == \A g \in Histories : g <= h
Following(h) == CHOOSE g \in Histories : g > h /\ \A k \in Histories : k > h => g <= k

-----------------------------------------------------------------------------
(* Balances.                                                                 *)

Plus(a, b) == [liquidity |-> a.liquidity + b.liquidity,
               stock |-> a.stock + b.stock,
               commission |-> a.commission + b.commission]

(* MemoryHistory::get_balance_at_timestamp: lower_bound finds the first of   *)
(* the changes made at t; when there is none, the one before it is the last  *)
(* of the latest earlier ones.                                               *)
AtTime(log, t) == {i \in DOMAIN log : log[i].ts = t}
Before(log, t) == {i \in DOMAIN log : log[i].ts < t}
MemoryBalance(log, t) ==
  IF AtTime(log, t) # {}
  THEN log[CHOOSE i \in AtTime(log, t) : \A j \in AtTime(log, t) : i <= j].after
  ELSE log[CHOOSE i \in Before(log, t) : \A j \in Before(log, t) :
             log[j].ts < log[i].ts \/ (log[j].ts = log[i].ts /\ j <= i)].after

(* History::get_balance_at_timestamp, which DBHistory inherits (its own has  *)
(* another signature): result_timestamp stays NAN, so the last change wins.  *)
BaseBalance(log) == log[Len(log)].after

\* Broker::get_balance_at_timestamp asks the first history of the set only.
BalanceAt_Oldest(t) == changes[First][1].after
BalanceAt(t) ==
  IF First \in Memory THEN MemoryBalance(changes[First], t) ELSE BaseBalance(changes[First])

-----------------------------------------------------------------------------
(* Broker::validate, PretendBroker::send and compute_commission.             *)

(* The amount of a decision that leaves it to the broker. To sell it divides *)
(* the stock by the price (line 36): below the price of one that is more     *)
(* than the stock.                                                           *)
AutoAmount_Gross(type, price, b) ==
  IF type = "BUY" THEN b.liquidity \div price ELSE (b.stock * One) \div price
AutoAmount(type, price, b) ==
  IF type = "BUY" THEN (b.liquidity - b.commission) \div price ELSE (b.stock * One) \div price

\* validate() fills the amount in after it has seen that there is a price.
Amount(d, b) ==
  IF d.amount = NaN /\ d.price # NaN THEN AutoAmount(d.type, d.price, b) ELSE d.amount

Valid_Empty(amount, price, b) ==
  /\ price # NaN
  /\ b.liquidity >= 0
  /\ amount >= 0
  /\ b.liquidity + b.stock * price >= b.commission
Valid(amount, price, b) ==
  /\ price # NaN
  /\ b.liquidity >= 0
  /\ amount > 0
  /\ b.liquidity + b.stock * price >= b.commission

Commission(volume, price) == (volume * price) \div FeeDivisor

Delta(type, volume, price) ==
  [liquidity  |-> IF type = "BUY" THEN -(volume * price) ELSE volume * price,
   stock      |-> IF type = "BUY" THEN volume ELSE -volume,
   commission |-> Commission(volume, price)]

Item(kind, record) == [kind |-> kind, record |-> record]

\* The decision as it came, then as it was settled (original_decision # decision).
Verdict(d, amount, status) ==
  <<Item("decision", d), Item("decision", [d EXCEPT !.amount = amount, !.status = status])>>

\* PretendBroker::send: one trade, at the price of the decision.
Send(d, amount) ==
  [ts |-> d.ts, decision |-> d.id, type |-> d.type, volume |-> amount, price |-> d.price]

\* The trade, and the change of the balance b it makes.
Settlement(d, amount, b) ==
  LET delta == Delta(d.type, amount, d.price) IN
    <<Item("trade", Send(d, amount)),
      Item("change", [ts |-> d.ts, origin |-> "TRADE", delta |-> delta, after |-> Plus(b, delta)])>>

(* What execute() feeds: the trade and its balance change when the decision  *)
(* is valid, then the decision. The balance is read once for the amount and  *)
(* once for the change; nothing is fed in between.                           *)
Effects_VerdictFirst(d) ==
  LET b == BalanceAt(d.ts)
      amount == Amount(d, b)
  IN IF Valid(amount, d.price, b)
     THEN Verdict(d, amount, "PASSED") \o Settlement(d, amount, b)
     ELSE Verdict(d, amount, "CANCELLED")
Effects(d) ==
  LET b == BalanceAt(d.ts)
      amount == Amount(d, b)
  IN IF Valid(amount, d.price, b)
     THEN Settlement(d, amount, b) \o Verdict(d, amount, "PASSED")
     ELSE Verdict(d, amount, "CANCELLED")

-----------------------------------------------------------------------------
Nothing == [h \in Histories |-> <<>>]

Init ==
  /\ trades = Nothing /\ changes = Nothing /\ decisions = Nothing
  /\ queue = <<>> /\ to = First
  /\ up = FALSE
  /\ now = 1 /\ lastId = 0 /\ count = 0 /\ crashes = 0

\* What PretendBroker::init feeds. (The delta stays NaN in the code; nothing reads it.)
Opening ==
  <<Item("change", [ts |-> 0, origin |-> "INIT",
                    delta |-> [liquidity |-> 0, stock |-> 0, commission |-> 0],
                    after |-> [liquidity |-> Funds, stock |-> 0, commission |-> 0]])>>

\* The program starts: historize() for each history, then init().
Start ==
  /\ ~ up
  /\ up' = TRUE
  /\ lastId' = 0
  /\ queue' = Opening
  /\ UNCHANGED <<logs, to, now, count, crashes>>

\* A Decision, which takes the next identifier, as a bot has filled it in.
Decided(t, type, price, amount) ==
  [id |-> lastId + 1, ts |-> t, type |-> type, price |-> price, amount |-> amount,
   status |-> "PENDING"]

\* Broker::execute of a decision that is not WAIT, up to the first feed.
Execute(t, type, price, amount) ==
  /\ up
  /\ queue = <<>>
  /\ count < MaxDecisions
  /\ t >= now + Pause
  /\ now' = t
  /\ lastId' = lastId + 1
  /\ count' = count + 1
  /\ queue' = Effects(Decided(t, type, price, amount))
  /\ UNCHANGED <<logs, to, up, crashes>>

\* A bot decides, from whatever it looks at, and has the decision executed.
DecideAndExecute(t) ==
  \E type \in {"BUY", "SELL"}, price \in Prices \union {NaN}, amount \in Amounts \union {NaN} :
    Execute(t, type, price, amount)

Fed(log, kind) ==
  IF Head(queue).kind = kind THEN [log EXCEPT ![to] = Append(@, Head(queue).record)] ELSE log

\* One turn of the loop of Broker::feed.
FeedOne_NewestFirst ==
  /\ queue # <<>>
  /\ trades' = Fed(trades, "trade")
  /\ changes' = Fed(changes, "change")
  /\ decisions' = Fed(decisions, "decision")
  /\ IF to = First
     THEN queue' = Tail(queue) /\ to' = CHOOSE h \in Histories : IsLast(h)
     ELSE UNCHANGED queue /\ to' = First
  /\ UNCHANGED <<up, now, lastId, count, crashes>>
FeedOne ==
  /\ queue # <<>>
  /\ trades' = Fed(trades, "trade")
  /\ changes' = Fed(changes, "change")
  /\ decisions' = Fed(decisions, "decision")
  /\ IF IsLast(to)
     THEN queue' = Tail(queue) /\ to' = First
     ELSE UNCHANGED queue /\ to' = Following(to)
  /\ UNCHANGED <<up, now, lastId, count, crashes>>

\* The program dies, inside a call or between two.
Surviving(log) == [h \in Histories |-> IF h \in Memory THEN <<>> ELSE log[h]]
Crash ==
  /\ up
  /\ crashes < MaxCrashes
  /\ up' = FALSE
  /\ crashes' = crashes + 1
  /\ trades' = Surviving(trades)
  /\ changes' = Surviving(changes)
  /\ decisions' = Surviving(decisions)
  /\ queue' = <<>> /\ to' = First
  /\ UNCHANGED <<now, lastId, count>>

\* The driver has run out of decisions to make.
Finished ==
  /\ up /\ queue = <<>>
  /\ count = MaxDecisions \/ now + Pause > MaxTime
  /\ UNCHANGED vars

Next ==
  \/ Start
  \/ \E t \in now .. MaxTime : DecideAndExecute(t)
  \/ FeedOne
  \/ Crash
  \/ Finished

Spec == Init /\ [][Next]_vars

-----------------------------------------------------------------------------
(* Properties.                                                               *)

Money  == [liquidity : Int, stock : Int, commission : Int]
Kinds  == {"BUY", "SELL"}
Trade  == [ts : Nat, decision : Nat, type : Kinds, volume : Nat \ {0}, price : Prices]
Change == [ts : Nat, origin : {"INIT", "TRADE"}, delta : Money, after : Money]
Decision == [id : Nat, ts : Nat, type : Kinds, price : Prices \union {NaN}, amount : Int,
             status : {"PENDING", "PASSED", "CANCELLED"}]

\* Every variable holds a value the program can give it.
TypeOK ==
  /\ trades \in [Histories -> Seq(Trade)]
  /\ changes \in [Histories -> Seq(Change)]
  /\ decisions \in [Histories -> Seq(Decision)]
  /\ \A i \in DOMAIN queue :
       LET r == queue[i].record IN
         \/ queue[i].kind = "trade" /\ r \in Trade
         \/ queue[i].kind = "change" /\ r \in Change
         \/ queue[i].kind = "decision" /\ r \in Decision
  /\ to \in Histories
  /\ up \in BOOLEAN
  /\ now \in 1 .. MaxTime
  /\ lastId \in Nat /\ count \in Nat /\ crashes \in Nat

(* In the history the broker reads, every trade's balance is the previous    *)
(* one plus its delta, across restarts too (lines 97-101): the read that     *)
(* validates a decision is not stale. A MemoryHistory answers with the first *)
(* of the changes of a timestamp, so this is owed to it only as long as one  *)
(* change at most was made at that time before.                              *)
LedgerAddsUp ==
  LET log == changes[First] IN
    \A i \in DOMAIN log :
      /\ log[i].origin = "TRADE"
      /\ First \in Memory => Cardinality({j \in DOMAIN log : j < i /\ log[j].ts = log[i].ts}) <= 1
      => i > 1 /\ log[i].after = Plus(log[i - 1].after, log[i].delta)

(* Wherever the program died, what a history says of a decision is backed:   *)
(* the settled decision comes right after the decision as it was made, and a *)
(* passed one is there only with its trade and the balance change of it      *)
(* (the order of the feeds in lines 80-108).                                 *)
DecisionsAreBacked ==
  \A h \in Histories :
    LET made == decisions[h]
        passed == {i \in DOMAIN made : made[i].status = "PASSED"}
        paid == {i \in DOMAIN changes[h] : changes[h][i].origin = "TRADE"}
    IN /\ \A i \in DOMAIN made : made[i].status # "PENDING" =>
            /\ i > 1
            /\ made[i - 1] = [made[i] EXCEPT !.status = "PENDING", !.amount = made[i - 1].amount]
       /\ \A i \in passed : \E j \in DOMAIN trades[h] :
            /\ trades[h][j].decision = made[i].id
            /\ trades[h][j].ts = made[i].ts
            /\ trades[h][j].volume = made[i].amount
       /\ Cardinality(passed) <= Cardinality(paid)
       /\ Cardinality(paid) <= Len(trades[h])

\* s is t with some elements left out.
LeavesOut(s, t) ==
  \E f \in [DOMAIN s -> DOMAIN t] :
    /\ \A i \in DOMAIN s : s[i] = t[f[i]]
    /\ \A i, j \in DOMAIN s : i < j => f[i] < f[j]

(* Two persistent histories never contradict each other: whatever crashes    *)
(* cut a feed short, the later of the set has what the earlier has, in the   *)
(* same order, but for what the crashes left out (lines 54-56).              *)
LaterHistoriesLeaveOut ==
  \A g, h \in Histories \ Memory : g < h =>
    /\ LeavesOut(trades[h], trades[g])
    /\ LeavesOut(changes[h], changes[g])

\* The balance of the owner: what the history that is read was last told.
AccountNow ==
  IF changes[First] = <<>>
  THEN [liquidity |-> Funds, stock |-> 0, commission |-> 0]
  ELSE BaseBalance(changes[First])

(* With amounts left to the broker and time that goes on between decisions,  *)
(* execute() implements an account that spends no money it does not have,    *)
(* and sells stock it does not have below the price of one only, for no more *)
(* than one a unit of what it has (validate, lines 22-50): what it trades is *)
(* measured by the balance at that very moment.                              *)
Owner == INSTANCE Account WITH balance <- AccountNow
ImplementsAccount == Owner!Spec
=============================================================================
