------------------------------ MODULE BrokerProofs ------------------------------
(* What holds of Broker for any histories, funds, prices, amounts and times:  *)
(* its type invariant, the ledger of the history it reads, what a history has *)
(* to back a decision with, and that later databases only leave things out.   *)
(* All of it rests on what each history has still to be fed by the call under *)
(* way (Owed): a turn of feed() moves one item of one history only.           *)
(* Then, of Backtest, for any file, step, and number of runs before: that the *)
(* price a bot goes by is the market's (Priced) and stays in the range of the *)
(* file's (Sound), and that a simulation implements the account (Paying).     *)
EXTENDS Backtest, LeastNumber, FiniteSetTheorems, SequenceTheorems, TLAPS

-----------------------------------------------------------------------------
(* The histories, in the order of their addresses.                           *)

LEMMA FirstIs ==
  First \in Histories /\ \A g \in Histories : First <= g
<1>1. \E h \in Histories : \A g \in Histories : h <= g
  BY LeastNatural, HistoriesAssumption
<1> QED BY <1>1 DEF First

LEMMA FollowingIs ==
  ASSUME NEW h \in Histories, ~ IsLast(h)
  PROVE  /\ Following(h) \in Histories /\ Following(h) > h
         /\ \A k \in Histories : k > h => Following(h) <= k
<1> DEFINE Later == {g \in Histories : g > h}
<1>1. Later \subseteq Nat
  BY HistoriesAssumption
<1>2. PICK k \in Histories : ~ (k <= h)
  BY DEF IsLast
<1>3. h \in Nat /\ k \in Nat
  BY HistoriesAssumption
<1>4. k \in Later
  BY <1>2, <1>3
<1>5. PICK g \in Later : \A i \in Later : g <= i
  <2> HIDE DEF Later
  <2> QED BY <1>1, <1>4, LeastNatural
<1>6. g \in Histories /\ g > h /\ \A i \in Histories : i > h => g <= i
  BY <1>5
<1> QED BY <1>6 DEF Following

\* What a history has still to be fed by the call under way.
Owed(h) == IF h < to THEN Tail(queue) ELSE queue

\* A turn of the loop of feed(), as one history sees it.
LEMMA TurnIs ==
  ASSUME to \in Histories, FeedOne
  PROVE  /\ to' \in Histories
         /\ Owed(to) = queue
         /\ \A h \in Histories : h = to => Owed(h)' = Tail(queue)
         /\ \A h \in Histories : h # to => Owed(h)' = Owed(h)
<1>1. \A h \in Histories : h \in Nat
  BY HistoriesAssumption
<1>2. ~ (to < to)
  BY <1>1
<1>3. CASE IsLast(to)
  <2>1. queue' = Tail(queue) /\ to' = First
    BY <1>3 DEF FeedOne
  <2>2. \A h \in Histories : h # to => h < to
    BY <1>1, <1>3 DEF IsLast
  <2>3. \A h \in Histories : ~ (h < First)
    BY <1>1, FirstIs
  <2> QED BY <1>2, <2>1, <2>2, <2>3, FirstIs DEF Owed
<1>4. CASE ~ IsLast(to)
  <2>1. queue' = queue /\ to' = Following(to)
    BY <1>4 DEF FeedOne
  <2>2. PICK f \in Histories : f = Following(to) /\ f > to /\ \A k \in Histories : k > to => f <= k
    BY <1>4, FollowingIs
  <2>3. \A h \in Histories : h # to => (h < to <=> h < f)
    <3> TAKE h \in Histories
    <3>1. h \in Nat /\ to \in Nat /\ f \in Nat
      BY <1>1
    <3> QED BY <2>2, <3>1
  <2>4. to < f
    BY <1>1, <2>2
  <2> QED BY <1>2, <2>1, <2>2, <2>3, <2>4 DEF Owed
<1> QED BY <1>3, <1>4

-----------------------------------------------------------------------------
(* What a call feeds, and what is left of it.                                *)

Records == Trade \union Change \union Decision
ItemOK(x) ==
  \/ x.kind = "trade" /\ x.record \in Trade
  \/ x.kind = "change" /\ x.record \in Change
  \/ x.kind = "decision" /\ x.record \in Decision
Items == {x \in [kind : {"trade", "change", "decision"}, record : Records] : ItemOK(x)}

\* d is the decision x as it was before it was settled; t is the trade x made.
Precedes(d, x) == d = [x EXCEPT !.status = "PENDING", !.amount = d.amount]
Backs(t, x) == t.decision = x.id /\ t.ts = x.ts /\ t.volume = x.amount

\* q is what is left of the feeds that settle the decision x.
Settling(q, x) ==
  /\ Len(q) \in 1 .. 4
  /\ q[Len(q)].kind = "decision" /\ q[Len(q)].record = x
  /\ x.status \in {"PASSED", "CANCELLED"}
  /\ Len(q) >= 2 => q[Len(q) - 1].kind = "decision" /\ Precedes(q[Len(q) - 1].record, x)
  /\ Len(q) >= 3 => /\ q[Len(q) - 2].kind = "change" /\ q[Len(q) - 2].record.origin = "TRADE"
                    /\ x.status = "PASSED"
  /\ Len(q) = 4 => q[1].kind = "trade" /\ Backs(q[1].record, x)

Shaped(q) == q = <<>> \/ q = Opening \/ \E x \in Decision : Settling(q, x)

LEMMA OpeningIs ==
  /\ Opening \in Seq(Items) /\ Len(Opening) = 1 /\ Opening # <<>>
  /\ Opening[1].kind = "change" /\ Opening[1].record \in Change
  /\ Opening[1].record.origin = "INIT" /\ Opening[1].record.ts = 0
  /\ Tail(Opening) = <<>>
<1>1. PICK r : r = [ts |-> 0, origin |-> "INIT",
                    delta |-> [liquidity |-> 0, stock |-> 0, commission |-> 0],
                    after |-> [liquidity |-> Funds, stock |-> 0, commission |-> 0]]
  OBVIOUS
<1>2. r \in Change /\ r.origin = "INIT" /\ r.ts = 0
  BY <1>1, MoneyAssumption DEF Change, Money
<1>3. PICK x : x = [kind |-> "change", record |-> r]
  OBVIOUS
<1>4. x \in Items /\ x.kind = "change" /\ x.record = r
  BY <1>2, <1>3 DEF Items, ItemOK, Records
<1>5. Opening = <<x>>
  BY <1>1, <1>3 DEF Opening, Item
<1>6. Opening[1] = x /\ Len(Opening) = 1
  BY <1>5
<1>7. Opening \in Seq(Items)
  BY <1>4, <1>5
<1>8. Tail(Opening) = <<>>
  BY <1>5
<1>9. Opening # <<>>
  BY <1>6
<1> QED BY <1>2, <1>4, <1>6, <1>7, <1>8, <1>9

\* The tail of a sequence, by its indices.
LEMMA TailIs ==
  ASSUME NEW S, NEW q \in Seq(S), q # <<>>
  PROVE  /\ Tail(q) \in Seq(S) /\ Len(q) \in Nat /\ Len(q) >= 1
         /\ Len(Tail(q)) = Len(q) - 1
         /\ \A i \in 1 .. Len(q) - 1 : Tail(q)[i] = q[i + 1]
         /\ Head(q) = q[1] /\ q[1] \in S
         /\ Len(q) = 1 => Tail(q) = <<>>
<1>1. Len(q) \in Nat /\ Len(q) >= 1
  OBVIOUS
<1>2. Tail(q) \in Seq(S) /\ Len(Tail(q)) = Len(q) - 1
  OBVIOUS
<1>3. \A i \in 1 .. Len(q) - 1 : Tail(q)[i] = q[i + 1]
  OBVIOUS
<1>4. Head(q) = q[1] /\ q[1] \in S
  OBVIOUS
<1>5. Len(q) = 1 => Tail(q) = <<>>
  <2>1. \A p \in Seq(S) : Len(p) = 0 => p = <<>>
    OBVIOUS
  <2>2. PICK p : p = Tail(q)
    OBVIOUS
  <2>3. p \in Seq(S) /\ Len(p) = Len(q) - 1
    BY <1>2, <2>2
  <2> QED BY <1>1, <2>1, <2>2, <2>3
<1> QED BY <1>1, <1>2, <1>3, <1>4, <1>5

\* What is left of settling a decision is nothing, or settles it as well.
LEMMA SettlingGoesOn ==
  ASSUME NEW q \in Seq(Items), NEW x \in Decision, Settling(q, x)
  PROVE  /\ q # <<>>
         /\ Len(q) = 1 => Tail(q) = <<>>
         /\ Len(q) > 1 => Settling(Tail(q), x)
<1>1. q # <<>>
  BY DEF Settling
<1>2. Len(q) = 1 => Tail(q) = <<>>
  BY <1>1, TailIs
<1>3. ASSUME Len(q) > 1
      PROVE  Settling(Tail(q), x)
  <2>1. PICK p : p = Tail(q)
    OBVIOUS
  <2>2. p \in Seq(Items) /\ Len(p) = Len(q) - 1 /\ \A i \in 1 .. Len(q) - 1 : p[i] = q[i + 1]
    BY <1>1, <2>1, TailIs
  <2>3. Len(p) \in 1 .. 3 /\ Len(q) \in 2 .. 4
    BY <1>3, <2>2 DEF Settling
  <2>4. p[Len(p)] = q[Len(q)]
    BY <2>2, <2>3
  <2>5. Len(p) >= 2 => p[Len(p) - 1] = q[Len(q) - 1]
    BY <2>2, <2>3
  <2>6. Len(p) >= 3 => p[Len(p) - 2] = q[Len(q) - 2]
    BY <2>2, <2>3
  <2>7. /\ p[Len(p)].kind = "decision" /\ p[Len(p)].record = x /\ x.status \in {"PASSED", "CANCELLED"}
        /\ Len(p) >= 2 => p[Len(p) - 1].kind = "decision" /\ Precedes(p[Len(p) - 1].record, x)
    BY <2>2, <2>3, <2>4, <2>5 DEF Settling
  <2>8. Len(p) >= 3 => /\ p[Len(p) - 2].kind = "change" /\ p[Len(p) - 2].record.origin = "TRADE"
                       /\ x.status = "PASSED"
    BY <2>2, <2>3, <2>6 DEF Settling
  <2>9. Len(p) \in 1 .. 4 /\ Len(p) # 4
    <3>1. \A n \in 1 .. 3 : n \in 1 .. 4 /\ n # 4
      OBVIOUS
    <3> QED BY <2>3, <3>1, Zenon
  <2>10. Settling(p, x)
    BY <2>7, <2>8, <2>9 DEF Settling
  <2> QED BY <2>1, <2>10
<1> QED BY <1>1, <1>2, <1>3

LEMMA ShapedGoesOn ==
  ASSUME NEW q \in Seq(Items), Shaped(q), q # <<>>
  PROVE  Shaped(Tail(q))
<1>1. CASE q = Opening
  BY <1>1, OpeningIs DEF Shaped
<1>2. CASE \E x \in Decision : Settling(q, x)
  <2>1. PICK x \in Decision : Settling(q, x)
    BY <1>2
  <2>2. Len(q) \in 1 .. 4
    BY <2>1 DEF Settling
  <2> QED BY <2>1, <2>2, SettlingGoesOn DEF Shaped
<1> QED BY <1>1, <1>2 DEF Shaped

\* After a change, a call feeds no other.
LEMMA OneChange ==
  ASSUME NEW q \in Seq(Items), Shaped(q), q # <<>>, Head(q).kind = "change"
  PROVE  \A i \in DOMAIN Tail(q) : Tail(q)[i].kind # "change"
<1>1. CASE q = Opening
  BY <1>1, OpeningIs
<1>2. CASE \E x \in Decision : Settling(q, x)
  <2>1. PICK x \in Decision : Settling(q, x)
    BY <1>2
  <2>2. /\ Tail(q) \in Seq(Items) /\ Len(Tail(q)) = Len(q) - 1 /\ q[1].kind = "change"
        /\ \A i \in 1 .. Len(q) - 1 : Tail(q)[i] = q[i + 1]
    BY TailIs
  <2>3. Len(q) = 3
    BY <2>1, <2>2 DEF Settling
  <2>4. q[2].kind = "decision" /\ q[3].kind = "decision"
    BY <2>1, <2>3 DEF Settling
  <2>5. PICK p : p = Tail(q)
    OBVIOUS
  <2>6. p \in Seq(Items) /\ Len(p) = 2 /\ p[1] = q[2] /\ p[2] = q[3]
    <3>1. p \in Seq(Items) /\ Len(p) = 2
      BY <2>2, <2>3, <2>5
    <3>2. \A i \in 1 .. 2 : p[i] = q[i + 1]
      <4>1. Len(q) - 1 = 2
        BY <2>3
      <4> QED BY <2>2, <2>5, <4>1
    <3>3. p[1] = q[1 + 1] /\ p[2] = q[2 + 1]
      BY <3>2
    <3> QED BY <3>1, <3>3
  <2>7. \A i \in DOMAIN p : i = 1 \/ i = 2
    BY <2>6
  <2> QED BY <2>4, <2>5, <2>6, <2>7
<1> QED BY <1>1, <1>2 DEF Shaped

-----------------------------------------------------------------------------
(* The balance the broker reads.                                             *)

\* The changes of a MemoryHistory are in the order of their times.
Sorted(log) == \A i, j \in DOMAIN log : i <= j => log[i].ts <= log[j].ts
UpTo(log, t) == \A i \in DOMAIN log : log[i].ts <= t

LEMMA MemoryBalanceIs ==
  ASSUME NEW log \in Seq(Change), log # <<>>, NEW t \in Nat, Sorted(log), UpTo(log, t)
  PROVE  /\ MemoryBalance(log, t) \in Money
         /\ Cardinality(AtTime(log, t)) <= 1 => MemoryBalance(log, t) = log[Len(log)].after
<1>1. /\ Len(log) \in Nat /\ Len(log) \in DOMAIN log /\ DOMAIN log = 1 .. Len(log)
      /\ \A i \in DOMAIN log : i \in Nat /\ i <= Len(log) /\ log[i].ts \in Nat /\ log[i].after \in Money
  <2>1. Len(log) \in Nat /\ Len(log) > 0 /\ DOMAIN log = 1 .. Len(log)
    OBVIOUS
  <2>2. \A i \in DOMAIN log : log[i] \in Change
    OBVIOUS
  <2> QED BY <2>1, <2>2 DEF Change
<1>2. CASE AtTime(log, t) # {}
  <2>1. AtTime(log, t) \subseteq Nat /\ AtTime(log, t) \subseteq DOMAIN log
    BY <1>1 DEF AtTime
  <2>2. \E i \in AtTime(log, t) : \A j \in AtTime(log, t) : i <= j
    BY <1>2, <2>1, LeastNatural
  <2>3. PICK f : f = CHOOSE i \in AtTime(log, t) : \A j \in AtTime(log, t) : i <= j
    OBVIOUS
  <2>4. f \in AtTime(log, t) /\ MemoryBalance(log, t) = log[f].after
    BY <1>2, <2>2, <2>3 DEF MemoryBalance
  <2>5. f \in DOMAIN log /\ log[f].ts = t
    BY <2>4 DEF AtTime
  <2>6. log[Len(log)].ts = t
    <3>1. log[f].ts <= log[Len(log)].ts /\ log[Len(log)].ts <= t
      BY <1>1, <2>5 DEF Sorted, UpTo
    <3> QED BY <1>1, <2>5, <3>1
  <2>7. ASSUME Cardinality(AtTime(log, t)) <= 1
        PROVE  f = Len(log)
    <3>1. Len(log) \in AtTime(log, t)
      BY <1>1, <2>6 DEF AtTime
    <3>2. IsFiniteSet(AtTime(log, t))
      <4>1. IsFiniteSet(1 .. Len(log))
        BY <1>1, FS_Interval
      <4> QED BY <1>1, <2>1, <4>1, FS_Subset
    <3>3. SUFFICES ASSUME f # Len(log) PROVE FALSE
      OBVIOUS
    <3>4. {f, Len(log)} \subseteq AtTime(log, t) /\ Cardinality({f, Len(log)}) = 2
      <4>1. IsFiniteSet({f}) /\ Cardinality({f}) = 1
        BY FS_Singleton
      <4>2. Cardinality({f} \union {Len(log)}) = 2
        <5>1. Len(log) \notin {f}
          BY <3>3
        <5>2. Cardinality({f} \union {Len(log)}) = 1 + 1
          BY <4>1, <5>1, FS_AddElement
        <5>3. 1 + 1 = 2
          OBVIOUS
        <5> QED BY <5>2, <5>3, Zenon
      <4>3. {f} \union {Len(log)} = {f, Len(log)}
        OBVIOUS
      <4> QED BY <2>4, <3>1, <4>2, <4>3
    <3>5. Cardinality({f, Len(log)}) <= Cardinality(AtTime(log, t)) /\ Cardinality(AtTime(log, t)) \in Nat
      BY <3>2, <3>4, FS_Subset, FS_CardinalityType
    <3> QED BY <2>7, <3>4, <3>5
  <2> QED BY <1>1, <2>4, <2>5, <2>7
<1>3. CASE AtTime(log, t) = {}
  <2>1. Before(log, t) = DOMAIN log
    <3>1. \A i \in DOMAIN log : log[i].ts < t
      <4> TAKE i \in DOMAIN log
      <4>1. log[i].ts # t
        BY <1>3 DEF AtTime
      <4>2. log[i].ts <= t /\ log[i].ts \in Nat
        BY <1>1 DEF UpTo
      <4> QED BY <4>1, <4>2
    <3> QED BY <3>1 DEF Before
  <2> DEFINE IsLatest(i) == \A j \in Before(log, t) : log[j].ts < log[i].ts \/ (log[j].ts = log[i].ts /\ j <= i)
  <2>2. IsLatest(Len(log))
    <3>1. \A j \in DOMAIN log : j <= Len(log) /\ log[j].ts <= log[Len(log)].ts
      BY <1>1 DEF Sorted
    <3>2. \A j \in DOMAIN log : log[j].ts \in Nat /\ log[Len(log)].ts \in Nat
      BY <1>1
    <3> QED BY <2>1, <3>1, <3>2
  <2>3. \A i \in Before(log, t) : IsLatest(i) => i = Len(log)
    <3> TAKE i \in Before(log, t)
    <3> HAVE IsLatest(i)
    <3>1. i \in DOMAIN log /\ i <= Len(log) /\ i \in Nat
      BY <1>1, <2>1
    <3>2. log[Len(log)].ts < log[i].ts \/ Len(log) <= i
      BY <1>1, <2>1
    <3>3. log[i].ts <= log[Len(log)].ts /\ log[i].ts \in Nat /\ log[Len(log)].ts \in Nat
      BY <1>1, <3>1 DEF Sorted
    <3> QED BY <1>1, <3>1, <3>2, <3>3
  <2>4. MemoryBalance(log, t) = log[CHOOSE i \in Before(log, t) : IsLatest(i)].after
    BY <1>3 DEF MemoryBalance
  <2>5. (CHOOSE i \in Before(log, t) : IsLatest(i)) = Len(log)
    <3>1. Len(log) \in Before(log, t)
      BY <1>1, <2>1
    <3> HIDE DEF IsLatest
    <3> QED BY <2>2, <2>3, <3>1
  <2> QED BY <1>1, <2>4, <2>5
<1> QED BY <1>2, <1>3

\* What Broker::get_balance_at_timestamp reads is the balance after the last
\* change, when a MemoryHistory has at most one of that time.
LEMMA BalanceIs ==
  ASSUME NEW t \in Nat,
         changes[First] \in Seq(Change), changes[First] # <<>>,
         First \in Memory => Sorted(changes[First]) /\ UpTo(changes[First], t)
  PROVE  /\ BalanceAt(t) \in Money
         /\ (First \in Memory => Cardinality(AtTime(changes[First], t)) <= 1) =>
              BalanceAt(t) = changes[First][Len(changes[First])].after
<1>1. PICK log : log = changes[First]
  OBVIOUS
<1>2. CASE First \in Memory
  BY <1>1, <1>2, MemoryBalanceIs DEF BalanceAt
<1>3. CASE First \notin Memory
  <2>1. Len(log) \in DOMAIN log /\ log \in Seq(Change)
    BY <1>1
  <2>2. log[Len(log)] \in Change
    BY <2>1
  <2> QED BY <1>1, <1>3, <2>2 DEF BalanceAt, BaseBalance, Change
<1> QED BY <1>2, <1>3

-----------------------------------------------------------------------------
(* What execute() feeds.                                                     *)

LEMMA Products ==
  ASSUME NEW a \in Int, NEW b \in Int, NEW c \in Nat \ {0}
  PROVE  a * b \in Int /\ a \div c \in Int /\ (a * b) \div c \in Int
<1>1. a * b \in Int
  OBVIOUS
<1>2. \A k \in Int : k \div c \in Int
  OBVIOUS
<1> QED BY <1>1, <1>2

LEMMA AmountIs ==
  ASSUME NEW b \in Money, NEW d, d.price \in (Nat \ {0}) \union {NaN}, d.amount \in Amounts \union {NaN}
  PROVE  Amount(d, b) \in Int
<1>1. d.amount \in Int /\ (d.price # NaN => d.price \in Nat \ {0})
  <2>1. \A a \in Amounts : a \in Int
    BY AmountsAssumption
  <2>2. NaN \in Int
    BY DEF NaN
  <2>3. d.price # NaN => d.price \in Nat \ {0}
    OBVIOUS
  <2> QED BY <2>1, <2>2, <2>3
<1>2. b.liquidity - b.commission \in Int /\ b.stock * One \in Int
  BY PricesAssumption DEF Money
<1>3. d.price # NaN => AutoAmount(d.type, d.price, b) \in Int
  BY <1>1, <1>2, Products DEF AutoAmount
<1> QED BY <1>1, <1>3 DEF Amount

\* The delta of a valid decision, and the balance after it, are sums of money.
LEMMA MoneyMoves ==
  ASSUME NEW b \in Money, NEW type \in Kinds, NEW volume \in Nat, NEW price \in Nat \ {0}
  PROVE  Delta(type, volume, price) \in Money /\ Plus(b, Delta(type, volume, price)) \in Money
<1>1. price \in Int /\ volume \in Int
  OBVIOUS
<1>2. PICK v \in Int : v = volume * price
  BY <1>1
<1>3. PICK c \in Int : c = Commission(volume, price)
  BY <1>2, Products, MoneyAssumption DEF Commission
<1>4. PICK x : x = Delta(type, volume, price)
  OBVIOUS
<1>5. x \in Money
  BY <1>1, <1>2, <1>3, <1>4 DEF Delta, Money
<1>6. Plus(b, x) \in Money
  BY <1>5 DEF Plus, Money
<1> QED BY <1>4, <1>5, <1>6

LEMMA Tuples ==
  ASSUME NEW a, NEW b
  PROVE  <<a, b>> \in Seq({a, b}) /\ Len(<<a, b>>) = 2 /\ <<a, b>>[1] = a /\ <<a, b>>[2] = b
  OBVIOUS

LEMMA Chained ==
  ASSUME NEW S, NEW p \in Seq(S), NEW q \in Seq(S), Len(p) = 2, Len(q) = 2
  PROVE  /\ p \o q \in Seq(S) /\ Len(p \o q) = 4
         /\ (p \o q)[1] = p[1] /\ (p \o q)[2] = p[2]
         /\ (p \o q)[3] = q[1] /\ (p \o q)[4] = q[2]
<1>1. p \o q \in Seq(S) /\ Len(p \o q) = 4
  <2>1. p \o q \in Seq(S) /\ Len(p \o q) = Len(p) + Len(q)
    BY ConcatProperties
  <2>2. 2 + 2 = 4
    OBVIOUS
  <2> QED BY <2>1, <2>2
<1>2. \A i \in 1 .. Len(p) + Len(q) : (p \o q)[i] = IF i <= Len(p) THEN p[i] ELSE q[i - Len(p)]
  BY ConcatProperties
<1>3. PICK r : r = p \o q
  OBVIOUS
<1>4. \A i \in 1 .. 4 : r[i] = IF i <= 2 THEN p[i] ELSE q[i - 2]
  <2>1. \A i \in 1 .. 2 + 2 : r[i] = IF i <= 2 THEN p[i] ELSE q[i - 2]
    BY <1>2, <1>3, Zenon
  <2> QED BY <2>1
<1>5. r[1] = p[1] /\ r[2] = p[2] /\ r[3] = q[3 - 2] /\ r[4] = q[4 - 2]
  BY <1>4
<1>6. 3 - 2 = 1 /\ 4 - 2 = 2
  OBVIOUS
<1> QED BY <1>1, <1>3, <1>5, <1>6

\* The decision as it was made, then as it was settled.
LEMMA VerdictIs ==
  ASSUME NEW d \in Decision, d.status = "PENDING", NEW amount \in Int,
         NEW status \in {"PASSED", "CANCELLED"}
  PROVE  /\ Verdict(d, amount, status) \in Seq(Items) /\ Len(Verdict(d, amount, status)) = 2
         /\ \E x \in Decision :
              /\ Settling(Verdict(d, amount, status), x)
              /\ x.status = status /\ x.amount = amount /\ x.id = d.id /\ x.ts = d.ts
<1>1. PICK x : x = [d EXCEPT !.amount = amount, !.status = status]
  OBVIOUS
<1>2. /\ x \in Decision /\ x.status = status /\ x.amount = amount /\ x.id = d.id /\ x.ts = d.ts
      /\ x.type = d.type /\ x.price = d.price
  BY <1>1 DEF Decision
<1>3. Precedes(d, x)
  <2>1. PICK y : y = [x EXCEPT !.status = "PENDING", !.amount = d.amount]
    OBVIOUS
  <2>2. y \in Decision
    BY <1>2, <2>1 DEF Decision
  <2>3. /\ y.id = d.id /\ y.ts = d.ts /\ y.type = d.type /\ y.price = d.price
        /\ y.amount = d.amount /\ y.status = d.status
    BY <1>2, <2>1 DEF Decision
  <2>4. y = d
    BY <2>2, <2>3 DEF Decision
  <2> QED BY <2>1, <2>4 DEF Precedes
<1>4. PICK i, j : i = Item("decision", d) /\ j = Item("decision", x)
  OBVIOUS
<1>5. /\ i \in Items /\ j \in Items /\ i.kind = "decision" /\ j.kind = "decision"
      /\ i.record = d /\ j.record = x
  BY <1>2, <1>4 DEF Item, Items, ItemOK, Records
<1>6. PICK q : q = <<i, j>>
  OBVIOUS
<1>7. Verdict(d, amount, status) = q
  BY <1>1, <1>4, <1>6 DEF Verdict
<1>8. q \in Seq(Items) /\ Len(q) = 2 /\ q[1] = i /\ q[2] = j
  BY <1>5, <1>6
<1>9. Settling(q, x)
  BY <1>2, <1>3, <1>5, <1>8 DEF Settling
<1> QED BY <1>2, <1>7, <1>8, <1>9

\* The trade of a decision, and the change of the balance b it makes.
LEMMA SettlementIs ==
  ASSUME NEW d \in Decision, d.price # NaN, NEW amount \in Nat \ {0}, NEW b \in Money
  PROVE  LET q == Settlement(d, amount, b) IN
           /\ q \in Seq(Items) /\ Len(q) = 2
           /\ q[1].kind = "trade" /\ q[2].kind = "change"
           /\ q[1].record.decision = d.id /\ q[1].record.ts = d.ts /\ q[1].record.volume = amount
           /\ q[2].record.origin = "TRADE" /\ q[2].record.ts = d.ts
           /\ q[2].record.delta = Delta(d.type, amount, d.price)
           /\ q[2].record.after = Plus(b, q[2].record.delta)
<1>1. d.price \in Prices /\ d.type \in Kinds /\ d.id \in Nat /\ d.ts \in Nat
  BY DEF Decision
<1>2. PICK delta : delta = Delta(d.type, amount, d.price)
  OBVIOUS
<1>3. delta \in Money /\ Plus(b, delta) \in Money
  BY <1>1, <1>2, MoneyMoves, PricesAssumption
<1>4. PICK t : t = Send(d, amount)
  OBVIOUS
<1>5. t \in Trade /\ t.decision = d.id /\ t.ts = d.ts /\ t.volume = amount
  BY <1>1, <1>4 DEF Send, Trade
<1>6. PICK c : c = [ts |-> d.ts, origin |-> "TRADE", delta |-> delta, after |-> Plus(b, delta)]
  OBVIOUS
<1>7. c \in Change /\ c.origin = "TRADE" /\ c.ts = d.ts /\ c.delta = delta /\ c.after = Plus(b, c.delta)
  BY <1>1, <1>3, <1>6 DEF Change
<1>8. PICK i, j : i = Item("trade", t) /\ j = Item("change", c)
  OBVIOUS
<1>9. i \in Items /\ j \in Items /\ i.kind = "trade" /\ j.kind = "change" /\ i.record = t /\ j.record = c
  BY <1>5, <1>7, <1>8 DEF Item, Items, ItemOK, Records
<1>10. PICK q : q = <<i, j>>
  OBVIOUS
<1>11. Settlement(d, amount, b) = q
  BY <1>2, <1>4, <1>6, <1>8, <1>10 DEF Settlement
<1>12. q \in Seq(Items) /\ Len(q) = 2 /\ q[1] = i /\ q[2] = j
  BY <1>9, <1>10
<1> QED BY <1>2, <1>5, <1>7, <1>9, <1>11, <1>12

\* All that execute() feeds for a decision: a trade, its change and the passed
\* decision, or a cancelled decision alone.
LEMMA EffectsAre ==
  ASSUME NEW d \in Decision, d.status = "PENDING", d.amount \in Amounts \union {NaN},
         BalanceAt(d.ts) \in Money
  PROVE  /\ Effects(d) \in Seq(Items)
         /\ \E x \in Decision :
              /\ Settling(Effects(d), x)
              /\ Len(Effects(d)) = 4 \/ (Len(Effects(d)) = 2 /\ x.status = "CANCELLED")
         /\ \A i \in DOMAIN Effects(d) : Effects(d)[i].kind = "change" =>
              LET c == Effects(d)[i].record IN
                /\ c.origin = "TRADE" /\ c.ts = d.ts /\ c.after = Plus(BalanceAt(d.ts), c.delta)
                /\ c.delta = Delta(d.type, Amount(d, BalanceAt(d.ts)), d.price)
                /\ Valid(Amount(d, BalanceAt(d.ts)), d.price, BalanceAt(d.ts))
<1>1. PICK b \in Money : b = BalanceAt(d.ts)
  OBVIOUS
<1>2. PICK amount \in Int : amount = Amount(d, b)
  <2>1. d.price \in (Nat \ {0}) \union {NaN}
    BY PricesAssumption DEF Decision
  <2> QED BY <2>1, AmountIs
<1>3. CASE Valid(amount, d.price, b)
  <2>1. amount \in Nat \ {0} /\ d.price # NaN
    BY <1>3 DEF Valid
  <2>2. PICK p : p = Settlement(d, amount, b)
    OBVIOUS
  <2>3. PICK v : v = Verdict(d, amount, "PASSED")
    OBVIOUS
  <2>4. /\ p \in Seq(Items) /\ Len(p) = 2
        /\ p[1].kind = "trade" /\ p[2].kind = "change"
        /\ p[1].record.decision = d.id /\ p[1].record.ts = d.ts /\ p[1].record.volume = amount
        /\ p[2].record.origin = "TRADE" /\ p[2].record.ts = d.ts
        /\ p[2].record.delta = Delta(d.type, amount, d.price)
        /\ p[2].record.after = Plus(b, p[2].record.delta)
    BY <2>1, <2>2, SettlementIs
  <2>5. v \in Seq(Items) /\ Len(v) = 2
    BY <2>3, VerdictIs
  <2>6. PICK x \in Decision :
          Settling(v, x) /\ x.status = "PASSED" /\ x.amount = amount /\ x.id = d.id /\ x.ts = d.ts
    BY <2>3, VerdictIs
  <2>7. /\ v[1].kind = "decision" /\ Precedes(v[1].record, x)
        /\ v[2].kind = "decision" /\ v[2].record = x
    BY <2>5, <2>6 DEF Settling
  <2>8. PICK q : q = p \o v
    OBVIOUS
  <2>9. /\ q \in Seq(Items) /\ Len(q) = 4 /\ q[1] = p[1] /\ q[2] = p[2] /\ q[3] = v[1] /\ q[4] = v[2]
    BY <2>4, <2>5, <2>8, Chained
  <2>10. Effects(d) = q
    BY <1>1, <1>2, <1>3, <2>2, <2>3, <2>8 DEF Effects
  <2>11. Backs(q[1].record, x)
    BY <2>4, <2>6, <2>9 DEF Backs
  <2>12. Settling(q, x)
    BY <2>4, <2>6, <2>7, <2>9, <2>11 DEF Settling
  <2>13. \A i \in DOMAIN q : q[i].kind = "change" => i = 2
    <3>1. \A i \in DOMAIN q : i = 1 \/ i = 2 \/ i = 3 \/ i = 4
      BY <2>9
    <3> QED BY <2>4, <2>7, <2>9, <3>1
  <2> QED BY <1>1, <1>2, <1>3, <2>4, <2>9, <2>10, <2>12, <2>13
<1>4. CASE ~ Valid(amount, d.price, b)
  <2>1. PICK v : v = Verdict(d, amount, "CANCELLED")
    OBVIOUS
  <2>2. v \in Seq(Items) /\ Len(v) = 2
    BY <2>1, VerdictIs
  <2>3. PICK x \in Decision : Settling(v, x) /\ x.status = "CANCELLED"
    BY <2>1, VerdictIs
  <2>4. v[1].kind = "decision" /\ v[2].kind = "decision"
    BY <2>2, <2>3 DEF Settling
  <2>5. Effects(d) = v
    BY <1>1, <1>2, <1>4, <2>1 DEF Effects
  <2>6. \A i \in DOMAIN v : i = 1 \/ i = 2
    BY <2>2
  <2> QED BY <2>2, <2>3, <2>4, <2>5, <2>6
<1> QED BY <1>3, <1>4

-----------------------------------------------------------------------------
(* The call under way, and the history the broker reads.                     *)

\* A call is fed from the first history on, while the program runs.
Calling ==
  /\ queue \in Seq(Items) /\ Shaped(queue)
  /\ queue = <<>> => to = First
  /\ ~ up => queue = <<>>

\* Nothing is fed before its time; a memory that is read starts with init().
Timely ==
  /\ \A i \in DOMAIN queue :
       queue[i].kind = "change" /\ queue[i].record.origin = "TRADE" => queue[i].record.ts = now
  /\ First \in Memory =>
       /\ Sorted(changes[First]) /\ UpTo(changes[First], now)
       /\ ~ up \/ Owed(First) = Opening => changes[First] = <<>>

\* Once init() has fed the history that is read, there is a balance in it.
Readable == up /\ Owed(First) # Opening => changes[First] # <<>>

Typed == TypeOK /\ Calling
Core  == Typed /\ Timely /\ Readable

LEMMA TypedItems ==
  ASSUME NEW q \in Seq(Items)
  PROVE  \A i \in DOMAIN q :
           LET r == q[i].record IN
             \/ q[i].kind = "trade" /\ r \in Trade
             \/ q[i].kind = "change" /\ r \in Change
             \/ q[i].kind = "decision" /\ r \in Decision
<1>1. \A i \in DOMAIN q : q[i] \in Items
  OBVIOUS
<1> QED BY <1>1 DEF Items, ItemOK

\* What is fed to one history goes to the end of its log.
LEMMA FedIs ==
  ASSUME NEW S, NEW log \in [Histories -> Seq(S)], NEW h \in Histories, NEW r \in S
  PROVE  LET fed == [log EXCEPT ![h] = Append(@, r)] IN
           /\ fed \in [Histories -> Seq(S)]
           /\ fed[h] = Append(log[h], r)
           /\ \A g \in Histories : g # h => fed[g] = log[g]
<1>1. PICK s \in Seq(S) : s = Append(log[h], r)
  <2>1. log[h] \in Seq(S)
    OBVIOUS
  <2>2. Append(log[h], r) \in Seq(S)
    BY <2>1, AppendProperties
  <2> QED BY <2>2
<1>2. [log EXCEPT ![h] = Append(@, r)] = [log EXCEPT ![h] = s]
  BY <1>1
<1>3. PICK fed : fed = [log EXCEPT ![h] = s]
  OBVIOUS
<1>4. fed \in [Histories -> Seq(S)] /\ fed[h] = s /\ \A g \in Histories : g # h => fed[g] = log[g]
  BY <1>3
<1> QED BY <1>1, <1>2, <1>3, <1>4

LEMMA HeadChange ==
  ASSUME NEW q \in Seq(Items), Shaped(q), q # <<>>
  PROVE  /\ Head(q) \in Items /\ ItemOK(Head(q)) /\ Head(q) = q[1] /\ 1 \in DOMAIN q
         /\ Head(q).kind = "change" => q = Opening \/ Head(q).record.origin = "TRADE"
         /\ q = Opening => Head(q).kind = "change" /\ Head(q).record.ts = 0
         /\ Tail(q) # Opening
<1>1. Head(q) \in Items /\ Head(q) = q[1] /\ 1 \in DOMAIN q
  BY TailIs
<1>2. ItemOK(Head(q))
  BY <1>1 DEF Items
<1>3. ASSUME NEW x \in Decision, Settling(q, x)
      PROVE  /\ Head(q).kind = "change" => Head(q).record.origin = "TRADE"
             /\ Tail(q) # Opening
  <2>1. Len(q) \in 1 .. 4
    BY <1>3 DEF Settling
  <2>2. q[1].kind = "change" => Len(q) = 3
    BY <1>3, <2>1 DEF Settling
  <2>3. Len(q) = 3 => q[1].record.origin = "TRADE"
    BY <1>3 DEF Settling
  <2>4. Tail(q) = <<>> \/ Settling(Tail(q), x)
    BY <1>3, <2>1, SettlingGoesOn
  <2>5. ~ Settling(Opening, x)
    BY OpeningIs DEF Settling
  <2> QED BY <1>1, <2>2, <2>3, <2>4, <2>5, OpeningIs
<1>4. q = Opening => Head(q).kind = "change" /\ Head(q).record.ts = 0 /\ Tail(q) # Opening
  BY <1>1, OpeningIs
<1> QED BY <1>1, <1>2, <1>3, <1>4 DEF Shaped

LEMMA InitCore == Init => Core
<1> SUFFICES ASSUME Init PROVE Core
  OBVIOUS
<1>1. /\ trades = Nothing /\ changes = Nothing /\ decisions = Nothing /\ queue = <<>> /\ to = First
      /\ up = FALSE /\ now = 1 /\ lastId = 0 /\ count = 0 /\ crashes = 0
  BY DEF Init
<1>2. \A S : Nothing \in [Histories -> Seq(S)]
  BY DEF Nothing
<1>3. <<>> \in Seq(Items) /\ DOMAIN <<>> = {}
  OBVIOUS
<1>4. TypeOK
  <2>1. now \in 1 .. MaxTime
    BY <1>1, TimeAssumption
  <2>2. \A i \in DOMAIN queue : FALSE
    BY <1>1, <1>3
  <2>3. /\ trades \in [Histories -> Seq(Trade)] /\ changes \in [Histories -> Seq(Change)]
        /\ decisions \in [Histories -> Seq(Decision)]
    BY <1>1, <1>2
  <2> QED BY <1>1, <2>1, <2>2, <2>3, FirstIs DEF TypeOK
<1>5. Calling
  BY <1>1, <1>3 DEF Calling, Shaped
<1>6. changes[First] = <<>>
  BY <1>1, FirstIs DEF Nothing
<1>7. Timely /\ Readable
  BY <1>1, <1>3, <1>6 DEF Timely, Readable, Sorted, UpTo
<1> QED BY <1>4, <1>5, <1>7 DEF Core, Typed

LEMMA StartCore == Core /\ Start => Core'
<1> SUFFICES ASSUME Core, Start PROVE Core'
  OBVIOUS
<1>1. /\ ~ up /\ up' = TRUE /\ lastId' = 0 /\ queue' = Opening
      /\ trades' = trades /\ changes' = changes /\ decisions' = decisions
      /\ to' = to /\ now' = now /\ count' = count /\ crashes' = crashes
  BY DEF Start, logs
<1>2. TypeOK /\ Calling /\ Timely
  BY DEF Core, Typed
<1>3. to' = First
  BY <1>1, <1>2 DEF Calling
<1>4. TypeOK'
  BY <1>1, <1>2, OpeningIs, TypedItems DEF TypeOK
<1>5. Calling'
  BY <1>1, OpeningIs DEF Calling, Shaped
<1>6. Owed(First)' = Opening
  <2>1. ~ (First < First)
    BY FirstIs, HistoriesAssumption
  <2> QED BY <1>1, <1>3, <2>1 DEF Owed
<1>7. Timely'
  <2>1. DOMAIN Opening = 1 .. 1
    BY OpeningIs
  <2>2. \A i \in DOMAIN Opening : i = 1
    BY <2>1
  <2>3. \A i \in DOMAIN queue' : queue'[i].record.origin = "INIT"
    BY <1>1, <2>2, OpeningIs
  <2>4. First \in Memory => changes[First] = <<>> /\ Sorted(changes[First]) /\ UpTo(changes[First], now)
    BY <1>1, <1>2 DEF Timely
  <2> QED BY <1>1, <2>3, <2>4 DEF Timely
<1>8. Readable'
  BY <1>6 DEF Readable
<1> QED BY <1>4, <1>5, <1>7, <1>8 DEF Core, Typed

LEMMA ExecuteCore ==
  ASSUME Core, NEW t \in now .. MaxTime, NEW type \in Kinds, NEW price \in Prices \union {NaN},
         NEW amount \in Amounts \union {NaN}, Execute(t, type, price, amount)
  PROVE  /\ Core'
         /\ \A h \in Histories : Owed(h)' = queue'
         /\ \E d \in Decision :
              /\ d.status = "PENDING" /\ d.amount \in Amounts \union {NaN} /\ d.ts = t
              /\ BalanceAt(d.ts) \in Money /\ queue' = Effects(d)
<1>1. /\ up /\ queue = <<>> /\ now' = t /\ t >= now + Pause
      /\ lastId' = lastId + 1 /\ count' = count + 1
      /\ queue' = Effects(Decided(t, type, price, amount))
      /\ trades' = trades /\ changes' = changes /\ decisions' = decisions
      /\ to' = to /\ up' = up /\ crashes' = crashes
  BY DEF Execute, logs
<1>2. TypeOK /\ Calling /\ Timely /\ Readable
  BY DEF Core, Typed
<1>3. now \in Nat /\ t \in Nat /\ t >= now /\ t \in 1 .. MaxTime
  BY <1>2, TimeAssumption DEF TypeOK
<1>4. PICK d : d = Decided(t, type, price, amount)
  OBVIOUS
<1>5. d \in Decision /\ d.status = "PENDING" /\ d.amount \in Amounts \union {NaN} /\ d.ts = t
  <2>1. lastId + 1 \in Nat /\ amount \in Int
    BY <1>2, AmountsAssumption DEF TypeOK, NaN
  <2> QED BY <1>3, <1>4, <2>1 DEF Decided, Decision
<1>6. to = First /\ to' = First
  BY <1>1, <1>2 DEF Calling
<1>7. \A h \in Histories : ~ (h < First)
  BY FirstIs, HistoriesAssumption
<1>8. Owed(First) = <<>> /\ \A h \in Histories : Owed(h)' = queue'
  BY <1>1, <1>6, <1>7, FirstIs DEF Owed
<1>9. changes[First] \in Seq(Change) /\ changes[First] # <<>>
  BY <1>1, <1>2, <1>8, FirstIs, OpeningIs DEF Readable, TypeOK
<1>10. UpTo(changes[First], now) => UpTo(changes[First], t)
  <2>1. \A i \in DOMAIN changes[First] : changes[First][i].ts \in Nat
    <3>1. \A i \in DOMAIN changes[First] : changes[First][i] \in Change
      BY <1>9
    <3> QED BY <3>1 DEF Change
  <2> QED BY <1>3, <2>1 DEF UpTo
<1>11. BalanceAt(t) \in Money
  BY <1>2, <1>3, <1>9, <1>10, BalanceIs DEF Timely
<1>12. PICK q \in Seq(Items) : q = queue'
  BY <1>1, <1>4, <1>5, <1>11, EffectsAre
<1>13. \E x \in Decision : Settling(q, x)
  BY <1>1, <1>4, <1>5, <1>11, <1>12, EffectsAre
<1>14. q # <<>> /\ q # Opening
  BY <1>13, OpeningIs DEF Settling
<1>15. \A i \in DOMAIN q : q[i].kind = "change" => q[i].record.origin = "TRADE" /\ q[i].record.ts = t
  BY <1>1, <1>4, <1>5, <1>11, <1>12, EffectsAre
<1>16. TypeOK'
  BY <1>1, <1>2, <1>3, <1>12, TypedItems DEF TypeOK
<1>17. Calling'
  BY <1>1, <1>12, <1>13, <1>14 DEF Calling, Shaped
<1>18. Timely'
  BY <1>1, <1>2, <1>8, <1>10, <1>12, <1>14, <1>15, FirstIs DEF Timely
<1>19. Readable'
  BY <1>1, <1>9 DEF Readable
<1> QED BY <1>1, <1>4, <1>5, <1>8, <1>11, <1>16, <1>17, <1>18, <1>19 DEF Core, Typed

\* The turn of feed(), in the terms of the logs of the history it is for.
LEMMA FeedIs ==
  ASSUME Typed, FeedOne
  PROVE  /\ to \in Histories /\ to' \in Histories /\ queue \in Seq(Items) /\ queue # <<>> /\ Shaped(queue)
         /\ trades' \in [Histories -> Seq(Trade)] /\ changes' \in [Histories -> Seq(Change)]
         /\ decisions' \in [Histories -> Seq(Decision)]
         /\ \A h \in Histories : h # to =>
              /\ trades'[h] = trades[h] /\ changes'[h] = changes[h] /\ decisions'[h] = decisions[h]
         /\ trades'[to] = IF Head(queue).kind = "trade" THEN Append(trades[to], Head(queue).record)
                                                         ELSE trades[to]
         /\ changes'[to] = IF Head(queue).kind = "change" THEN Append(changes[to], Head(queue).record)
                                                           ELSE changes[to]
         /\ decisions'[to] = IF Head(queue).kind = "decision" THEN Append(decisions[to], Head(queue).record)
                                                              ELSE decisions[to]
<1>1. TypeOK /\ queue \in Seq(Items) /\ Shaped(queue) /\ queue # <<>>
  BY DEF Typed, Calling, FeedOne
<1>2. /\ trades' = Fed(trades, "trade") /\ changes' = Fed(changes, "change")
      /\ decisions' = Fed(decisions, "decision")
  BY DEF FeedOne
<1>3. /\ Head(queue).kind = "trade" => Head(queue).record \in Trade
      /\ Head(queue).kind = "change" => Head(queue).record \in Change
      /\ Head(queue).kind = "decision" => Head(queue).record \in Decision
  BY <1>1, HeadChange DEF ItemOK
<1>4. to \in Histories /\ to' \in Histories
  BY <1>1, TurnIs DEF TypeOK
<1>5. /\ trades \in [Histories -> Seq(Trade)] /\ changes \in [Histories -> Seq(Change)]
      /\ decisions \in [Histories -> Seq(Decision)]
  BY <1>1 DEF TypeOK
<1>6. /\ trades' \in [Histories -> Seq(Trade)]
      /\ \A h \in Histories : h # to => trades'[h] = trades[h]
      /\ trades'[to] = IF Head(queue).kind = "trade" THEN Append(trades[to], Head(queue).record)
                                                      ELSE trades[to]
  <2>1. PICK x : x = Head(queue)
    OBVIOUS
  <2>2. CASE x.kind = "trade"
    <3>1. PICK r \in Trade : r = x.record
      BY <1>3, <2>1, <2>2
    <3>2. trades' = [trades EXCEPT ![to] = Append(@, r)]
      BY <1>2, <2>1, <2>2, <3>1 DEF Fed
    <3>3. /\ trades' \in [Histories -> Seq(Trade)] /\ trades'[to] = Append(trades[to], r)
          /\ \A h \in Histories : h # to => trades'[h] = trades[h]
      BY <1>4, <1>5, <3>2, FedIs
    <3> QED BY <2>1, <2>2, <3>1, <3>3
  <2>3. CASE x.kind # "trade"
    BY <1>2, <1>5, <2>1, <2>3 DEF Fed
  <2> QED BY <2>2, <2>3
<1>7. /\ changes' \in [Histories -> Seq(Change)]
      /\ \A h \in Histories : h # to => changes'[h] = changes[h]
      /\ changes'[to] = IF Head(queue).kind = "change" THEN Append(changes[to], Head(queue).record)
                                                        ELSE changes[to]
  <2>1. PICK x : x = Head(queue)
    OBVIOUS
  <2>2. CASE x.kind = "change"
    <3>1. PICK r \in Change : r = x.record
      BY <1>3, <2>1, <2>2
    <3>2. changes' = [changes EXCEPT ![to] = Append(@, r)]
      BY <1>2, <2>1, <2>2, <3>1 DEF Fed
    <3>3. /\ changes' \in [Histories -> Seq(Change)] /\ changes'[to] = Append(changes[to], r)
          /\ \A h \in Histories : h # to => changes'[h] = changes[h]
      BY <1>4, <1>5, <3>2, FedIs
    <3> QED BY <2>1, <2>2, <3>1, <3>3
  <2>3. CASE x.kind # "change"
    BY <1>2, <1>5, <2>1, <2>3 DEF Fed
  <2> QED BY <2>2, <2>3
<1>8. /\ decisions' \in [Histories -> Seq(Decision)]
      /\ \A h \in Histories : h # to => decisions'[h] = decisions[h]
      /\ decisions'[to] = IF Head(queue).kind = "decision" THEN Append(decisions[to], Head(queue).record)
                                                            ELSE decisions[to]
  <2>1. PICK x : x = Head(queue)
    OBVIOUS
  <2>2. CASE x.kind = "decision"
    <3>1. PICK r \in Decision : r = x.record
      BY <1>3, <2>1, <2>2
    <3>2. decisions' = [decisions EXCEPT ![to] = Append(@, r)]
      BY <1>2, <2>1, <2>2, <3>1 DEF Fed
    <3>3. /\ decisions' \in [Histories -> Seq(Decision)] /\ decisions'[to] = Append(decisions[to], r)
          /\ \A h \in Histories : h # to => decisions'[h] = decisions[h]
      BY <1>4, <1>5, <3>2, FedIs
    <3> QED BY <2>1, <2>2, <3>1, <3>3
  <2>3. CASE x.kind # "decision"
    BY <1>2, <1>5, <2>1, <2>3 DEF Fed
  <2> QED BY <2>2, <2>3
<1> QED BY <1>1, <1>4, <1>6, <1>7, <1>8

LEMMA AppendIs ==
  ASSUME NEW S, NEW s \in Seq(S), NEW x \in S
  PROVE  /\ Append(s, x) \in Seq(S) /\ Append(s, x) # <<>>
         /\ Len(s) \in Nat /\ Len(Append(s, x)) = Len(s) + 1
         /\ DOMAIN s = 1 .. Len(s) /\ DOMAIN Append(s, x) = 1 .. (Len(s) + 1)
         /\ \A i \in DOMAIN s : Append(s, x)[i] = s[i] /\ i \in DOMAIN Append(s, x)
         /\ Append(s, x)[Len(s) + 1] = x
         /\ \A i \in DOMAIN Append(s, x) : i \in DOMAIN s \/ i = Len(s) + 1
<1>1. PICK a : a = Append(s, x)
  OBVIOUS
<1>2. a \in Seq(S) /\ Len(a) = Len(s) + 1 /\ Len(s) \in Nat /\ DOMAIN s = 1 .. Len(s) /\ DOMAIN a = 1 .. Len(a)
  BY <1>1
<1>3. \A i \in 1 .. Len(s) : a[i] = s[i]
  BY <1>1
<1>4. a[Len(s) + 1] = x
  BY <1>1
<1>5. a # <<>>
  BY <1>2
<1> QED BY <1>1, <1>2, <1>3, <1>4, <1>5

LEMMA SortedGrows ==
  ASSUME NEW log \in Seq(Change), NEW c \in Change, NEW t \in Nat,
         Sorted(log), UpTo(log, t), c.ts = t \/ (log = <<>> /\ c.ts <= t)
  PROVE  Sorted(Append(log, c)) /\ UpTo(Append(log, c), t)
<1>1. PICK a : a = Append(log, c)
  OBVIOUS
<1>2. /\ DOMAIN log = 1 .. Len(log) /\ Len(log) \in Nat /\ a[Len(log) + 1] = c
      /\ \A i \in DOMAIN log : a[i] = log[i]
      /\ \A i \in DOMAIN a : i \in DOMAIN log \/ i = Len(log) + 1
  BY <1>1, AppendIs
<1>3. \A i \in DOMAIN log : log[i].ts \in Nat /\ log[i].ts <= t /\ i \in Nat /\ i <= Len(log)
  <2>1. \A i \in DOMAIN log : log[i] \in Change
    OBVIOUS
  <2> QED BY <1>2, <2>1 DEF Change, UpTo
<1>4. c.ts \in Nat /\ c.ts <= t /\ \A i \in DOMAIN log : log[i].ts <= c.ts
  <2>1. c.ts \in Nat
    BY DEF Change
  <2>2. log = <<>> => \A i \in DOMAIN log : FALSE
    OBVIOUS
  <2> QED BY <1>3, <2>1, <2>2
<1>5. UpTo(a, t)
  BY <1>2, <1>3, <1>4 DEF UpTo
<1>6. Sorted(a)
  <2> SUFFICES ASSUME NEW i \in DOMAIN a, NEW j \in DOMAIN a, i <= j
               PROVE  a[i].ts <= a[j].ts
    BY DEF Sorted
  <2>1. CASE j = Len(log) + 1
    BY <1>2, <1>4, <2>1
  <2>2. CASE j \in DOMAIN log
    <3>1. i # Len(log) + 1
      BY <1>2, <1>3, <2>2
    <3>2. i \in DOMAIN log
      BY <1>2, <3>1
    <3> QED BY <1>2, <2>2, <3>2 DEF Sorted
  <2> QED BY <1>2, <2>1, <2>2
<1> QED BY <1>1, <1>5, <1>6

LEMMA FeedCore == Core /\ FeedOne => Core'
<1> SUFFICES ASSUME Core, FeedOne PROVE Core'
  OBVIOUS
<1>1. TypeOK /\ Calling /\ Timely /\ Readable /\ Typed
  BY DEF Core, Typed
<1>2. PICK q \in Seq(Items) : q = queue /\ q # <<>> /\ Shaped(q)
  BY <1>1, FeedIs
<1>3. PICK h \in Histories : h = to
  BY <1>1, FeedIs
<1>4. up /\ up' = up /\ now' = now /\ lastId' = lastId /\ count' = count /\ crashes' = crashes
  BY <1>1, <1>2 DEF FeedOne, Calling, TypeOK
<1>5. PICK p \in Seq(Items) : p = queue'
  <2>1. queue' = q \/ queue' = Tail(q)
    BY <1>2 DEF FeedOne
  <2> QED BY <1>2, <2>1, TailIs
<1>6. p = q \/ (p = Tail(q) /\ to' = First)
  BY <1>2, <1>5 DEF FeedOne
<1>7. Shaped(p) /\ (p = <<>> => to' = First)
  BY <1>2, <1>6, ShapedGoesOn
<1>8. Calling'
  BY <1>4, <1>5, <1>7 DEF Calling
<1>9. TypeOK'
  BY <1>1, <1>4, <1>5, FeedIs, TypedItems DEF TypeOK
<1>10. \A i \in DOMAIN p : p[i].kind = "change" /\ p[i].record.origin = "TRADE" => p[i].record.ts = now
  <2>1. \A i \in DOMAIN q : q[i].kind = "change" /\ q[i].record.origin = "TRADE" => q[i].record.ts = now
    BY <1>1, <1>2 DEF Timely
  <2>2. \A i \in DOMAIN Tail(q) : i + 1 \in DOMAIN q /\ Tail(q)[i] = q[i + 1]
    <3>1. /\ Tail(q) \in Seq(Items) /\ Len(q) \in Nat /\ Len(Tail(q)) = Len(q) - 1
          /\ \A i \in 1 .. Len(q) - 1 : Tail(q)[i] = q[i + 1]
      BY <1>2, TailIs
    <3>2. DOMAIN Tail(q) = 1 .. Len(Tail(q)) /\ DOMAIN q = 1 .. Len(q)
      BY <3>1
    <3> QED BY <3>1, <3>2
  <2>3. CASE p = q
    BY <2>1, <2>3
  <2>4. CASE p = Tail(q)
    BY <2>1, <2>2, <2>4
  <2> QED BY <1>6, <2>3, <2>4
<1>11. PICK f \in Histories : f = First
  BY FirstIs
<1>12. PICK x : x = Head(q)
  OBVIOUS
<1>13. CASE f = h
  <2>1. Owed(First)' = Tail(q)
    BY <1>1, <1>2, <1>3, <1>11, <1>13, TurnIs DEF TypeOK
  <2>2. Owed(First) = q
    BY <1>1, <1>2, <1>3, <1>11, <1>13, TurnIs DEF TypeOK
  <2>3. Tail(q) # Opening
    BY <1>2, HeadChange
  <2>4. changes'[f] = IF x.kind = "change" THEN Append(changes[f], x.record) ELSE changes[f]
    BY <1>1, <1>2, <1>3, <1>12, <1>13, FeedIs
  <2>5. changes[f] \in Seq(Change) /\ now \in Nat
    BY <1>1, TimeAssumption DEF TypeOK
  <2>6. x.kind = "change" => x.record \in Change
    BY <1>2, <1>12, HeadChange DEF ItemOK
  <2>7. ASSUME x.kind = "change"
        PROVE  (q = Opening /\ x.record.ts = 0) \/ x.record.ts = now
    BY <1>1, <1>2, <1>12, <2>7, HeadChange DEF Timely
  <2>8. First \in Memory => Sorted(changes'[f]) /\ UpTo(changes'[f], now)
    <3> SUFFICES ASSUME First \in Memory PROVE Sorted(changes'[f]) /\ UpTo(changes'[f], now)
      OBVIOUS
    <3>1. /\ Sorted(changes[f]) /\ UpTo(changes[f], now)
          /\ q = Opening => changes[f] = <<>>
      BY <1>1, <1>11, <2>2 DEF Timely
    <3>2. x.kind = "change" => x.record.ts = now \/ (changes[f] = <<>> /\ x.record.ts <= now)
      BY <2>5, <2>7, <3>1
    <3> QED BY <2>4, <2>5, <2>6, <3>1, <3>2, SortedGrows
  <2>9. Timely'
    BY <1>4, <1>5, <1>10, <1>11, <2>1, <2>3, <2>8 DEF Timely
  <2>10. changes'[f] # <<>>
    <3>1. CASE x.kind = "change"
      BY <2>4, <2>5, <2>6, <3>1, AppendIs
    <3>2. CASE x.kind # "change"
      <4>1. q # Opening
        BY <1>2, <1>12, <3>2, HeadChange
      <4> QED BY <1>1, <1>4, <1>11, <2>2, <2>4, <3>2, <4>1 DEF Readable
    <3> QED BY <3>1, <3>2
  <2>11. Readable'
    BY <1>11, <2>10 DEF Readable
  <2> QED BY <1>8, <1>9, <2>9, <2>11 DEF Core, Typed
<1>14. CASE f # h
  <2>1. PICK o : o = Owed(First)
    OBVIOUS
  <2>2. Owed(First)' = o
    BY <1>1, <1>3, <1>11, <1>14, <2>1, TurnIs DEF TypeOK
  <2>3. changes'[f] = changes[f]
    BY <1>1, <1>3, <1>14, FeedIs
  <2>4. Timely'
    BY <1>1, <1>4, <1>5, <1>10, <1>11, <2>1, <2>2, <2>3 DEF Timely
  <2>5. Readable'
    BY <1>1, <1>4, <1>11, <2>1, <2>2, <2>3 DEF Readable
  <2> QED BY <1>8, <1>9, <2>4, <2>5 DEF Core, Typed
<1> QED BY <1>13, <1>14

LEMMA SurvivingIs ==
  ASSUME NEW S, NEW log \in [Histories -> Seq(S)]
  PROVE  /\ Surviving(log) \in [Histories -> Seq(S)]
         /\ \A h \in Histories : Surviving(log)[h] = IF h \in Memory THEN <<>> ELSE log[h]
  BY DEF Surviving

LEMMA CrashCore == Core /\ Crash => Core'
<1> SUFFICES ASSUME Core, Crash PROVE Core'
  OBVIOUS
<1>1. /\ up' = FALSE /\ crashes' = crashes + 1 /\ queue' = <<>> /\ to' = First
      /\ trades' = Surviving(trades) /\ changes' = Surviving(changes) /\ decisions' = Surviving(decisions)
      /\ now' = now /\ lastId' = lastId /\ count' = count
  BY DEF Crash
<1>2. TypeOK
  BY DEF Core, Typed
<1>3. <<>> \in Seq(Items) /\ DOMAIN <<>> = {}
  OBVIOUS
<1>4. \A i \in DOMAIN queue' : FALSE
  BY <1>1, <1>3
<1>5. /\ trades' \in [Histories -> Seq(Trade)] /\ changes' \in [Histories -> Seq(Change)]
      /\ decisions' \in [Histories -> Seq(Decision)]
  BY <1>1, <1>2, SurvivingIs DEF TypeOK
<1>6. crashes' \in Nat
  BY <1>1, <1>2 DEF TypeOK
<1>7. TypeOK'
  BY <1>1, <1>2, <1>4, <1>5, <1>6, FirstIs DEF TypeOK
<1>8. Calling'
  BY <1>1, <1>3 DEF Calling, Shaped
<1>9. First \in Memory => changes'[First] = <<>>
  BY <1>1, <1>2, FirstIs, SurvivingIs DEF TypeOK
<1>10. Timely' /\ Readable'
  <2>1. PICK e : e = <<>> /\ DOMAIN e = {}
    BY <1>3
  <2>2. Sorted(e) /\ UpTo(e, now)
    BY <2>1 DEF Sorted, UpTo
  <2>3. First \in Memory => Sorted(changes'[First]) /\ UpTo(changes'[First], now)
    BY <1>9, <2>1, <2>2
  <2>4. now' = now /\ ~ up'
    BY DEF Crash
  <2>5. Readable'
    BY <2>4 DEF Readable
  <2>6. Timely'
    BY <1>4, <1>9, <2>3, <2>4 DEF Timely
  <2> QED BY <2>5, <2>6
<1> QED BY <1>7, <1>8, <1>10 DEF Core, Typed

LEMMA StillCore == Core /\ (Finished \/ UNCHANGED vars) => Core'
<1> SUFFICES ASSUME Core, Finished \/ UNCHANGED vars PROVE Core'
  OBVIOUS
<1>1. UNCHANGED <<trades, changes, decisions, queue, to, up, now, lastId, count, crashes>>
  BY DEF Finished, vars
<1>2. TypeOK'
  BY <1>1 DEF Core, Typed, TypeOK
<1>3. Calling'
  BY <1>1 DEF Core, Typed, Calling, Owed
<1>4. Timely' /\ Readable'
  BY <1>1 DEF Core, Timely, Readable, Owed
<1> QED BY <1>2, <1>3, <1>4 DEF Core, Typed

LEMMA StepCore == Core /\ [Next]_vars => Core'
<1> SUFFICES ASSUME Core, [Next]_vars PROVE Core'
  OBVIOUS
<1>1. ASSUME NEW t \in now .. MaxTime, DecideAndExecute(t)
      PROVE  Core'
  <2>1. PICK type \in Kinds, price \in Prices \union {NaN}, amount \in Amounts \union {NaN} :
          Execute(t, type, price, amount)
    BY <1>1 DEF DecideAndExecute, Kinds
  <2> QED BY <2>1, ExecuteCore
<1> QED BY <1>1, StartCore, FeedCore, CrashCore, StillCore DEF Next

LEMMA CoreHolds == Spec => []Core
  BY InitCore, StepCore, PTL DEF Spec

(* Every history and the call under way keep their types, whatever the        *)
(* decisions and the crashes: whenever the broker reads a balance there is a  *)
(* change to read it from (TypeOK).                                           *)
THEOREM TypeCorrect == Spec => []TypeOK
<1>1. Core => TypeOK
  BY DEF Core, Typed
<1> QED BY <1>1, CoreHolds, PTL

-----------------------------------------------------------------------------
(* The ledger.                                                               *)

\* The changes of log before the i-th that were made at the same time.
Same(log, i) == {j \in DOMAIN log : j < i /\ log[j].ts = log[i].ts}
AddsUp(log) ==
  \A i \in DOMAIN log :
    log[i].origin = "TRADE" /\ (First \in Memory => Cardinality(Same(log, i)) <= 1) =>
      i > 1 /\ log[i].after = Plus(log[i - 1].after, log[i].delta)

\* A change that log is still to be fed follows the last one it has.
WillAddUp(log, q) ==
  \A i \in DOMAIN q :
    q[i].kind = "change" /\ q[i].record.origin = "TRADE" =>
      ((First \in Memory => Cardinality(AtTime(log, q[i].record.ts)) <= 1)
       => log # <<>> /\ q[i].record.after = Plus(log[Len(log)].after, q[i].record.delta))

Ledger == AddsUp(changes[First]) /\ WillAddUp(changes[First], Owed(First))

LEMMA LedgerIs == Ledger => LedgerAddsUp
<1> SUFFICES ASSUME Ledger PROVE LedgerAddsUp
  OBVIOUS
<1>1. PICK log : log = changes[First]
  OBVIOUS
<1>2. AddsUp(log)
  BY <1>1 DEF Ledger
<1>3. \A i \in DOMAIN log :
        log[i].origin = "TRADE"
        /\ (First \in Memory => Cardinality({j \in DOMAIN log : j < i /\ log[j].ts = log[i].ts}) <= 1)
        => i > 1 /\ log[i].after = Plus(log[i - 1].after, log[i].delta)
  BY <1>2 DEF AddsUp, Same
<1> QED BY <1>1, <1>3 DEF LedgerAddsUp

LEMMA LedgerGrows ==
  ASSUME NEW log \in Seq(Change), AddsUp(log), NEW c \in Change,
         c.origin = "TRADE" =>
           ((First \in Memory => Cardinality(AtTime(log, c.ts)) <= 1)
            => log # <<>> /\ c.after = Plus(log[Len(log)].after, c.delta))
  PROVE  AddsUp(Append(log, c))
<1>1. PICK a : a = Append(log, c)
  OBVIOUS
<1>2. /\ DOMAIN log = 1 .. Len(log) /\ Len(log) \in Nat /\ a[Len(log) + 1] = c
      /\ \A i \in DOMAIN log : a[i] = log[i] /\ i \in DOMAIN a
      /\ \A i \in DOMAIN a : i \in DOMAIN log \/ i = Len(log) + 1
  BY <1>1, AppendIs
<1>3. SUFFICES ASSUME NEW i \in DOMAIN a, a[i].origin = "TRADE",
                      First \in Memory => Cardinality(Same(a, i)) <= 1
               PROVE  i > 1 /\ a[i].after = Plus(a[i - 1].after, a[i].delta)
  BY <1>1 DEF AddsUp
<1>4. CASE i \in DOMAIN log
  <2>1. Same(a, i) = Same(log, i)
    <3>1. \A j \in DOMAIN log : j # Len(log) + 1
      BY <1>2
    <3>2. \A j \in DOMAIN a : j < i => j \in DOMAIN log
      <4> TAKE j \in DOMAIN a
      <4>1. i \in Nat /\ i <= Len(log)
        BY <1>2, <1>4
      <4> QED BY <1>2, <4>1
    <3>3. \A j : j \in Same(a, i) <=> j \in Same(log, i)
      BY <1>2, <1>4, <3>2 DEF Same
    <3> QED BY <3>3
  <2>2. a[i] = log[i]
    BY <1>2, <1>4
  <2>3. i > 1 /\ log[i].after = Plus(log[i - 1].after, log[i].delta)
    BY <1>3, <1>4, <2>1, <2>2 DEF AddsUp
  <2>4. i - 1 \in DOMAIN log
    BY <1>2, <1>4, <2>3
  <2>5. a[i - 1] = log[i - 1]
    BY <1>2, <2>4
  <2> QED BY <2>2, <2>3, <2>5
<1>5. CASE i = Len(log) + 1
  <2>1. Same(a, i) = AtTime(log, c.ts)
    <3>1. \A j \in DOMAIN a : j < i <=> j \in DOMAIN log
      BY <1>2, <1>5
    <3>2. a[i] = c
      BY <1>2, <1>5
    <3>3. \A j : j \in Same(a, i) <=> j \in AtTime(log, c.ts)
      BY <1>2, <3>1, <3>2 DEF Same, AtTime
    <3> QED BY <3>3
  <2>2. log # <<>> /\ c.after = Plus(log[Len(log)].after, c.delta)
    BY <1>2, <1>3, <1>5, <2>1
  <2>3. Len(log) \in DOMAIN log /\ Len(log) >= 1
    <3>1. Len(log) # 0
      BY <2>2
    <3> QED BY <1>2, <3>1
  <2>4. i - 1 = Len(log) /\ i > 1
    BY <1>2, <1>5, <2>3
  <2> QED BY <1>2, <1>5, <2>2, <2>3, <2>4
<1> QED BY <1>2, <1>4, <1>5

LEMMA InitLedger == Init => Ledger
<1> SUFFICES ASSUME Init PROVE Ledger
  OBVIOUS
<1>1. changes[First] = <<>> /\ Owed(First) = <<>> /\ DOMAIN <<>> = {}
  <2>1. changes = Nothing /\ queue = <<>> /\ to = First /\ ~ (First < First)
    BY FirstIs, HistoriesAssumption DEF Init
  <2> QED BY <2>1, FirstIs DEF Nothing, Owed
<1> QED BY <1>1 DEF Ledger, AddsUp, WillAddUp

LEMMA StartLedger == Core /\ Ledger /\ Start => Ledger'
<1> SUFFICES ASSUME Core, Ledger, Start PROVE Ledger'
  OBVIOUS
<1>1. ~ up /\ queue' = Opening /\ changes' = changes /\ to' = to
  BY DEF Start, logs
<1>2. to = First /\ ~ (First < First)
  BY <1>1, FirstIs, HistoriesAssumption DEF Core, Typed, Calling
<1>3. Owed(First)' = Opening
  BY <1>1, <1>2 DEF Owed
<1>4. \A i \in DOMAIN Opening : Opening[i].record.origin # "TRADE"
  <2>1. DOMAIN Opening = 1 .. Len(Opening)
    BY OpeningIs
  <2>2. \A i \in DOMAIN Opening : i = 1
    BY <2>1, OpeningIs
  <2> QED BY <2>2, OpeningIs
<1>5. WillAddUp(changes[First], Opening)
  BY <1>4 DEF WillAddUp
<1> QED BY <1>1, <1>3, <1>5 DEF Ledger

LEMMA ExecuteLedger ==
  ASSUME Core, Ledger, NEW t \in now .. MaxTime, NEW type \in Kinds,
         NEW price \in Prices \union {NaN}, NEW amount \in Amounts \union {NaN},
         Execute(t, type, price, amount)
  PROVE  Ledger'
<1>1. changes' = changes /\ now' = t
  BY DEF Execute, logs
<1>2. Core' /\ Owed(First)' = queue'
  BY ExecuteCore, FirstIs
<1>3. PICK d \in Decision :
        /\ d.status = "PENDING" /\ d.amount \in Amounts \union {NaN} /\ d.ts = t
        /\ BalanceAt(d.ts) \in Money /\ queue' = Effects(d)
  BY ExecuteCore
<1>4. PICK log : log = changes[First]
  OBVIOUS
<1>5. queue' # Opening /\ up'
  <2>1. \E x \in Decision : Settling(queue', x)
    BY <1>3, EffectsAre
  <2> QED BY <2>1, OpeningIs DEF Settling, Execute
<1>6. log \in Seq(Change) /\ log # <<>> /\ t \in Nat
  <2>1. changes \in [Histories -> Seq(Change)] /\ now \in 1 .. MaxTime
    BY DEF Core, Typed, TypeOK
  <2>2. t \in Nat
    BY <2>1, TimeAssumption
  <2>3. Readable'
    BY <1>2 DEF Core
  <2>4. changes'[First] # <<>>
    BY <1>2, <1>5, <2>3 DEF Readable
  <2> QED BY <1>1, <1>4, <2>1, <2>2, <2>4, FirstIs
<1>7. First \in Memory => Sorted(log) /\ UpTo(log, t)
  BY <1>1, <1>2, <1>4 DEF Core, Timely
<1>8. (First \in Memory => Cardinality(AtTime(log, t)) <= 1) => BalanceAt(t) = log[Len(log)].after
  BY <1>4, <1>6, <1>7, BalanceIs
<1>9. PICK q : q = queue'
  OBVIOUS
<1>10. \A i \in DOMAIN q : q[i].kind = "change" =>
         /\ q[i].record.origin = "TRADE" /\ q[i].record.ts = t
         /\ q[i].record.after = Plus(BalanceAt(t), q[i].record.delta)
  BY <1>3, <1>9, EffectsAre
<1>11. WillAddUp(log, q)
  BY <1>6, <1>8, <1>10 DEF WillAddUp
<1> QED BY <1>1, <1>2, <1>4, <1>9, <1>11 DEF Ledger

LEMMA FeedLedger == Core /\ Ledger /\ FeedOne => Ledger'
<1> SUFFICES ASSUME Core, Ledger, FeedOne PROVE Ledger'
  OBVIOUS
<1>1. Typed /\ to \in Histories
  BY DEF Core, Typed, TypeOK
<1>2. PICK f \in Histories : f = First
  BY FirstIs
<1>3. PICK q \in Seq(Items) : q = queue /\ q # <<>> /\ Shaped(q)
  BY <1>1, FeedIs
<1>4. PICK x : x = Head(q)
  OBVIOUS
<1>5. AddsUp(changes[f]) /\ WillAddUp(changes[f], Owed(First))
  BY <1>2 DEF Ledger
<1>6. CASE f # to
  <2>1. PICK o : o = Owed(First)
    OBVIOUS
  <2>2. Owed(First)' = o /\ changes'[f] = changes[f]
    BY <1>1, <1>2, <1>6, <2>1, TurnIs, FeedIs
  <2> QED BY <1>2, <1>5, <2>1, <2>2 DEF Ledger
<1>7. CASE f = to
  <2>1. Owed(First)' = Tail(q) /\ Owed(First) = q
    BY <1>1, <1>2, <1>3, <1>7, TurnIs
  <2>2. changes'[f] = IF x.kind = "change" THEN Append(changes[f], x.record) ELSE changes[f]
    BY <1>1, <1>3, <1>4, <1>7, FeedIs
  <2>3. changes[f] \in Seq(Change)
    BY <1>1 DEF Typed, TypeOK
  <2>4. /\ x = q[1] /\ 1 \in DOMAIN q /\ (x.kind = "change" => x.record \in Change)
    BY <1>3, <1>4, HeadChange DEF ItemOK
  <2>5. CASE x.kind = "change"
    <3>1. AddsUp(Append(changes[f], x.record))
      <4>1. x.record.origin = "TRADE" =>
              ((First \in Memory => Cardinality(AtTime(changes[f], x.record.ts)) <= 1)
               => changes[f] # <<>>
                  /\ x.record.after = Plus(changes[f][Len(changes[f])].after, x.record.delta))
        BY <1>5, <2>1, <2>4, <2>5 DEF WillAddUp
      <4> QED BY <1>5, <2>3, <2>4, <2>5, <4>1, LedgerGrows
    <3>2. \A log : WillAddUp(log, Tail(q))
      BY <1>3, <1>4, <2>5, OneChange DEF WillAddUp
    <3> QED BY <1>2, <2>1, <2>2, <2>5, <3>1, <3>2 DEF Ledger
  <2>6. CASE x.kind # "change"
    <3>1. \A i \in DOMAIN Tail(q) : i + 1 \in DOMAIN q /\ Tail(q)[i] = q[i + 1]
      <4>1. /\ Tail(q) \in Seq(Items) /\ Len(q) \in Nat /\ Len(Tail(q)) = Len(q) - 1
            /\ \A i \in 1 .. Len(q) - 1 : Tail(q)[i] = q[i + 1]
        BY <1>3, TailIs
      <4>2. DOMAIN Tail(q) = 1 .. Len(Tail(q)) /\ DOMAIN q = 1 .. Len(q)
        BY <4>1
      <4> QED BY <4>1, <4>2
    <3>2. WillAddUp(changes[f], Tail(q))
      BY <1>5, <2>1, <3>1 DEF WillAddUp
    <3> QED BY <1>2, <1>5, <2>1, <2>2, <2>6, <3>2 DEF Ledger
  <2> QED BY <2>5, <2>6
<1> QED BY <1>6, <1>7

LEMMA CrashLedger == Core /\ Ledger /\ Crash => Ledger'
<1> SUFFICES ASSUME Core, Ledger, Crash PROVE Ledger'
  OBVIOUS
<1>1. queue' = <<>> /\ to' = First /\ changes' = Surviving(changes)
  BY DEF Crash
<1>2. changes \in [Histories -> Seq(Change)]
  BY DEF Core, Typed, TypeOK
<1>3. changes'[First] = <<>> \/ changes'[First] = changes[First]
  BY <1>1, <1>2, FirstIs, SurvivingIs
<1>4. Owed(First)' = <<>> /\ DOMAIN <<>> = {}
  <2>1. ~ (First < First)
    BY FirstIs, HistoriesAssumption
  <2> QED BY <1>1, <2>1 DEF Owed
<1>5. AddsUp(<<>>)
  BY <1>4 DEF AddsUp
<1>6. \A log : WillAddUp(log, <<>>)
  BY <1>4 DEF WillAddUp
<1> QED BY <1>3, <1>4, <1>5, <1>6 DEF Ledger

LEMMA StepLedger == Core /\ Ledger /\ [Next]_vars => Ledger'
<1> SUFFICES ASSUME Core, Ledger, [Next]_vars PROVE Ledger'
  OBVIOUS
<1>1. ASSUME NEW t \in now .. MaxTime, DecideAndExecute(t)
      PROVE  Ledger'
  <2>1. PICK type \in Kinds, price \in Prices \union {NaN}, amount \in Amounts \union {NaN} :
          Execute(t, type, price, amount)
    BY <1>1 DEF DecideAndExecute, Kinds
  <2> QED BY <2>1, ExecuteLedger
<1>2. CASE Finished \/ UNCHANGED vars
  BY <1>2 DEF Finished, vars, Ledger, Owed
<1> QED BY <1>1, <1>2, StartLedger, FeedLedger, CrashLedger DEF Next

(* In the history the broker reads, every balance is the previous one plus    *)
(* its change, across restarts too, while a memory has one change of that     *)
(* time at most: the balance read when a decision is validated is still the   *)
(* last one when its change is made (LedgerAddsUp).                           *)
THEOREM TheLedgerAddsUp == Spec => []LedgerAddsUp
<1>1. Spec => []Ledger
  BY InitLedger, StepLedger, CoreHolds, PTL DEF Spec
<1> QED BY <1>1, LedgerIs, PTL

-----------------------------------------------------------------------------
(* What a history has to back a decision with.                               *)

Passed(de) == {i \in DOMAIN de : de[i].status = "PASSED"}
Paid(ch)   == {i \in DOMAIN ch : ch[i].origin = "TRADE"}

\* The trades, changes and decisions of a history say the same.
Supported(tr, ch, de) ==
  /\ \A i \in DOMAIN de : de[i].status # "PENDING" => i > 1 /\ Precedes(de[i - 1], de[i])
  /\ \A i \in Passed(de) : \E j \in DOMAIN tr : Backs(tr[j], de[i])
  /\ Cardinality(Passed(de)) <= Cardinality(Paid(ch))
  /\ Cardinality(Paid(ch)) <= Len(tr)

\* They have what the rest q of a call counts on.
Prepared(tr, ch, de, q, x) ==
  /\ Len(q) = 1 => de # <<>> /\ Precedes(de[Len(de)], x)
  /\ x.status = "PASSED" /\ Len(q) <= 3 => \E j \in DOMAIN tr : Backs(tr[j], x)
  /\ x.status = "PASSED" /\ Len(q) = 3 => Cardinality(Paid(ch)) < Len(tr)
  /\ x.status = "PASSED" /\ Len(q) <= 2 => Cardinality(Passed(de)) < Cardinality(Paid(ch))
Ready(tr, ch, de, q) ==
  q = <<>> \/ q = Opening \/ \E x \in Decision : Settling(q, x) /\ Prepared(tr, ch, de, q, x)

Backing ==
  \A h \in Histories :
    /\ Supported(trades[h], changes[h], decisions[h])
    /\ Ready(trades[h], changes[h], decisions[h], Owed(h))

LEMMA BackingIs == Backing => DecisionsAreBacked
<1> SUFFICES ASSUME Backing, NEW h \in Histories
             PROVE  LET made == decisions[h]
                        passed == {i \in DOMAIN made : made[i].status = "PASSED"}
                        paid == {i \in DOMAIN changes[h] : changes[h][i].origin = "TRADE"}
                    IN /\ \A i \in DOMAIN made : made[i].status # "PENDING" =>
                            /\ i > 1
                            /\ made[i - 1] = [made[i] EXCEPT !.status = "PENDING", !.amount = made[i - 1].amount]
                       /\ \A i \in passed : \E j \in DOMAIN trades[h] :
                            /\ trades[h][j].decision = made[i].id
                            /\ trades[h][j].ts = made[i].ts
                            /\ trades[h][j].volume = made[i].amount
                       /\ Cardinality(passed) <= Cardinality(paid)
                       /\ Cardinality(paid) <= Len(trades[h])
  BY DEF DecisionsAreBacked
<1>1. Supported(trades[h], changes[h], decisions[h])
  BY DEF Backing
<1> QED BY <1>1 DEF Supported, Precedes, Backs, Passed, Paid

LEMMA CountsAre ==
  ASSUME NEW tr \in Seq(Trade), NEW ch \in Seq(Change), NEW de \in Seq(Decision)
  PROVE  /\ IsFiniteSet(Passed(de)) /\ IsFiniteSet(Paid(ch))
         /\ Cardinality(Passed(de)) \in Nat /\ Cardinality(Paid(ch)) \in Nat /\ Len(tr) \in Nat
<1>1. Len(ch) \in Nat /\ Len(de) \in Nat /\ DOMAIN ch = 1 .. Len(ch) /\ DOMAIN de = 1 .. Len(de)
  OBVIOUS
<1>2. IsFiniteSet(DOMAIN ch) /\ IsFiniteSet(DOMAIN de)
  BY <1>1, FS_Interval
<1>3. Passed(de) \subseteq DOMAIN de /\ Paid(ch) \subseteq DOMAIN ch
  BY DEF Passed, Paid
<1>4. IsFiniteSet(Passed(de)) /\ IsFiniteSet(Paid(ch))
  BY <1>2, <1>3, FS_Subset
<1> QED BY <1>4, FS_CardinalityType

LEMMA PassedGrows ==
  ASSUME NEW de \in Seq(Decision), NEW d \in Decision
  PROVE  Cardinality(Passed(Append(de, d))) =
           IF d.status = "PASSED" THEN Cardinality(Passed(de)) + 1 ELSE Cardinality(Passed(de))
<1>1. PICK a : a = Append(de, d)
  OBVIOUS
<1>2. /\ DOMAIN de = 1 .. Len(de) /\ Len(de) \in Nat /\ a[Len(de) + 1] = d /\ Len(de) + 1 \in DOMAIN a
      /\ \A i \in DOMAIN de : a[i] = de[i] /\ i \in DOMAIN a
      /\ \A i \in DOMAIN a : i \in DOMAIN de \/ i = Len(de) + 1
  BY <1>1, AppendIs
<1>3. Len(de) + 1 \notin Passed(de)
  BY <1>2 DEF Passed
<1>4. IsFiniteSet(Passed(de))
  <2>1. IsFiniteSet(DOMAIN de)
    BY <1>2, FS_Interval
  <2> QED BY <2>1, FS_Subset DEF Passed
<1>5. CASE d.status = "PASSED"
  <2>1. Passed(a) = Passed(de) \union {Len(de) + 1}
    BY <1>2, <1>5 DEF Passed
  <2>2. Cardinality(Passed(de) \union {Len(de) + 1}) = Cardinality(Passed(de)) + 1
    BY <1>3, <1>4, FS_AddElement
  <2> QED BY <1>1, <1>5, <2>1, <2>2
<1>6. CASE d.status # "PASSED"
  <2>1. Passed(a) = Passed(de)
    BY <1>2, <1>6 DEF Passed
  <2> QED BY <1>1, <1>6, <2>1
<1> QED BY <1>5, <1>6

LEMMA PaidGrows ==
  ASSUME NEW ch \in Seq(Change), NEW c \in Change
  PROVE  Cardinality(Paid(Append(ch, c))) =
           IF c.origin = "TRADE" THEN Cardinality(Paid(ch)) + 1 ELSE Cardinality(Paid(ch))
<1>1. PICK a : a = Append(ch, c)
  OBVIOUS
<1>2. /\ DOMAIN ch = 1 .. Len(ch) /\ Len(ch) \in Nat /\ a[Len(ch) + 1] = c /\ Len(ch) + 1 \in DOMAIN a
      /\ \A i \in DOMAIN ch : a[i] = ch[i] /\ i \in DOMAIN a
      /\ \A i \in DOMAIN a : i \in DOMAIN ch \/ i = Len(ch) + 1
  BY <1>1, AppendIs
<1>3. Len(ch) + 1 \notin Paid(ch)
  BY <1>2 DEF Paid
<1>4. IsFiniteSet(Paid(ch))
  <2>1. IsFiniteSet(DOMAIN ch)
    BY <1>2, FS_Interval
  <2> QED BY <2>1, FS_Subset DEF Paid
<1>5. CASE c.origin = "TRADE"
  <2>1. Paid(a) = Paid(ch) \union {Len(ch) + 1}
    BY <1>2, <1>5 DEF Paid
  <2>2. Cardinality(Paid(ch) \union {Len(ch) + 1}) = Cardinality(Paid(ch)) + 1
    BY <1>3, <1>4, FS_AddElement
  <2> QED BY <1>1, <1>5, <2>1, <2>2
<1>6. CASE c.origin # "TRADE"
  <2>1. Paid(a) = Paid(ch)
    BY <1>2, <1>6 DEF Paid
  <2> QED BY <1>1, <1>6, <2>1
<1> QED BY <1>5, <1>6

\* A decision that is fed to a history that has what it counts on.
LEMMA DecisionSupported ==
  ASSUME NEW tr \in Seq(Trade), NEW ch \in Seq(Change), NEW de \in Seq(Decision), NEW d \in Decision,
         Supported(tr, ch, de),
         d.status # "PENDING" => de # <<>> /\ Precedes(de[Len(de)], d),
         d.status = "PASSED" => /\ \E j \in DOMAIN tr : Backs(tr[j], d)
                                /\ Cardinality(Passed(de)) < Cardinality(Paid(ch))
  PROVE  Supported(tr, ch, Append(de, d))
<1>1. PICK a : a = Append(de, d)
  OBVIOUS
<1>2. /\ DOMAIN de = 1 .. Len(de) /\ Len(de) \in Nat /\ a[Len(de) + 1] = d /\ Len(de) + 1 \in DOMAIN a
      /\ \A i \in DOMAIN de : a[i] = de[i] /\ i \in DOMAIN a
      /\ \A i \in DOMAIN a : i \in DOMAIN de \/ i = Len(de) + 1
  BY <1>1, AppendIs
<1>3. \A i \in DOMAIN a : a[i].status # "PENDING" => i > 1 /\ Precedes(a[i - 1], a[i])
  <2> SUFFICES ASSUME NEW i \in DOMAIN a, a[i].status # "PENDING"
               PROVE  i > 1 /\ Precedes(a[i - 1], a[i])
    OBVIOUS
  <2>1. CASE i \in DOMAIN de
    <3>1. i > 1 /\ Precedes(de[i - 1], de[i])
      BY <1>2, <2>1 DEF Supported
    <3>2. i - 1 \in DOMAIN de
      BY <1>2, <2>1, <3>1
    <3> QED BY <1>2, <2>1, <3>1, <3>2
  <2>2. CASE i = Len(de) + 1
    <3>1. de # <<>> /\ Precedes(de[Len(de)], d)
      BY <1>2, <2>2
    <3>2. Len(de) # 0
      BY <3>1
    <3>3. i > 1 /\ i - 1 = Len(de) /\ Len(de) \in DOMAIN de
      BY <1>2, <2>2, <3>2
    <3> QED BY <1>2, <2>2, <3>1, <3>3
  <2> QED BY <1>2, <2>1, <2>2
<1>4. \A i \in Passed(a) : \E j \in DOMAIN tr : Backs(tr[j], a[i])
  <2> SUFFICES ASSUME NEW i \in DOMAIN a, a[i].status = "PASSED"
               PROVE  \E j \in DOMAIN tr : Backs(tr[j], a[i])
    BY DEF Passed
  <2>1. CASE i \in DOMAIN de
    <3>1. i \in Passed(de) /\ a[i] = de[i]
      BY <1>2, <2>1 DEF Passed
    <3> QED BY <3>1 DEF Supported
  <2>2. CASE i = Len(de) + 1
    BY <1>2, <2>2
  <2> QED BY <1>2, <2>1, <2>2
<1>5. Cardinality(Passed(a)) <= Cardinality(Paid(ch))
  <2>1. Cardinality(Passed(de)) <= Cardinality(Paid(ch))
    BY DEF Supported
  <2> QED BY <1>1, <2>1, PassedGrows, CountsAre
<1>6. Cardinality(Paid(ch)) <= Len(tr)
  BY DEF Supported
<1> QED BY <1>1, <1>3, <1>4, <1>5, <1>6 DEF Supported

\* A turn of feed(), in one history.
LEMMA TurnBacked ==
  ASSUME NEW tr \in Seq(Trade), NEW ch \in Seq(Change), NEW de \in Seq(Decision),
         NEW q \in Seq(Items), q # <<>>, Supported(tr, ch, de), Ready(tr, ch, de, q),
         NEW tr2, tr2 = IF Head(q).kind = "trade" THEN Append(tr, Head(q).record) ELSE tr,
         NEW ch2, ch2 = IF Head(q).kind = "change" THEN Append(ch, Head(q).record) ELSE ch,
         NEW de2, de2 = IF Head(q).kind = "decision" THEN Append(de, Head(q).record) ELSE de
  PROVE  Supported(tr2, ch2, de2) /\ Ready(tr2, ch2, de2, Tail(q))
<1>1. PICK r : r = Head(q).record
  OBVIOUS
<1>2. Head(q) = q[1] /\ ItemOK(Head(q))
  BY HeadChange, TailIs DEF Items
<1>3. /\ q[1].kind = "trade" => r \in Trade
      /\ q[1].kind = "change" => r \in Change
      /\ q[1].kind = "decision" => r \in Decision
  BY <1>1, <1>2 DEF ItemOK
<1>4. /\ Cardinality(Passed(de)) \in Nat /\ Cardinality(Paid(ch)) \in Nat /\ Len(tr) \in Nat
      /\ Cardinality(Passed(de)) <= Cardinality(Paid(ch)) /\ Cardinality(Paid(ch)) <= Len(tr)
  BY CountsAre DEF Supported
<1>5. CASE q = Opening
  <2>1. q[1].kind = "change" /\ r.origin # "TRADE" /\ Tail(q) = <<>>
    BY <1>1, <1>2, <1>5, OpeningIs
  <2>2. tr2 = tr /\ de2 = de /\ ch2 = Append(ch, r)
    BY <1>1, <1>2, <2>1
  <2>3. Cardinality(Paid(ch2)) = Cardinality(Paid(ch))
    BY <1>3, <2>1, <2>2, PaidGrows
  <2> QED BY <2>1, <2>2, <2>3 DEF Supported, Ready
<1>6. ASSUME NEW x \in Decision, Settling(q, x), Prepared(tr, ch, de, q, x)
      PROVE  Supported(tr2, ch2, de2) /\ Ready(tr2, ch2, de2, Tail(q))
  <2>1. Len(q) \in 1 .. 4 /\ x.status \in {"PASSED", "CANCELLED"}
    BY <1>6 DEF Settling
  <2>2. PICK p : p = Tail(q)
    OBVIOUS
  <2>3. Len(p) = Len(q) - 1 /\ (Len(q) > 1 => Settling(p, x)) /\ (Len(q) = 1 => p = <<>>)
    BY <1>6, <2>2, SettlingGoesOn, TailIs
  <2>4. CASE Len(q) = 4
    <3>1. q[1].kind = "trade" /\ Backs(r, x) /\ x.status = "PASSED"
      BY <1>1, <1>2, <1>6, <2>4 DEF Settling
    <3>2. tr2 = Append(tr, r) /\ ch2 = ch /\ de2 = de
      BY <1>1, <1>2, <3>1
    <3>3. /\ Len(tr2) = Len(tr) + 1 /\ tr2[Len(tr) + 1] = r /\ Len(tr) + 1 \in DOMAIN tr2
          /\ \A i \in DOMAIN tr : tr2[i] = tr[i] /\ i \in DOMAIN tr2
      BY <1>3, <3>1, <3>2, AppendIs
    <3>4. \A i \in Passed(de) : \E j \in DOMAIN tr2 : Backs(tr2[j], de[i])
      <4> TAKE i \in Passed(de)
      <4>1. PICK j \in DOMAIN tr : Backs(tr[j], de[i])
        BY DEF Supported
      <4> QED BY <3>3, <4>1
    <3>5. Supported(tr2, ch2, de2)
      <4>1. Cardinality(Paid(ch)) <= Len(tr2)
        BY <1>4, <3>3
      <4> QED BY <1>4, <3>2, <3>4, <4>1 DEF Supported
    <3>6. Prepared(tr2, ch2, de2, p, x)
      <4>1. \E j \in DOMAIN tr2 : Backs(tr2[j], x)
        BY <3>1, <3>3
      <4>2. Cardinality(Paid(ch)) < Len(tr2)
        BY <1>4, <3>3
      <4>3. Len(p) = 3
        BY <2>3, <2>4
      <4> QED BY <3>2, <4>1, <4>2, <4>3 DEF Prepared
    <3> QED BY <2>2, <2>3, <2>4, <3>5, <3>6 DEF Ready
  <2>5. CASE Len(q) = 3
    <3>1. q[1].kind = "change" /\ r.origin = "TRADE" /\ x.status = "PASSED"
      BY <1>1, <1>2, <1>6, <2>5 DEF Settling
    <3>2. tr2 = tr /\ ch2 = Append(ch, r) /\ de2 = de
      BY <1>1, <1>2, <3>1
    <3>3. Cardinality(Paid(ch2)) = Cardinality(Paid(ch)) + 1
      BY <1>3, <3>1, <3>2, PaidGrows
    <3>4. Cardinality(Paid(ch)) < Len(tr) /\ \E j \in DOMAIN tr : Backs(tr[j], x)
      BY <1>6, <2>5, <3>1 DEF Prepared
    <3>5. Supported(tr2, ch2, de2)
      <4>1. Cardinality(Passed(de)) <= Cardinality(Paid(ch2)) /\ Cardinality(Paid(ch2)) <= Len(tr)
        BY <1>4, <3>3, <3>4
      <4> QED BY <3>2, <4>1 DEF Supported
    <3>6. Cardinality(Passed(de)) < Cardinality(Paid(ch2))
      BY <1>4, <3>3
    <3>7. Prepared(tr2, ch2, de2, p, x)
      BY <2>3, <2>5, <3>2, <3>4, <3>6 DEF Prepared
    <3> QED BY <2>2, <2>3, <2>5, <3>5, <3>7 DEF Ready
  <2>6. CASE Len(q) = 2
    <3>1. q[1].kind = "decision" /\ Precedes(r, x)
      BY <1>1, <1>2, <1>6, <2>6 DEF Settling
    <3>2. r \in Decision /\ r.status = "PENDING"
      <4>1. r \in Decision
        BY <1>3, <3>1
      <4>2. PICK y : y = [x EXCEPT !.status = "PENDING", !.amount = r.amount]
        OBVIOUS
      <4>3. y.status = "PENDING"
        BY <4>2 DEF Decision
      <4> QED BY <3>1, <4>1, <4>2, <4>3 DEF Precedes
    <3>3. tr2 = tr /\ ch2 = ch /\ de2 = Append(de, r)
      BY <1>1, <1>2, <3>1
    <3>4. Supported(tr2, ch2, de2)
      BY <3>2, <3>3, DecisionSupported
    <3>5. de2 # <<>> /\ de2[Len(de2)] = r
      BY <3>2, <3>3, AppendIs
    <3>6. Cardinality(Passed(de2)) = Cardinality(Passed(de))
      BY <3>2, <3>3, PassedGrows
    <3>7. Prepared(tr2, ch2, de2, p, x)
      BY <1>6, <2>3, <2>6, <3>1, <3>3, <3>5, <3>6 DEF Prepared
    <3> QED BY <2>2, <2>3, <2>6, <3>4, <3>7 DEF Ready
  <2>7. CASE Len(q) = 1
    <3>1. q[1].kind = "decision" /\ r = x
      BY <1>1, <1>2, <1>6, <2>7 DEF Settling
    <3>2. tr2 = tr /\ ch2 = ch /\ de2 = Append(de, r)
      BY <1>1, <1>2, <3>1
    <3>3. Supported(tr2, ch2, de2)
      BY <1>6, <2>7, <3>1, <3>2, DecisionSupported DEF Prepared
    <3> QED BY <2>2, <2>3, <2>7, <3>3 DEF Ready
  <2> QED BY <2>1, <2>4, <2>5, <2>6, <2>7
<1> QED BY <1>5, <1>6 DEF Ready

LEMMA NothingBacked ==
  Supported(<<>>, <<>>, <<>>) /\ \A tr, ch, de : Ready(tr, ch, de, <<>>)
<1>1. DOMAIN <<>> = {} /\ Len(<<>>) = 0
  OBVIOUS
<1>2. Passed(<<>>) = {} /\ Paid(<<>>) = {}
  BY <1>1 DEF Passed, Paid
<1>3. Cardinality({}) = 0
  BY FS_EmptySet
<1>4. Supported(<<>>, <<>>, <<>>)
  <2>1. PICK e : e = <<>>
    OBVIOUS
  <2>2. DOMAIN e = {} /\ Len(e) = 0 /\ Passed(e) = {} /\ Paid(e) = {}
    BY <1>1, <1>2, <2>1
  <2>3. Supported(e, e, e)
    BY <1>3, <2>2 DEF Supported
  <2> QED BY <2>1, <2>3
<1>5. \A tr, ch, de : Ready(tr, ch, de, <<>>)
  BY DEF Ready
<1> QED BY <1>4, <1>5

LEMMA InitBacking == Init => Backing
<1> SUFFICES ASSUME Init, NEW h \in Histories
             PROVE  /\ Supported(trades[h], changes[h], decisions[h])
                    /\ Ready(trades[h], changes[h], decisions[h], Owed(h))
  BY DEF Backing
<1>1. trades[h] = <<>> /\ changes[h] = <<>> /\ decisions[h] = <<>>
  BY DEF Init, Nothing
<1>2. Owed(h) = <<>>
  <2>1. queue = <<>> /\ to = First /\ ~ (h < First)
    BY FirstIs, HistoriesAssumption DEF Init
  <2> QED BY <2>1 DEF Owed
<1> QED BY <1>1, <1>2, NothingBacked

LEMMA StartBacking == Core /\ Backing /\ Start => Backing'
<1> SUFFICES ASSUME Core, Backing, Start, NEW h \in Histories
             PROVE  /\ Supported(trades[h], changes[h], decisions[h])'
                    /\ Ready(trades[h], changes[h], decisions[h], Owed(h))'
  BY DEF Backing
<1>1. /\ ~ up /\ queue' = Opening /\ to' = to
      /\ trades' = trades /\ changes' = changes /\ decisions' = decisions
  BY DEF Start, logs
<1>2. to = First /\ ~ (h < First)
  BY <1>1, FirstIs, HistoriesAssumption DEF Core, Typed, Calling
<1>3. Owed(h)' = Opening
  BY <1>1, <1>2 DEF Owed
<1>4. Supported(trades[h], changes[h], decisions[h])
  BY DEF Backing
<1>5. \A tr, ch, de : Ready(tr, ch, de, Opening)
  BY DEF Ready
<1> QED BY <1>1, <1>3, <1>4, <1>5

LEMMA ExecuteBacking ==
  ASSUME Core, Backing, NEW t \in now .. MaxTime, NEW type \in Kinds,
         NEW price \in Prices \union {NaN}, NEW amount \in Amounts \union {NaN},
         Execute(t, type, price, amount)
  PROVE  Backing'
<1> SUFFICES ASSUME NEW h \in Histories
             PROVE  /\ Supported(trades[h], changes[h], decisions[h])'
                    /\ Ready(trades[h], changes[h], decisions[h], Owed(h))'
  BY DEF Backing
<1>1. trades' = trades /\ changes' = changes /\ decisions' = decisions
  BY DEF Execute, logs
<1>2. Owed(h)' = queue'
  BY ExecuteCore
<1>3. PICK d \in Decision :
        /\ d.status = "PENDING" /\ d.amount \in Amounts \union {NaN} /\ d.ts = t
        /\ BalanceAt(d.ts) \in Money /\ queue' = Effects(d)
  BY ExecuteCore
<1>4. PICK q : q = queue'
  OBVIOUS
<1>5. PICK x \in Decision : Settling(q, x) /\ (Len(q) = 4 \/ (Len(q) = 2 /\ x.status = "CANCELLED"))
  BY <1>3, <1>4, EffectsAre
<1>6. \A tr, ch, de : Prepared(tr, ch, de, q, x)
  <2>1. ASSUME Len(q) = 4 PROVE Len(q) # 1 /\ Len(q) # 3 /\ ~ (Len(q) <= 3) /\ ~ (Len(q) <= 2)
    BY <2>1
  <2>2. ASSUME Len(q) = 2 PROVE Len(q) # 1
    BY <2>2
  <2>3. ASSUME x.status = "CANCELLED" PROVE x.status # "PASSED"
    BY <2>3
  <2>4. CASE Len(q) = 4
    BY <2>1, <2>4 DEF Prepared
  <2>5. CASE Len(q) = 2 /\ x.status = "CANCELLED"
    BY <2>2, <2>3, <2>5 DEF Prepared
  <2> QED BY <1>5, <2>4, <2>5
<1>7. \A tr, ch, de : Ready(tr, ch, de, q)
  BY <1>5, <1>6 DEF Ready
<1>8. Supported(trades[h], changes[h], decisions[h])
  BY DEF Backing
<1> QED BY <1>1, <1>2, <1>4, <1>7, <1>8

LEMMA FeedBacking == Core /\ Backing /\ FeedOne => Backing'
<1> SUFFICES ASSUME Core, Backing, FeedOne, NEW h \in Histories
             PROVE  /\ Supported(trades[h], changes[h], decisions[h])'
                    /\ Ready(trades[h], changes[h], decisions[h], Owed(h))'
  BY DEF Backing
<1>1. Typed /\ to \in Histories
  BY DEF Core, Typed, TypeOK
<1>2. /\ Supported(trades[h], changes[h], decisions[h])
      /\ Ready(trades[h], changes[h], decisions[h], Owed(h))
  BY DEF Backing
<1>3. CASE h # to
  <2>1. PICK o : o = Owed(h)
    OBVIOUS
  <2>2. Owed(h)' = o
    BY <1>1, <1>3, <2>1, TurnIs
  <2>3. trades'[h] = trades[h] /\ changes'[h] = changes[h] /\ decisions'[h] = decisions[h]
    BY <1>1, <1>3, FeedIs
  <2> QED BY <1>2, <2>1, <2>2, <2>3
<1>4. CASE h = to
  <2>1. PICK q \in Seq(Items) : q = queue /\ q # <<>>
    BY <1>1, FeedIs
  <2>2. Owed(h) = q /\ Owed(h)' = Tail(q)
    BY <1>1, <1>4, <2>1, TurnIs
  <2>3. /\ trades'[h] = IF Head(q).kind = "trade" THEN Append(trades[h], Head(q).record) ELSE trades[h]
        /\ changes'[h] = IF Head(q).kind = "change" THEN Append(changes[h], Head(q).record) ELSE changes[h]
        /\ decisions'[h] =
             IF Head(q).kind = "decision" THEN Append(decisions[h], Head(q).record) ELSE decisions[h]
    BY <1>1, <1>4, <2>1, FeedIs
  <2>4. trades[h] \in Seq(Trade) /\ changes[h] \in Seq(Change) /\ decisions[h] \in Seq(Decision)
    BY <1>1 DEF Typed, TypeOK
  <2>5. Supported(trades[h], changes[h], decisions[h]) /\ Ready(trades[h], changes[h], decisions[h], q)
    BY <1>2, <2>2
  <2>6. PICK tr \in Seq(Trade), ch \in Seq(Change), de \in Seq(Decision) :
          tr = trades[h] /\ ch = changes[h] /\ de = decisions[h]
    BY <2>4
  <2>7. PICK tr2, ch2, de2 : tr2 = trades'[h] /\ ch2 = changes'[h] /\ de2 = decisions'[h]
    OBVIOUS
  <2>8. /\ tr2 = IF Head(q).kind = "trade" THEN Append(tr, Head(q).record) ELSE tr
        /\ ch2 = IF Head(q).kind = "change" THEN Append(ch, Head(q).record) ELSE ch
        /\ de2 = IF Head(q).kind = "decision" THEN Append(de, Head(q).record) ELSE de
    BY <2>3, <2>6, <2>7
  <2>9. Supported(tr, ch, de) /\ Ready(tr, ch, de, q) /\ q # <<>>
    BY <2>1, <2>5, <2>6
  <2>10. Supported(tr2, ch2, de2) /\ Ready(tr2, ch2, de2, Tail(q))
    BY <2>8, <2>9, TurnBacked
  <2> QED BY <2>2, <2>7, <2>10
<1> QED BY <1>3, <1>4

LEMMA CrashBacking == Core /\ Backing /\ Crash => Backing'
<1> SUFFICES ASSUME Core, Backing, Crash, NEW h \in Histories
             PROVE  /\ Supported(trades[h], changes[h], decisions[h])'
                    /\ Ready(trades[h], changes[h], decisions[h], Owed(h))'
  BY DEF Backing
<1>1. /\ queue' = <<>> /\ to' = First
      /\ trades' = Surviving(trades) /\ changes' = Surviving(changes) /\ decisions' = Surviving(decisions)
  BY DEF Crash
<1>2. TypeOK
  BY DEF Core, Typed
<1>3. Owed(h)' = <<>>
  <2>1. ~ (h < First)
    BY FirstIs, HistoriesAssumption
  <2> QED BY <1>1, <2>1 DEF Owed
<1>4. CASE h \in Memory
  <2>1. trades'[h] = <<>> /\ changes'[h] = <<>> /\ decisions'[h] = <<>>
    BY <1>1, <1>2, <1>4, SurvivingIs DEF TypeOK
  <2> QED BY <1>3, <2>1, NothingBacked
<1>5. CASE h \notin Memory
  <2>1. trades'[h] = trades[h] /\ changes'[h] = changes[h] /\ decisions'[h] = decisions[h]
    BY <1>1, <1>2, <1>5, SurvivingIs DEF TypeOK
  <2>2. Supported(trades[h], changes[h], decisions[h])
    BY DEF Backing
  <2> QED BY <1>3, <2>1, <2>2, NothingBacked
<1> QED BY <1>4, <1>5

LEMMA StepBacking == Core /\ Backing /\ [Next]_vars => Backing'
<1> SUFFICES ASSUME Core, Backing, [Next]_vars PROVE Backing'
  OBVIOUS
<1>1. ASSUME NEW t \in now .. MaxTime, DecideAndExecute(t)
      PROVE  Backing'
  <2>1. PICK type \in Kinds, price \in Prices \union {NaN}, amount \in Amounts \union {NaN} :
          Execute(t, type, price, amount)
    BY <1>1 DEF DecideAndExecute, Kinds
  <2> QED BY <2>1, ExecuteBacking
<1>2. CASE Finished \/ UNCHANGED vars
  BY <1>2 DEF Finished, vars, Backing, Owed
<1> QED BY <1>1, <1>2, StartBacking, FeedBacking, CrashBacking DEF Next

(* Wherever the program died, a settled decision is in a history right after  *)
(* the decision as it was made, a passed one with its trade, and there are    *)
(* never more passed decisions than changes, nor more changes than trades     *)
(* (DecisionsAreBacked).                                                      *)
THEOREM DecisionsStayBacked == Spec => []DecisionsAreBacked
<1>1. Spec => []Backing
  BY InitBacking, StepBacking, CoreHolds, PTL DEF Spec
<1> QED BY <1>1, BackingIs, PTL

-----------------------------------------------------------------------------
(* The later histories.                                                      *)

LEMMA LeavesOutMore ==
  ASSUME NEW S, NEW s \in Seq(S), NEW t \in Seq(S), NEW r \in S, LeavesOut(s, t)
  PROVE  LeavesOut(s, Append(t, r)) /\ LeavesOut(Append(s, r), Append(t, r))
<1>1. PICK f \in [DOMAIN s -> DOMAIN t] :
        /\ \A i \in DOMAIN s : s[i] = t[f[i]]
        /\ \A i, j \in DOMAIN s : i < j => f[i] < f[j]
  BY DEF LeavesOut
<1>2. PICK a, b : a = Append(s, r) /\ b = Append(t, r)
  OBVIOUS
<1>3. /\ DOMAIN s = 1 .. Len(s) /\ Len(s) \in Nat /\ a[Len(s) + 1] = r
      /\ DOMAIN a = 1 .. (Len(s) + 1)
      /\ \A i \in DOMAIN s : a[i] = s[i] /\ i \in DOMAIN a
      /\ \A i \in DOMAIN a : i \in DOMAIN s \/ i = Len(s) + 1
  BY <1>2, AppendIs
<1>4. /\ DOMAIN t = 1 .. Len(t) /\ Len(t) \in Nat /\ b[Len(t) + 1] = r
      /\ DOMAIN b = 1 .. (Len(t) + 1)
      /\ \A i \in DOMAIN t : b[i] = t[i] /\ i \in DOMAIN b
  BY <1>2, AppendIs
<1>5. \A i \in DOMAIN s : f[i] \in DOMAIN t
  OBVIOUS
<1>6. f \in [DOMAIN s -> DOMAIN b] /\ \A i \in DOMAIN s : s[i] = b[f[i]]
  BY <1>1, <1>4, <1>5
<1>7. LeavesOut(s, b)
  BY <1>1, <1>6 DEF LeavesOut
<1>8. PICK e : e = [i \in DOMAIN a |-> IF i \in DOMAIN s THEN f[i] ELSE Len(t) + 1]
  OBVIOUS
<1>9. /\ \A i \in DOMAIN s : e[i] = f[i]
      /\ e[Len(s) + 1] = Len(t) + 1
  BY <1>3, <1>8
<1>10. e \in [DOMAIN a -> DOMAIN b]
  <2>1. Len(t) + 1 \in DOMAIN b
    BY <1>4
  <2>2. \A i \in DOMAIN a : (IF i \in DOMAIN s THEN f[i] ELSE Len(t) + 1) \in DOMAIN b
    BY <1>4, <1>5, <2>1
  <2> QED BY <1>8, <2>2
<1>11. \A i \in DOMAIN a : a[i] = b[e[i]]
  BY <1>1, <1>3, <1>4, <1>5, <1>9
<1>12. \A i, j \in DOMAIN a : i < j => e[i] < e[j]
  <2> SUFFICES ASSUME NEW i \in DOMAIN a, NEW j \in DOMAIN a, i < j
               PROVE  e[i] < e[j]
    OBVIOUS
  <2>1. i \in DOMAIN s
    BY <1>3
  <2>2. CASE j \in DOMAIN s
    BY <1>1, <1>9, <2>1, <2>2
  <2>3. CASE j = Len(s) + 1
    BY <1>4, <1>5, <1>9, <2>1, <2>3
  <2> QED BY <1>3, <2>2, <2>3
<1>13. LeavesOut(a, b)
  BY <1>10, <1>11, <1>12 DEF LeavesOut
<1> QED BY <1>2, <1>7, <1>13

\* The log t of a database, and the log s of a later one that has still to be
\* fed x when the first is ahead.
Lags(S, s, t, kind, x, ahead) ==
  IF ahead /\ x.kind = kind
  THEN \E u \in Seq(S) : t = Append(u, x.record) /\ LeavesOut(s, u)
  ELSE LeavesOut(s, t)

LeftOut ==
  \A g, h \in Histories \ Memory : g < h =>
    /\ Lags(Trade, trades[h], trades[g], "trade", Head(queue), g < to /\ to <= h)
    /\ Lags(Change, changes[h], changes[g], "change", Head(queue), g < to /\ to <= h)

LEMMA LagsBehind ==
  ASSUME NEW S, NEW s \in Seq(S), NEW t \in Seq(S), NEW kind, NEW x,
         x.kind = kind => x.record \in S, NEW ahead, Lags(S, s, t, kind, x, ahead)
  PROVE  LeavesOut(s, t)
<1>1. CASE ahead /\ x.kind = kind
  <2>1. PICK u \in Seq(S) : t = Append(u, x.record) /\ LeavesOut(s, u)
    BY <1>1 DEF Lags
  <2> QED BY <1>1, <2>1, LeavesOutMore
<1>2. CASE ~ (ahead /\ x.kind = kind)
  BY <1>2 DEF Lags
<1> QED BY <1>1, <1>2

LEMMA LagsAhead ==
  ASSUME NEW S, NEW s, NEW t \in Seq(S), NEW kind, NEW x, LeavesOut(s, t),
         NEW t2, t2 = IF x.kind = kind THEN Append(t, x.record) ELSE t
  PROVE  Lags(S, s, t2, kind, x, TRUE)
  BY DEF Lags

LEMMA LagsLevel ==
  ASSUME NEW S, NEW s, NEW t, NEW kind, NEW x
  PROVE  Lags(S, s, t, kind, x, FALSE) <=> LeavesOut(s, t)
  BY DEF Lags

\* Where the loop of feed() is, for two of the histories.
LEMMA TurnOrder ==
  ASSUME TypeOK, FeedOne, NEW g \in Histories, NEW h \in Histories, g < h
  PROVE  /\ to = g => ~ (g < to /\ to <= h) /\ g < to' /\ to' <= h /\ queue' = queue
         /\ to = h => g < to /\ to <= h /\ ~ (g < to' /\ to' <= h)
         /\ to # g /\ to # h => /\ (g < to /\ to <= h) = (g < to' /\ to' <= h)
                                /\ g < to /\ to <= h => queue' = queue
<1>1. to \in Nat /\ g \in Nat /\ h \in Nat /\ to \in Histories
  BY HistoriesAssumption DEF TypeOK
<1>2. CASE IsLast(to)
  <2>1. to' = First /\ First <= g /\ First \in Nat
    BY <1>2, FirstIs, HistoriesAssumption DEF FeedOne
  <2>2. h <= to
    BY <1>2 DEF IsLast
  <2>3. ~ (g < to' /\ to' <= h)
    BY <1>1, <2>1
  <2>4. to # g
    BY <1>1, <2>2
  <2>5. to # h => ~ (g < to /\ to <= h)
    BY <1>1, <2>2
  <2>6. to = h => g < to /\ to <= h
    BY <1>1
  <2> QED BY <2>3, <2>4, <2>5, <2>6
<1>3. CASE ~ IsLast(to)
  <2>1. queue' = queue /\ to' = Following(to)
    BY <1>3 DEF FeedOne
  <2>2. PICK f \in Histories : f = Following(to) /\ f > to /\ \A k \in Histories : k > to => f <= k
    BY <1>1, <1>3, FollowingIs
  <2>3. f \in Nat /\ (g > to => f <= g) /\ (h > to => f <= h)
    BY <1>1, <2>2, HistoriesAssumption
  <2>4. /\ to = g => ~ (g < to /\ to <= h) /\ g < f /\ f <= h
        /\ to = h => g < to /\ to <= h /\ ~ (g < f /\ f <= h)
    BY <1>1, <2>2, <2>3
  <2>5. to # g /\ to # h => ((g < to /\ to <= h) <=> (g < f /\ f <= h))
    BY <1>1, <2>2, <2>3
  <2> QED BY <2>1, <2>2, <2>4, <2>5
<1> QED BY <1>2, <1>3

\* A turn of feed(), for one kind of log of two databases.
LEMMA TurnLeavesOut ==
  ASSUME NEW S, NEW s \in Seq(S), NEW t \in Seq(S), NEW kind,
         NEW x, x.kind = kind => x.record \in S, NEW y,
         NEW ahead \in BOOLEAN, NEW ahead2 \in BOOLEAN, Lags(S, s, t, kind, x, ahead),
         NEW s2, NEW t2,
         \/ /\ ~ ahead /\ ahead2 /\ y = x /\ s2 = s
            /\ t2 = IF x.kind = kind THEN Append(t, x.record) ELSE t
         \/ /\ ahead /\ ~ ahead2 /\ t2 = t
            /\ s2 = IF x.kind = kind THEN Append(s, x.record) ELSE s
         \/ ahead2 = ahead /\ (ahead => y = x) /\ s2 = s /\ t2 = t
  PROVE  Lags(S, s2, t2, kind, y, ahead2)
<1>1. CASE ~ ahead /\ ahead2 /\ y = x /\ s2 = s /\ t2 = IF x.kind = kind THEN Append(t, x.record) ELSE t
  <2>1. ahead = FALSE /\ ahead2 = TRUE
    BY <1>1
  <2>2. LeavesOut(s, t)
    BY <2>1, LagsLevel
  <2>3. Lags(S, s, t2, kind, x, TRUE)
    BY <1>1, <2>2, LagsAhead
  <2> QED BY <1>1, <2>1, <2>3
<1>2. CASE ahead /\ ~ ahead2 /\ t2 = t /\ s2 = IF x.kind = kind THEN Append(s, x.record) ELSE s
  <2>1. ahead = TRUE /\ ahead2 = FALSE
    BY <1>2
  <2>2. LeavesOut(s2, t)
    <3>1. Lags(S, s, t, kind, x, TRUE)
      BY <2>1
    <3>2. CASE x.kind = kind
      <4>1. PICK u \in Seq(S) : t = Append(u, x.record) /\ LeavesOut(s, u)
        BY <3>1, <3>2 DEF Lags
      <4> QED BY <1>2, <3>2, <4>1, LeavesOutMore
    <3>3. CASE x.kind # kind
      BY <1>2, <3>1, <3>3 DEF Lags
    <3> QED BY <3>2, <3>3
  <2>3. Lags(S, s2, t, kind, y, FALSE)
    BY <2>2, LagsLevel
  <2> QED BY <1>2, <2>1, <2>3
<1>3. CASE ahead2 = ahead /\ (ahead => y = x) /\ s2 = s /\ t2 = t
  <2>1. CASE ahead
    BY <1>3, <2>1
  <2>2. CASE ~ ahead
    <3>1. ahead = FALSE /\ ahead2 = FALSE
      BY <1>3, <2>2
    <3> QED BY <1>3, <3>1, LagsLevel
  <2> QED BY <2>1, <2>2
<1> QED BY <1>1, <1>2, <1>3

LEMMA FeedLeftOut == Core /\ LeftOut /\ FeedOne => LeftOut'
<1> SUFFICES ASSUME Core, LeftOut, FeedOne,
                    NEW g \in Histories \ Memory, NEW h \in Histories \ Memory, g < h
             PROVE  /\ Lags(Trade, trades[h], trades[g], "trade", Head(queue), g < to /\ to <= h)'
                    /\ Lags(Change, changes[h], changes[g], "change", Head(queue), g < to /\ to <= h)'
  BY DEF LeftOut
<1>1. Typed /\ TypeOK /\ g # h
  <2>1. g \in Nat /\ h \in Nat
    BY HistoriesAssumption
  <2> QED BY <2>1 DEF Core, Typed
<1>2. PICK x, y : x = Head(queue) /\ y = Head(queue')
  OBVIOUS
<1>3. PICK ahead \in BOOLEAN : ahead = (g < to /\ to <= h)
  OBVIOUS
<1>4. PICK ahead2 \in BOOLEAN : ahead2 = (g < to' /\ to' <= h)
  OBVIOUS
<1>5. /\ to = g => ~ ahead /\ ahead2 /\ y = x
      /\ to = h => ahead /\ ~ ahead2
      /\ to # g /\ to # h => ahead2 = ahead /\ (ahead => y = x)
  BY <1>1, <1>2, <1>3, <1>4, TurnOrder
<1>6. x.kind = "trade" => x.record \in Trade
  BY <1>1, <1>2, FeedIs, HeadChange DEF ItemOK
<1>7. x.kind = "change" => x.record \in Change
  BY <1>1, <1>2, FeedIs, HeadChange DEF ItemOK
<1>8. Lags(Trade, trades[h], trades[g], "trade", x, ahead)
  BY <1>2, <1>3 DEF LeftOut
<1>9. Lags(Change, changes[h], changes[g], "change", x, ahead)
  BY <1>2, <1>3 DEF LeftOut
<1>10. /\ trades[g] \in Seq(Trade) /\ trades[h] \in Seq(Trade)
       /\ changes[g] \in Seq(Change) /\ changes[h] \in Seq(Change)
  BY <1>1 DEF TypeOK
<1>11. /\ to # g => trades'[g] = trades[g] /\ changes'[g] = changes[g]
       /\ to # h => trades'[h] = trades[h] /\ changes'[h] = changes[h]
       /\ to = g => /\ trades'[g] = IF x.kind = "trade" THEN Append(trades[g], x.record) ELSE trades[g]
                    /\ changes'[g] = IF x.kind = "change" THEN Append(changes[g], x.record) ELSE changes[g]
       /\ to = h => /\ trades'[h] = IF x.kind = "trade" THEN Append(trades[h], x.record) ELSE trades[h]
                    /\ changes'[h] = IF x.kind = "change" THEN Append(changes[h], x.record) ELSE changes[h]
  BY <1>1, <1>2, FeedIs
<1>12. Lags(Trade, trades'[h], trades'[g], "trade", y, ahead2)
  <2>1. PICK s, t, s2, t2 : s = trades[h] /\ t = trades[g] /\ s2 = trades'[h] /\ t2 = trades'[g]
    OBVIOUS
  <2>2. s \in Seq(Trade) /\ t \in Seq(Trade) /\ Lags(Trade, s, t, "trade", x, ahead)
    BY <1>8, <1>10, <2>1
  <2>3. \/ /\ ~ ahead /\ ahead2 /\ y = x /\ s2 = s
           /\ t2 = IF x.kind = "trade" THEN Append(t, x.record) ELSE t
        \/ /\ ahead /\ ~ ahead2 /\ t2 = t
           /\ s2 = IF x.kind = "trade" THEN Append(s, x.record) ELSE s
        \/ ahead2 = ahead /\ (ahead => y = x) /\ s2 = s /\ t2 = t
    <3>1. CASE to = g
      BY <1>1, <1>5, <1>11, <2>1, <3>1
    <3>2. CASE to = h
      BY <1>1, <1>5, <1>11, <2>1, <3>2
    <3>3. CASE to # g /\ to # h
      BY <1>5, <1>11, <2>1, <3>3
    <3> QED BY <3>1, <3>2, <3>3
  <2>4. Lags(Trade, s2, t2, "trade", y, ahead2)
    BY <1>6, <2>2, <2>3, TurnLeavesOut
  <2> QED BY <2>1, <2>4
<1>13. Lags(Change, changes'[h], changes'[g], "change", y, ahead2)
  <2>1. PICK s, t, s2, t2 : s = changes[h] /\ t = changes[g] /\ s2 = changes'[h] /\ t2 = changes'[g]
    OBVIOUS
  <2>2. s \in Seq(Change) /\ t \in Seq(Change) /\ Lags(Change, s, t, "change", x, ahead)
    BY <1>9, <1>10, <2>1
  <2>3. \/ /\ ~ ahead /\ ahead2 /\ y = x /\ s2 = s
           /\ t2 = IF x.kind = "change" THEN Append(t, x.record) ELSE t
        \/ /\ ahead /\ ~ ahead2 /\ t2 = t
           /\ s2 = IF x.kind = "change" THEN Append(s, x.record) ELSE s
        \/ ahead2 = ahead /\ (ahead => y = x) /\ s2 = s /\ t2 = t
    <3>1. CASE to = g
      BY <1>1, <1>5, <1>11, <2>1, <3>1
    <3>2. CASE to = h
      BY <1>1, <1>5, <1>11, <2>1, <3>2
    <3>3. CASE to # g /\ to # h
      BY <1>5, <1>11, <2>1, <3>3
    <3> QED BY <3>1, <3>2, <3>3
  <2>4. Lags(Change, s2, t2, "change", y, ahead2)
    BY <1>7, <2>2, <2>3, TurnLeavesOut
  <2> QED BY <2>1, <2>4
<1> QED BY <1>2, <1>4, <1>12, <1>13

\* A history that is ahead is ahead by the head of the queue only.
LEMMA LeftOutIs ==
  ASSUME Core, LeftOut
  PROVE  LaterHistoriesLeaveOut
<1> SUFFICES ASSUME NEW g \in Histories \ Memory, NEW h \in Histories \ Memory, g < h
             PROVE  LeavesOut(trades[h], trades[g]) /\ LeavesOut(changes[h], changes[g])
  BY DEF LaterHistoriesLeaveOut
<1>1. PICK x : x = Head(queue)
  OBVIOUS
<1>2. PICK ahead \in BOOLEAN : ahead = (g < to /\ to <= h)
  OBVIOUS
<1>3. ahead => queue # <<>>
  <2>1. First <= g /\ First \in Nat /\ g \in Nat
    BY FirstIs, HistoriesAssumption
  <2>2. ~ (g < First)
    BY <2>1
  <2> QED BY <1>2, <2>2 DEF Core, Typed, Calling
<1>4. ahead => (x.kind = "trade" => x.record \in Trade) /\ (x.kind = "change" => x.record \in Change)
  BY <1>1, <1>3, HeadChange DEF ItemOK, Core, Typed, Calling
<1>5. /\ trades[g] \in Seq(Trade) /\ trades[h] \in Seq(Trade)
      /\ changes[g] \in Seq(Change) /\ changes[h] \in Seq(Change)
  BY DEF Core, Typed, TypeOK
<1>6. /\ Lags(Trade, trades[h], trades[g], "trade", x, ahead)
      /\ Lags(Change, changes[h], changes[g], "change", x, ahead)
  BY <1>1, <1>2 DEF LeftOut
<1>7. CASE ahead
  BY <1>4, <1>5, <1>6, <1>7, LagsBehind
<1>8. CASE ~ ahead
  <2>1. ahead = FALSE
    BY <1>8
  <2> QED BY <1>6, <2>1, LagsLevel
<1> QED BY <1>7, <1>8

\* Between calls, and when the program dies, no history is ahead.
LEMMA RestLeftOut ==
  ASSUME Core, LeftOut, to' = First,
         \A g \in Histories \ Memory : trades'[g] = trades[g] /\ changes'[g] = changes[g]
  PROVE  LeftOut'
<1> SUFFICES ASSUME NEW g \in Histories \ Memory, NEW h \in Histories \ Memory, g < h
             PROVE  /\ Lags(Trade, trades[h], trades[g], "trade", Head(queue), g < to /\ to <= h)'
                    /\ Lags(Change, changes[h], changes[g], "change", Head(queue), g < to /\ to <= h)'
  BY DEF LeftOut
<1>1. PICK y : y = Head(queue')
  OBVIOUS
<1>2. (g < to' /\ to' <= h) = FALSE
  BY FirstIs, HistoriesAssumption
<1>3. LeavesOut(trades[h], trades[g]) /\ LeavesOut(changes[h], changes[g])
  BY LeftOutIs DEF LaterHistoriesLeaveOut
<1>4. /\ Lags(Trade, trades'[h], trades'[g], "trade", y, FALSE)
      /\ Lags(Change, changes'[h], changes'[g], "change", y, FALSE)
  BY <1>3, LagsLevel
<1> QED BY <1>1, <1>2, <1>4

LEMMA InitLeftOut == Init => LeftOut
<1> SUFFICES ASSUME Init, NEW g \in Histories \ Memory, NEW h \in Histories \ Memory, g < h
             PROVE  /\ Lags(Trade, trades[h], trades[g], "trade", Head(queue), g < to /\ to <= h)
                    /\ Lags(Change, changes[h], changes[g], "change", Head(queue), g < to /\ to <= h)
  BY DEF LeftOut
<1>1. /\ trades[g] = <<>> /\ trades[h] = <<>> /\ changes[g] = <<>> /\ changes[h] = <<>> /\ to = First
  BY DEF Init, Nothing
<1>2. (g < to /\ to <= h) = FALSE
  BY <1>1, FirstIs, HistoriesAssumption
<1>3. LeavesOut(<<>>, <<>>)
  <2>1. PICK e : e = <<>>
    OBVIOUS
  <2>2. DOMAIN e = {}
    BY <2>1
  <2>3. PICK f : f = [i \in {} |-> i]
    OBVIOUS
  <2>4. f \in [DOMAIN e -> DOMAIN e]
    BY <2>2, <2>3
  <2> QED BY <2>1, <2>2, <2>4 DEF LeavesOut
<1> QED BY <1>1, <1>2, <1>3, LagsLevel

LEMMA StepLeftOut == Core /\ LeftOut /\ [Next]_vars => LeftOut'
<1> SUFFICES ASSUME Core, LeftOut, [Next]_vars PROVE LeftOut'
  OBVIOUS
<1>1. ASSUME Start PROVE LeftOut'
  <2>1. to' = First /\ trades' = trades /\ changes' = changes
    BY <1>1 DEF Start, logs, Core, Typed, Calling
  <2> QED BY <2>1, RestLeftOut
<1>2. ASSUME NEW t \in now .. MaxTime, DecideAndExecute(t)
      PROVE  LeftOut'
  <2>1. PICK type \in Kinds, price \in Prices \union {NaN}, amount \in Amounts \union {NaN} :
          Execute(t, type, price, amount)
    BY <1>2 DEF DecideAndExecute, Kinds
  <2>2. to' = First /\ trades' = trades /\ changes' = changes
    BY <2>1 DEF Execute, logs, Core, Typed, Calling
  <2> QED BY <2>2, RestLeftOut
<1>3. ASSUME Crash PROVE LeftOut'
  <2>1. to' = First /\ trades' = Surviving(trades) /\ changes' = Surviving(changes)
    BY <1>3 DEF Crash
  <2>2. \A g \in Histories \ Memory : trades'[g] = trades[g] /\ changes'[g] = changes[g]
    BY <2>1 DEF Surviving
  <2> QED BY <2>1, <2>2, RestLeftOut
<1>4. CASE Finished \/ UNCHANGED vars
  BY <1>4 DEF Finished, vars, LeftOut
<1> QED BY <1>1, <1>2, <1>3, <1>4, FeedLeftOut DEF Next

(* Of two databases, the later one has the trades and the changes of the      *)
(* earlier one in the same order, whatever crashes made it miss; the head of  *)
(* the queue is all it may be behind by (LaterHistoriesLeaveOut).             *)
THEOREM LaterOnesLeaveOut == Spec => []LaterHistoriesLeaveOut
<1>1. Spec => [](Core /\ LeftOut)
  BY InitCore, StepCore, InitLeftOut, StepLeftOut, PTL DEF Spec
<1>2. Core /\ LeftOut => LaterHistoriesLeaveOut
  BY LeftOutIs
<1> QED BY <1>1, <1>2, PTL

-----------------------------------------------------------------------------
(* The account.                                                              *)

\* A purchase and a sale that an account allows: one that sells more stock than
\* there is has a price below one.
Bought(b, c) ==
  /\ b.liquidity - c.liquidity \in 0 .. b.liquidity - b.commission
  /\ c.stock > b.stock
  /\ c.commission = b.commission + (b.liquidity - c.liquidity) \div FeeDivisor
Sold(b, c) ==
  /\ c.liquidity - b.liquidity \in 0 .. b.stock * One
  /\ b.stock - c.stock > 0
  /\ b.stock - c.stock > b.stock => c.liquidity - b.liquidity < (b.stock - c.stock) * One
  /\ c.commission = b.commission + (c.liquidity - b.liquidity) \div FeeDivisor

LEMMA Quotient ==
  ASSUME NEW a \in Int, NEW p \in Nat \ {0}
  PROVE  a \div p \in Int /\ (a \div p) * p <= a
<1>1. a \div p \in Int
  BY Products
<1>2. a = (p * (a \div p)) + (a % p) /\ (a % p) \in 0 .. (p - 1)
  OBVIOUS
<1>3. PICK k \in Int : k = a \div p
  BY <1>1
<1>4. a % p \in Nat
  BY <1>2
<1>5. p * k <= a
  BY <1>2, <1>3, <1>4
<1>6. p * k = k * p
  BY <1>3
<1> QED BY <1>3, <1>5, <1>6

\* A sale of the stock's own worth in stock at a price of one sells more than
\* the stock at a price below one only.
LEMMA Oversold ==
  ASSUME NEW s \in Int, NEW one \in Nat \ {0}, NEW v \in Nat \ {0}, NEW p \in Nat \ {0},
         v * p <= s * one, v > s
  PROVE  v * p < v * one
<1>1. CASE p < one
  BY <1>1
<1>2. CASE p >= one
  <2>1. v * one <= v * p
    BY <1>2
  <2>2. v * one <= s * one
    BY <2>1
  <2>3. (s + 1) * one <= v * one
    OBVIOUS
  <2>4. (s + 1) * one = s * one + one
    OBVIOUS
  <2> QED BY <2>2, <2>3, <2>4
<1> QED BY <1>1, <1>2

\* The amount that the broker chooses is covered.
LEMMA Covered ==
  ASSUME NEW d, d.type \in Kinds, d.price \in (Nat \ {0}) \union {NaN}, NEW b \in Money,
         d.amount = NaN, Valid(Amount(d, b), d.price, b)
  PROVE  LET c == Plus(b, Delta(d.type, Amount(d, b), d.price)) IN Bought(b, c) \/ Sold(b, c)
<1>1. PICK price \in Nat \ {0} : price = d.price
  BY DEF Valid
<1>2. Amount(d, b) = AutoAmount(d.type, price, b)
  BY <1>1 DEF Amount, Valid
<1>3. b.liquidity \in Int /\ b.stock \in Int /\ b.commission \in Int
  BY DEF Money
<1>4. PICK l, s, f \in Int : l = b.liquidity /\ s = b.stock /\ f = b.commission
  BY <1>3
<1>5. CASE d.type = "BUY"
  <2>1. PICK v \in Int : v = (l - f) \div price /\ v * price <= l - f
    <3>1. PICK a \in Int : a = l - f
      OBVIOUS
    <3>2. a \div price \in Int /\ (a \div price) * price <= a
      BY Quotient
    <3> QED BY <3>1, <3>2
  <2>2. v = Amount(d, b) /\ v > 0
    BY <1>2, <1>4, <1>5, <2>1 DEF AutoAmount, Valid
  <2>3. PICK m \in Int : m = v * price
    BY <1>1
  <2>4. m >= 0 /\ m <= l - f
    BY <1>1, <2>1, <2>2, <2>3
  <2>5. m \div FeeDivisor \in Int
    BY Products, MoneyAssumption
  <2>6. PICK c : c = Plus(b, Delta(d.type, v, price))
    OBVIOUS
  <2>7. c.liquidity = l - m /\ c.stock = s + v /\ c.commission = f + m \div FeeDivisor
    BY <1>4, <1>5, <2>3, <2>5, <2>6 DEF Plus, Delta, Commission
  <2>8. l - c.liquidity = m /\ c.stock > s
    BY <1>4, <2>2, <2>7
  <2>9. Bought(b, c)
    BY <1>4, <2>4, <2>7, <2>8 DEF Bought
  <2> QED BY <1>1, <2>2, <2>6, <2>9
<1>6. CASE d.type = "SELL"
  <2>1. PICK v \in Int : v = (s * One) \div price /\ v * price <= s * One
    <3>1. PICK a \in Int : a = s * One
      BY PricesAssumption
    <3>2. a \div price \in Int /\ (a \div price) * price <= a
      BY Quotient
    <3> QED BY <3>1, <3>2
  <2>2. v = Amount(d, b) /\ v > 0
    BY <1>2, <1>4, <1>6, <2>1 DEF AutoAmount, Valid
  <2>3. PICK m \in Int : m = v * price
    BY <1>1
  <2>4. m >= 0 /\ m <= s * One /\ (v > s => m < v * One)
    BY <1>1, <2>1, <2>2, <2>3, Oversold, PricesAssumption
  <2>5. m \div FeeDivisor \in Int
    BY Products, MoneyAssumption
  <2>6. PICK c : c = Plus(b, Delta(d.type, v, price))
    OBVIOUS
  <2>7. c.liquidity = l + m /\ c.stock = s - v /\ c.commission = f + m \div FeeDivisor
    BY <1>4, <1>6, <2>3, <2>5, <2>6 DEF Plus, Delta, Commission
  <2>8. c.liquidity - l = m /\ s - c.stock = v
    BY <1>4, <2>7
  <2>9. s * One \in Int
    BY PricesAssumption
  <2>10. m \in 0 .. s * One
    BY <2>3, <2>4, <2>9
  <2>11. Sold(b, c)
    BY <1>4, <2>2, <2>4, <2>7, <2>8, <2>10 DEF Sold
  <2> QED BY <1>1, <2>2, <2>6, <2>11
<1> QED BY <1>5, <1>6 DEF Kinds

\* A change that the history that is read is still to be fed moves its last
\* balance as the account allows.
WillMove(log, q) ==
  \A i \in DOMAIN q :
    q[i].kind = "change" /\ q[i].record.origin = "TRADE" =>
      /\ log # <<>>
      /\ \/ Bought(log[Len(log)].after, q[i].record.after)
         \/ Sold(log[Len(log)].after, q[i].record.after)

Honest == WillMove(changes[First], Owed(First))

LEMMA ExecuteHonest ==
  ASSUME Amounts = {}, First \in Memory => Pause # 0, Core,
         NEW t \in now .. MaxTime, NEW type \in Kinds,
         NEW price \in Prices \union {NaN}, NEW amount \in Amounts \union {NaN},
         Execute(t, type, price, amount)
  PROVE  Honest'
<1>1. changes' = changes /\ now' = t /\ t >= now + Pause
  BY DEF Execute, logs
<1>2. Core' /\ Owed(First)' = queue'
  BY ExecuteCore, FirstIs
<1>3. PICK d \in Decision :
        /\ d.status = "PENDING" /\ d.amount \in Amounts \union {NaN} /\ d.ts = t
        /\ BalanceAt(d.ts) \in Money /\ queue' = Effects(d)
  BY ExecuteCore
<1>4. PICK log : log = changes[First]
  OBVIOUS
<1>5. queue' # Opening /\ up'
  <2>1. \E x \in Decision : Settling(queue', x)
    BY <1>3, EffectsAre
  <2> QED BY <2>1, OpeningIs DEF Settling, Execute
<1>6. log \in Seq(Change) /\ log # <<>> /\ t \in Nat
  <2>1. log \in Seq(Change)
    BY <1>4, FirstIs DEF Core, Typed, TypeOK
  <2>2. log # <<>>
    BY <1>1, <1>2, <1>4, <1>5 DEF Core, Readable
  <2>3. now \in 1 .. MaxTime
    BY DEF Core, Typed, TypeOK
  <2>4. t \in Nat
    BY <2>3, TimeAssumption
  <2> QED BY <2>1, <2>2, <2>4
<1>7. First \in Memory => Sorted(log) /\ UpTo(log, t) /\ UpTo(log, now)
  BY <1>1, <1>2, <1>4 DEF Core, Timely
<1>8. First \in Memory => Cardinality(AtTime(log, t)) <= 1
  <2> SUFFICES ASSUME First \in Memory PROVE Cardinality(AtTime(log, t)) <= 1
    OBVIOUS
  <2>1. now \in Nat /\ Pause \in Nat \ {0}
    BY TimeAssumption DEF Core, Typed, TypeOK
  <2>2. \A i \in DOMAIN log : log[i] \in Change
    BY <1>6
  <2>3. \A i \in DOMAIN log : log[i].ts \in Nat /\ log[i].ts <= now
    BY <1>7, <2>2 DEF Change, UpTo
  <2>4. AtTime(log, t) = {}
    BY <1>1, <1>6, <2>1, <2>3 DEF AtTime
  <2> QED BY <2>4, FS_EmptySet
<1>9. PICK b \in Money : b = BalanceAt(t) /\ b = log[Len(log)].after
  BY <1>3, <1>4, <1>6, <1>7, <1>8, BalanceIs
<1>10. PICK q : q = queue'
  OBVIOUS
<1>11. \A i \in DOMAIN q : q[i].kind = "change" =>
         /\ q[i].record.after = Plus(b, Delta(d.type, Amount(d, b), d.price))
         /\ Valid(Amount(d, b), d.price, b)
  <2>1. \A i \in DOMAIN q : q[i].kind = "change" =>
          /\ q[i].record.after = Plus(BalanceAt(d.ts), q[i].record.delta)
          /\ q[i].record.delta = Delta(d.type, Amount(d, BalanceAt(d.ts)), d.price)
          /\ Valid(Amount(d, BalanceAt(d.ts)), d.price, BalanceAt(d.ts))
    BY <1>3, <1>10, EffectsAre
  <2>2. BalanceAt(d.ts) = b
    BY <1>3, <1>9
  <2> QED BY <2>1, <2>2
<1>12. \A i \in DOMAIN q : q[i].kind = "change" =>
         Bought(b, q[i].record.after) \/ Sold(b, q[i].record.after)
  <2>1. d.type \in Kinds /\ d.price \in (Nat \ {0}) \union {NaN}
    BY PricesAssumption DEF Decision
  <2> QED BY <1>3, <1>11, <2>1, Covered
<1>13. WillMove(log, q)
  BY <1>6, <1>9, <1>12 DEF WillMove
<1> QED BY <1>1, <1>2, <1>4, <1>10, <1>13 DEF Honest

LEMMA FeedHonest == Core /\ Honest /\ FeedOne => Honest'
<1> SUFFICES ASSUME Core, Honest, FeedOne PROVE Honest'
  OBVIOUS
<1>1. Typed /\ to \in Histories
  BY DEF Core, Typed, TypeOK
<1>2. PICK f \in Histories : f = First
  BY FirstIs
<1>3. PICK q \in Seq(Items) : q = queue /\ q # <<>> /\ Shaped(q)
  BY <1>1, FeedIs
<1>4. PICK x : x = Head(q)
  OBVIOUS
<1>5. WillMove(changes[f], Owed(First))
  BY <1>2 DEF Honest
<1>6. CASE f # to
  <2>1. PICK o : o = Owed(First)
    OBVIOUS
  <2>2. Owed(First)' = o /\ changes'[f] = changes[f]
    BY <1>1, <1>2, <1>6, <2>1, TurnIs, FeedIs
  <2> QED BY <1>2, <1>5, <2>1, <2>2 DEF Honest
<1>7. CASE f = to
  <2>1. Owed(First)' = Tail(q) /\ Owed(First) = q
    BY <1>1, <1>2, <1>3, <1>7, TurnIs
  <2>2. x.kind # "change" => changes'[f] = changes[f]
    BY <1>1, <1>3, <1>4, <1>7, FeedIs
  <2>3. CASE x.kind = "change"
    <3>1. \A log : WillMove(log, Tail(q))
      BY <1>3, <1>4, <2>3, OneChange DEF WillMove
    <3> QED BY <2>1, <3>1 DEF Honest
  <2>4. CASE x.kind # "change"
    <3>1. \A i \in DOMAIN Tail(q) : i + 1 \in DOMAIN q /\ Tail(q)[i] = q[i + 1]
      <4>1. /\ Tail(q) \in Seq(Items) /\ Len(q) \in Nat /\ Len(Tail(q)) = Len(q) - 1
            /\ \A i \in 1 .. Len(q) - 1 : Tail(q)[i] = q[i + 1]
        BY <1>3, TailIs
      <4>2. DOMAIN Tail(q) = 1 .. Len(Tail(q)) /\ DOMAIN q = 1 .. Len(q)
        BY <4>1
      <4> QED BY <4>1, <4>2
    <3>2. WillMove(changes[f], Tail(q))
      BY <1>5, <2>1, <3>1 DEF WillMove
    <3> QED BY <1>2, <2>1, <2>2, <2>4, <3>2 DEF Honest
  <2> QED BY <2>3, <2>4
<1> QED BY <1>6, <1>7

LEMMA StepHonest ==
  ASSUME Amounts = {}, First \in Memory => Pause # 0
  PROVE  Core /\ Honest /\ [Next]_vars => Honest'
<1> SUFFICES ASSUME Core, Honest, [Next]_vars PROVE Honest'
  OBVIOUS
<1>1. ~ (First < First)
  BY FirstIs, HistoriesAssumption
<1>2. ASSUME Start PROVE Honest'
  <2>1. Owed(First)' = Opening
    BY <1>1, <1>2 DEF Start, Owed, Core, Typed, Calling
  <2>2. \A i \in DOMAIN Opening : Opening[i].record.origin # "TRADE"
    <3>1. DOMAIN Opening = 1 .. Len(Opening)
      BY OpeningIs
    <3>2. \A i \in DOMAIN Opening : i = 1
      BY <3>1, OpeningIs
    <3> QED BY <3>2, OpeningIs
  <2>3. \A log : WillMove(log, Opening)
    BY <2>2 DEF WillMove
  <2> QED BY <2>1, <2>3 DEF Honest
<1>3. ASSUME NEW t \in now .. MaxTime, DecideAndExecute(t)
      PROVE  Honest'
  <2>1. PICK type \in Kinds, price \in Prices \union {NaN}, amount \in Amounts \union {NaN} :
          Execute(t, type, price, amount)
    BY <1>3 DEF DecideAndExecute, Kinds
  <2> QED BY <2>1, ExecuteHonest
<1>4. ASSUME Crash PROVE Honest'
  <2>1. Owed(First)' = <<>> /\ DOMAIN <<>> = {}
    BY <1>1, <1>4 DEF Crash, Owed
  <2>2. \A log : WillMove(log, <<>>)
    BY <2>1 DEF WillMove
  <2> QED BY <2>1, <2>2 DEF Honest
<1>5. CASE Finished \/ UNCHANGED vars
  BY <1>5 DEF Finished, vars, Honest, Owed
<1> QED BY <1>2, <1>3, <1>4, <1>5, FeedHonest DEF Next

LEMMA InitHonest == Init => Honest
<1> SUFFICES ASSUME Init PROVE Honest
  OBVIOUS
<1>1. Owed(First) = <<>> /\ DOMAIN <<>> = {}
  <2>1. queue = <<>> /\ to = First /\ ~ (First < First)
    BY FirstIs, HistoriesAssumption DEF Init
  <2> QED BY <2>1 DEF Owed
<1> QED BY <1>1 DEF Honest, WillMove

\* The balance of the owner changes with the log of the history that is read.
LEMMA AccountIs ==
  /\ changes[First] = <<>> => AccountNow = Owner!Opened
  /\ changes[First] # <<>> => AccountNow = changes[First][Len(changes[First])].after
  BY DEF AccountNow, Owner!Opened, BaseBalance

LEMMA StepAccount == Core /\ Honest /\ [Next]_vars => [Owner!Next]_AccountNow
<1> SUFFICES ASSUME Core, Honest, [Next]_vars PROVE [Owner!Next]_AccountNow
  OBVIOUS
<1>1. TypeOK /\ Typed
  BY DEF Core, Typed
<1>2. PICK f \in Histories : f = First
  BY FirstIs
<1>3. ASSUME changes'[f] = changes[f] PROVE AccountNow' = AccountNow
  BY <1>2, <1>3 DEF AccountNow, BaseBalance
<1>4. ASSUME FeedOne PROVE [Owner!Next]_AccountNow
  <2>1. PICK q \in Seq(Items) : q = queue /\ q # <<>> /\ Shaped(q)
    BY <1>1, <1>4, FeedIs
  <2>2. PICK x : x = Head(q)
    OBVIOUS
  <2>3. CASE f # to \/ x.kind # "change"
    <3>1. changes'[f] = changes[f]
      BY <1>1, <1>4, <2>1, <2>2, <2>3, FeedIs
    <3> QED BY <1>3, <3>1
  <2>4. CASE f = to /\ x.kind = "change"
    <3>1. changes'[f] = Append(changes[f], x.record) /\ changes[f] \in Seq(Change) /\ x.record \in Change
      BY <1>1, <1>4, <2>1, <2>2, <2>4, FeedIs, HeadChange DEF TypeOK, ItemOK
    <3>2. changes'[f] # <<>> /\ changes'[f][Len(changes'[f])] = x.record
      BY <3>1, AppendIs
    <3>3. AccountNow' = x.record.after
      BY <1>2, <3>2 DEF AccountNow, BaseBalance
    <3>4. CASE q = Opening
      <4>1. x.record.after = Owner!Opened
        <5>1. PICK r : r = [ts |-> 0, origin |-> "INIT",
                            delta |-> [liquidity |-> 0, stock |-> 0, commission |-> 0],
                            after |-> [liquidity |-> Funds, stock |-> 0, commission |-> 0]]
          OBVIOUS
        <5>2. x.record = r
          BY <2>2, <3>4, <5>1 DEF Opening, Item
        <5> QED BY <5>1, <5>2 DEF Owner!Opened
      <4> QED BY <3>3, <4>1 DEF Owner!Next, Owner!Open
    <3>5. CASE q # Opening
      <4>1. x = q[1] /\ 1 \in DOMAIN q /\ x.record.origin = "TRADE"
        BY <2>1, <2>2, <2>4, <3>5, HeadChange
      <4>2. WillMove(changes[f], q)
        <5>1. Owed(First) = q
          BY <1>1, <1>2, <1>4, <2>1, <2>4, TurnIs DEF TypeOK
        <5> QED BY <1>2, <5>1 DEF Honest
      <4>3. PICK b : b = changes[f][Len(changes[f])].after
        OBVIOUS
      <4>4. changes[f] # <<>> /\ (Bought(b, x.record.after) \/ Sold(b, x.record.after))
        BY <2>4, <4>1, <4>2, <4>3 DEF WillMove
      <4>5. AccountNow = b
        BY <1>2, <4>3, <4>4 DEF AccountNow, BaseBalance
      <4>6. ASSUME Bought(b, x.record.after) PROVE Owner!Buy
        BY <3>3, <4>5, <4>6 DEF Owner!Buy, Owner!Charged, Bought
      <4>7. ASSUME Sold(b, x.record.after) PROVE Owner!Sell
        BY <3>3, <4>5, <4>7 DEF Owner!Sell, Owner!Charged, Sold
      <4> QED BY <4>4, <4>6, <4>7 DEF Owner!Next
    <3> QED BY <3>4, <3>5
  <2> QED BY <2>3, <2>4
<1>5. ASSUME Crash PROVE [Owner!Next]_AccountNow
  <2>1. changes' = Surviving(changes)
    BY <1>5 DEF Crash
  <2>2. CASE f \in Memory
    <3>1. changes'[f] = <<>>
      BY <1>1, <2>1, <2>2, SurvivingIs DEF TypeOK
    <3>2. AccountNow' = Owner!Opened
      BY <1>2, <3>1 DEF AccountNow, Owner!Opened
    <3> QED BY <3>2 DEF Owner!Next, Owner!Open
  <2>3. CASE f \notin Memory
    <3>1. changes'[f] = changes[f]
      BY <1>1, <2>1, <2>3, SurvivingIs DEF TypeOK
    <3> QED BY <1>3, <3>1
  <2> QED BY <2>2, <2>3
<1>6. ASSUME Start \/ (\E t \in now .. MaxTime : DecideAndExecute(t)) \/ Finished \/ UNCHANGED vars
      PROVE  [Owner!Next]_AccountNow
  <2>1. changes' = changes
    BY <1>6 DEF Start, DecideAndExecute, Execute, Finished, vars, logs
  <2> QED BY <1>3, <2>1
<1> QED BY <1>4, <1>5, <1>6 DEF Next

(* A broker that chooses its amounts, for decisions at different times if it  *)
(* reads a memory, implements an account that spends no money it lacks and    *)
(* sells more stock than it has below the price of one only, whatever the     *)
(* prices, the commission and the crashes (ImplementsAccount).                *)
THEOREM TheAccountIsImplemented ==
  ASSUME Amounts = {}, First \in Memory => Pause # 0
  PROVE  Spec => ImplementsAccount
<1>1. Init => Owner!Init
  BY FirstIs DEF Init, Nothing, AccountNow, Owner!Init, Owner!Opened
<1>2. Core /\ Honest /\ [Next]_vars => Honest'
  BY StepHonest
<1> QED BY <1>1, <1>2, InitHonest, CoreHolds, StepAccount, PTL DEF Spec, ImplementsAccount, Owner!Spec

-----------------------------------------------------------------------------
(* Backtest. That a price is the market's says nothing of the trades by      *)
(* which the next price will be found: those of the bot must lie before the  *)
(* next window, and what is still to be fed must be of the bot, and not of   *)
(* the file, once the loop has begun. The history must have had nothing      *)
(* else, which is so of a memory, and of a database no run before has left.  *)

\* The watched history has what this run has fed to it, and nothing else.
Clean == watched \in Memory \/ crashes = 0

Preparing == {"off", "parse", "open", "span"}

\* A trade that is still to be fed.
Feeding(r) ==
  IF phase = "loop" THEN r.type # "UNDEFINED" /\ (Clean => r.ts = now - Step)
  ELSE phase # "done" => r.type = "UNDEFINED" /\ r.ts \in Nat

Scene ==
  /\ file \in Files /\ watched \in Histories /\ line \in Nat /\ to \in Histories /\ crashes \in Nat
  /\ ~ up => phase = "off"
  /\ \E R : trades \in [Histories -> Seq(R)]
  /\ \E S : queue \in Seq(S) /\ \A x \in S : x.kind = "trade" => Feeding(x.record)

\* Before the loop, and in it, the trades of the history.
Untraded(log) == \A i \in DOMAIN log : log[i].type = "UNDEFINED" /\ log[i].ts \in Nat
Trading(log) ==
  /\ span.from \in Nat /\ now \in Nat /\ now >= span.from /\ (now - span.from) % Step = 0
  /\ \A i \in DOMAIN log : log[i].ts \in Int /\ (log[i].type # "UNDEFINED" => log[i].ts <= now - Step)
  /\ \E i \in DOMAIN log : log[i].type = "UNDEFINED" /\ log[i].ts = span.from

Watching ==
  /\ Clean /\ phase \in Preparing => Untraded(trades[watched])
  /\ Clean /\ phase = "loop" => Trading(trades[watched])

Priced == Scene /\ Watching /\ PricesAreTheMarkets

-----------------------------------------------------------------------------
(* Whole numbers of steps.                                                   *)

LEMMA NoPartOfAStep ==
  ASSUME NEW s \in Nat \ {0}, NEW k \in Int, s * k < s, - s < s * k
  PROVE  k = 0
<1>1. CASE k >= 1
  <2>1. k - 1 \in Nat /\ s * k = s * (k - 1) + s
    BY <1>1
  <2>2. \A a, b \in Nat : a * b >= 0
    OBVIOUS
  <2>3. s * (k - 1) >= 0 /\ s * (k - 1) \in Int
    BY <2>1, <2>2
  <2> QED BY <2>1, <2>3
<1>2. CASE k <= - 1
  <2>1. - 1 - k \in Nat /\ s * k = - (s * (- 1 - k)) - s
    BY <1>2
  <2>2. \A a, b \in Nat : a * b >= 0
    OBVIOUS
  <2>3. s * (- 1 - k) >= 0 /\ s * (- 1 - k) \in Int
    BY <2>1, <2>2
  <2> QED BY <2>1, <2>3
<1> QED BY <1>1, <1>2

LEMMA WholeSteps ==
  ASSUME NEW s \in Nat \ {0}, NEW x \in Nat
  PROVE  x % s = 0 <=> \E k \in Int : x = s * k
<1>1. PICK q \in Int : q = x \div s
  OBVIOUS
<1>2. PICK r \in Int : r = x % s
  OBVIOUS
<1>3. x = s * q + r /\ 0 <= r /\ r < s
  BY <1>1, <1>2
<1>4. ASSUME NEW k \in Int, x = s * k PROVE r = 0
  <2>1. s * (k - q) = s * k - s * q
    OBVIOUS
  <2>2. s * k \in Int /\ s * q \in Int
    OBVIOUS
  <2>3. s * (k - q) = r
    BY <1>3, <1>4, <2>1, <2>2
  <2>4. k - q = 0
    BY <1>3, <2>3, NoPartOfAStep
  <2> QED BY <2>3, <2>4
<1>5. r = 0 => x = s * q
  BY <1>3
<1> QED BY <1>2, <1>4, <1>5

LEMMA Steps ==
  ASSUME NEW s \in Nat \ {0}, NEW x \in Nat, x % s = 0
  PROVE  /\ (x + s) % s = 0
         /\ x # 0 => x >= s /\ (x - s) % s = 0
         /\ \A y \in Nat : y % s = 0 /\ y <= x /\ y > x - s => y = x
<1>1. PICK k \in Int : x = s * k
  BY WholeSteps
<1>2. (x + s) % s = 0
  <2>1. x + s = s * (k + 1) /\ x + s \in Nat /\ k + 1 \in Int
    BY <1>1
  <2> QED BY <2>1, WholeSteps
<1>3. ASSUME NEW y \in Nat, y % s = 0, y <= x, y > x - s PROVE y = x
  <2>1. PICK l \in Int : y = s * l
    BY <1>3, WholeSteps
  <2>2. s * (k - l) = x - y
    BY <1>1, <2>1
  <2>3. k - l = 0
    BY <1>3, <2>2, NoPartOfAStep
  <2> QED BY <1>1, <2>1, <2>3
<1>4. ASSUME x # 0 PROVE x >= s /\ (x - s) % s = 0
  <2>1. x >= s
    <3>1. 0 % s = 0
      <4>1. 0 = s * 0
        OBVIOUS
      <4> QED BY <4>1, WholeSteps
    <3> QED BY <1>3, <1>4, <3>1
  <2>2. x - s = s * (k - 1) /\ x - s \in Nat
    BY <1>1, <2>1
  <2> QED BY <2>1, <2>2, WholeSteps
<1> QED BY <1>2, <1>3, <1>4

-----------------------------------------------------------------------------
(* What the price is found by.                                               *)

(* Of a history that gets a trade of the bot, the windows and what is shown  *)
(* of them stay as they were.                                                *)
LEMMA WindowsStay ==
  ASSUME NEW R, NEW s \in Seq(R), NEW x \in R, x.type # "UNDEFINED", NEW b, NEW e
  PROVE  /\ Market(Append(s, x)) \intersect InWindow(Append(s, x), b, e)
              = Market(s) \intersect InWindow(s, b, e)
         /\ \A S : S \subseteq Market(s) => Shown(Append(s, x), S) = Shown(s, S)
<1>1. PICK a : a = Append(s, x)
  OBVIOUS
<1>2. /\ DOMAIN a = DOMAIN s \union {Len(s) + 1} /\ a[Len(s) + 1] = x
      /\ \A i \in DOMAIN s : a[i] = s[i]
  <2>1. /\ Len(s) \in Nat /\ DOMAIN s = 1 .. Len(s) /\ DOMAIN a = 1 .. (Len(s) + 1)
        /\ a[Len(s) + 1] = x /\ \A i \in DOMAIN s : a[i] = s[i]
    BY <1>1, AppendIs
  <2>2. DOMAIN a = DOMAIN s \union {Len(s) + 1}
    BY <2>1
  <2> QED BY <2>1, <2>2
<1>3. Market(a) \intersect InWindow(a, b, e) = Market(s) \intersect InWindow(s, b, e)
  BY <1>2 DEF Market, InWindow
<1>4. \A S : S \subseteq DOMAIN s => Shown(a, S) = Shown(s, S)
  BY <1>2 DEF Shown
<1>5. Market(s) \subseteq DOMAIN s
  BY DEF Market
<1> QED BY <1>1, <1>3, <1>4, <1>5

\* Before the bot has traded in the window that ends now, it is the market's.
LEMMA WindowIsTheMarkets ==
  ASSUME NEW log, Trading(log)
  PROVE  InWindow(log, now - Step, now) = Market(log) \intersect InWindow(log, now - Step, now)
<1>1. ASSUME NEW i \in InWindow(log, now - Step, now) PROVE i \in Market(log)
  <2>1. i \in DOMAIN log /\ log[i].ts > now - Step /\ log[i].ts \in Int /\ now - Step \in Int
    BY StepAssumption DEF InWindow, Trading
  <2>2. log[i].type = "UNDEFINED"
    BY <2>1 DEF Trading
  <2> QED BY <2>1, <2>2 DEF Market
<1> QED BY <1>1

\* The ends of the windows of a simulation that began at a time and has come to another.
Until(from, n) == {u \in from .. n - Step : (u - from) % Step = 0}

\* This one is new, and the last of them.
LEMMA NewEnd ==
  ASSUME NEW from \in Nat, NEW t \in Nat, t >= from, (t - from) % Step = 0
  PROVE  /\ Until(from, t + Step) = Until(from, t) \union {t}
         /\ \A u \in Until(from, t) : u < t
         /\ t # from => Until(from, t) # {}
         /\ (t + Step - from) % Step = 0
<1> DEFINE ends(n) == {u \in from .. n - Step : (u - from) % Step = 0}
<1>1. Step \in Nat \ {0} /\ t - from \in Nat /\ (t + Step) - Step = t
  BY StepAssumption
<1>2. t \in ends(t + Step)
  BY <1>1
<1>3. \A u \in ends(t) : u < t /\ u \in ends(t + Step)
  BY <1>1
<1>4. ASSUME NEW u \in ends(t + Step) PROVE u = t \/ u \in ends(t)
  <2>1. u \in from .. t /\ (u - from) % Step = 0 /\ u - from \in Nat /\ u - from <= t - from
    BY <1>1
  <2>2. CASE u > t - Step
    <3>1. u - from > (t - from) - Step
      BY <1>1, <2>1, <2>2
    <3>2. u - from = t - from
      BY <1>1, <2>1, <3>1, Steps
    <3> QED BY <2>1, <3>2
  <2>3. CASE ~ (u > t - Step)
    BY <1>1, <2>1, <2>3
  <2> QED BY <2>2, <2>3
<1>5. ASSUME t # from PROVE ends(t) # {}
  <2>1. t - from # 0
    BY <1>5
  <2>2. t - from >= Step /\ ((t - from) - Step) % Step = 0
    BY <1>1, <2>1, Steps
  <2>3. t - Step \in from .. t - Step /\ (t - Step) - from = (t - from) - Step
    BY <1>1, <2>2
  <2>4. t - Step \in ends(t)
    BY <2>2, <2>3
  <2> QED BY <2>4
<1>6. (t + Step - from) % Step = 0
  <2>1. PICK x \in Nat : x = t - from
    BY <1>1
  <2>2. (x + Step) % Step = 0
    BY <1>1, <2>1, Steps
  <2>3. x + Step = t + Step - from
    BY <1>1, <2>1
  <2> QED BY <2>2, <2>3
<1>7. Until(from, t + Step) = ends(t + Step) /\ Until(from, t) = ends(t)
  BY DEF Until
<1> HIDE DEF ends
<1> QED BY <1>2, <1>3, <1>4, <1>5, <1>6, <1>7

-----------------------------------------------------------------------------
(* The steps of a simulation.                                                *)

\* The trades of the market in the window that ends at t, and the latest that has any.
Asked(log, t) == Market(log) \intersect InWindow(log, t - Step, t)
Latest(log, ends) ==
  LET full == {t \in ends : Asked(log, t) # {}} IN CHOOSE t \in full : \A s \in full : s <= t
Fair(log, ends) == Average(Shown(log, Asked(log, Latest(log, ends))))

Owing(log, ends) == watched \in Memory \/ (crashes = 0 /\ \A t \in ends : Asked(log, t) # {})

LEMMA PricesAre ==
  PricesAreTheMarkets <=>
    (phase = "loop" /\ Ends # {} /\ Owing(trades[watched], Ends) => last = Fair(trades[watched], Ends))
  BY DEF PricesAreTheMarkets, Reference, Owing, Fair, Latest, Asked, Traded

LEMMA PricesWillBe ==
  PricesAreTheMarkets' <=>
    (phase' = "loop" /\ Ends' # {} /\ Owing(trades[watched], Ends)' =>
       last' = Fair(trades'[watched'], Ends'))
  BY DEF PricesAreTheMarkets, Reference, Owing, Fair, Latest, Asked, Traded

LEMMA InitPriced == BacktestInit => Priced
<1> SUFFICES ASSUME BacktestInit PROVE Priced
  OBVIOUS
<1>1. /\ trades = Nothing /\ queue = <<>> /\ to = First /\ crashes = 0
      /\ file \in Files /\ watched \in Histories /\ line = 0 /\ phase = "off"
  BY DEF BacktestInit, Init
<1>2. trades \in [Histories -> Seq({})] /\ queue \in Seq({})
  BY <1>1 DEF Nothing
<1>3. Scene
  BY <1>1, <1>2, FirstIs DEF Scene
<1>4. trades[watched] = <<>>
  BY <1>1 DEF Nothing
<1>5. Watching
  BY <1>1, <1>4 DEF Watching, Untraded
<1>6. PricesAreTheMarkets
  BY <1>1, PricesAre
<1> QED BY <1>3, <1>5, <1>6 DEF Priced

\* A step before the loop that feeds nothing.
LEMMA Prepares ==
  ASSUME Priced, phase \in Preparing, phase' \in Preparing,
         UNCHANGED <<trades, file, watched, crashes, to>>, line' \in Nat, ~ up' => phase' = "off",
         \E S : queue' \in Seq(S) /\ \A x \in S :
                  x.kind = "trade" => x.record.type = "UNDEFINED" /\ x.record.ts \in Nat
  PROVE  Priced'
<1>1. phase' # "loop" /\ phase' # "done"
  BY DEF Preparing
<1>2. Scene'
  BY <1>1 DEF Priced, Scene, Feeding
<1>3. Watching'
  <2>1. Clean /\ phase \in Preparing => Untraded(trades[watched])
    BY DEF Priced, Watching
  <2> QED BY <1>1, <2>1 DEF Watching, Clean, Untraded
<1>4. PricesAreTheMarkets'
  BY <1>1, PricesWillBe
<1> QED BY <1>2, <1>3, <1>4 DEF Priced

LEMMA RunPriced ==
  ASSUME Priced, NEW parse \in BOOLEAN, Run(parse)
  PROVE  Priced'
<1>1. phase = "off" /\ phase' \in {"parse", "open"} /\ up' = TRUE /\ line' = 0
      /\ UNCHANGED <<trades, queue, to, crashes, file, watched>>
  BY DEF Priced, Scene, Run, logs
<1>2. PICK S : queue \in Seq(S) /\ \A x \in S : x.kind = "trade" => Feeding(x.record)
  BY DEF Priced, Scene
<1>3. \A x \in S : x.kind = "trade" => x.record.type = "UNDEFINED" /\ x.record.ts \in Nat
  BY <1>1, <1>2 DEF Feeding
<1> QED BY <1>1, <1>2, <1>3, Prepares DEF Preparing

LEMMA ParsePriced ==
  ASSUME Priced, ParseLine \/ ParseEnds
  PROVE  Priced'
<1>1. phase = "parse" /\ phase' \in {"parse", "open"} /\ up /\ up' = up /\ queue = <<>>
      /\ UNCHANGED <<trades, to, crashes, file, watched>>
  BY DEF ParseLine, ParseEnds, Returned, logs, vars
<1>2. line \in Nat /\ file \in Seq(Line)
  BY FilesAssumption DEF Priced, Scene
<1>3. CASE ParseLine
  <2>1. line' = line + 1 /\ line' \in 1 .. Len(file)
    BY <1>2, <1>3 DEF ParseLine
  <2>2. PICK l \in Line : l = file[line']
    BY <1>2, <2>1
  <2>3. PICK r : r = [ts |-> l.ts, decision |-> 0, type |-> "UNDEFINED", volume |-> l.volume,
                      price |-> l.price]
    OBVIOUS
  <2>4. PICK x : x = [kind |-> "trade", record |-> r]
    OBVIOUS
  <2>5. r.type = "UNDEFINED" /\ r.ts \in Nat /\ x.record = r
    BY <2>2, <2>3, <2>4 DEF Line
  <2>6. queue' = <<x>>
    BY <1>3, <2>2, <2>3, <2>4 DEF ParseLine, Item
  <2>7. queue' \in Seq({x})
    BY <2>6
  <2> QED BY <1>1, <1>2, <2>1, <2>5, <2>7, Prepares DEF Preparing
<1>4. CASE ParseEnds
  <2>1. line' = line /\ queue' \in Seq({})
    BY <1>1, <1>4 DEF ParseEnds, vars
  <2> QED BY <1>1, <1>2, <2>1, Prepares DEF Preparing
<1> QED BY <1>3, <1>4

LEMMA OpenPriced ==
  ASSUME Priced, OpenAccount
  PROVE  Priced'
<1>1. phase = "open" /\ phase' = "span" /\ up /\ up' = up /\ queue' = Opening
      /\ UNCHANGED <<trades, to, crashes, file, watched, line>> /\ line \in Nat
  BY DEF OpenAccount, Returned, logs, Priced, Scene
<1>2. PICK x : x = Opening[1]
  OBVIOUS
<1>3. Opening = <<x>> /\ x.kind = "change"
  <2>1. PICK q : q = Opening
    OBVIOUS
  <2>2. q \in Seq(Items) /\ Len(q) = 1 /\ q[1] = x /\ x.kind = "change"
    BY <1>2, <2>1, OpeningIs
  <2> QED BY <2>1, <2>2
<1>4. /\ queue' \in Seq({x})
      /\ \A y \in {x} : y.kind = "trade" => y.record.type = "UNDEFINED" /\ y.record.ts \in Nat
  BY <1>1, <1>3
<1>5. phase \in Preparing /\ phase' \in Preparing /\ (~ up' => phase' = "off") /\ line' \in Nat
  BY <1>1 DEF Preparing
<1> QED BY <1>1, <1>4, <1>5, Prepares

\* The loop begins at a time at which the market has traded, and the bot has not.
LEMMA SpanPriced ==
  ASSUME Priced, ReadSpan
  PROVE  Priced'
<1>1. /\ phase = "span" /\ up /\ up' = up /\ queue = <<>> /\ queue' = queue
      /\ span' = TimeSpan(trades[watched]) /\ now' = span'.from
      /\ phase' = IF span' = NoSpan THEN "done" ELSE "loop"
      /\ UNCHANGED <<trades, to, crashes, file, watched, line>>
  BY DEF ReadSpan, Returned, logs
<1>2. Scene'
  <2>1. queue' \in Seq({}) /\ \A x \in {} : x.kind = "trade" => Feeding(x.record)'
    BY <1>1
  <2>2. Scene
    BY DEF Priced
  <2>3. \E R : trades' \in [Histories -> Seq(R)]
    BY <1>1, <2>2 DEF Scene
  <2>4. file' \in Files /\ watched' \in Histories /\ line' \in Nat /\ to' \in Histories /\ crashes' \in Nat
        /\ (~ up' => phase' = "off")
    BY <1>1, <2>2 DEF Scene
  <2> QED BY <2>1, <2>3, <2>4 DEF Scene
<1>3. phase' # "loop" => Watching' /\ PricesAreTheMarkets'
  <2>1. phase' # "loop" => phase' \notin Preparing
    BY <1>1 DEF Preparing
  <2> QED BY <2>1, PricesWillBe DEF Watching
<1>4. ASSUME phase' = "loop", Clean' PROVE Trading(trades[watched])'
  <2>1. PICK log : log = trades[watched]
    OBVIOUS
  <2>2. Untraded(log)
    BY <1>1, <1>4, <2>1 DEF Priced, Watching, Preparing, Clean
  <2> DEFINE times == {log[i].ts : i \in DOMAIN log}
  <2>3. times # {}
    BY <1>1, <1>4, <2>1 DEF TimeSpan
  <2>4. times \in SUBSET Nat
    BY <2>2 DEF Untraded
  <2>5. PICK least : least = CHOOSE t \in times : \A s \in times : t <= s
    OBVIOUS
  <2>6. least \in times
    <3>1. \E t \in times : \A s \in times : t <= s
      <4> HIDE DEF times
      <4> QED BY <2>3, <2>4, LeastNatural
    <3> QED BY <2>5, <3>1
  <2>7. span'.from = least
    <3>1. PICK greatest : greatest = CHOOSE t \in times : \A s \in times : s <= t
      OBVIOUS
    <3>2. TimeSpan(log) = [from |-> least, to |-> greatest]
      BY <2>3, <2>5, <3>1, Zenon DEF TimeSpan
    <3>3. span' = [from |-> least, to |-> greatest]
      <4> HIDE DEF times
      <4> QED BY <1>1, <2>1, <3>2
    <3> QED BY <3>3
  <2>8. least \in Nat /\ \E i \in DOMAIN log : log[i].ts = least
    BY <2>4, <2>6
  <2>9. (now' - span'.from) % Step = 0
    <3>1. now' - span'.from = 0
      BY <1>1, <2>7, <2>8
    <3>2. 0 % Step = 0
      <4>1. 0 = Step * 0 /\ Step \in Nat \ {0}
        BY StepAssumption
      <4> QED BY <4>1, WholeSteps
    <3> QED BY <3>1, <3>2
  <2>10. trades'[watched'] = log
    BY <1>1, <2>1
  <2>11. \A i \in DOMAIN log : log[i].type = "UNDEFINED" /\ log[i].ts \in Int
    BY <2>2 DEF Untraded
  <2> HIDE DEF times
  <2>12. now' = least /\ now' >= span'.from
    BY <1>1, <2>7, <2>8
  <2> QED BY <2>7, <2>8, <2>9, <2>10, <2>11, <2>12 DEF Trading
<1>5. ASSUME phase' = "loop" PROVE Watching' /\ PricesAreTheMarkets'
  <2>1. Watching'
    BY <1>4, <1>5 DEF Watching, Preparing
  <2>2. Owing(trades[watched], Ends)' => Ends' = {}
    <3> SUFFICES ASSUME Owing(trades[watched], Ends)' PROVE Ends' = {}
      OBVIOUS
    <3>1. Trading(trades[watched])'
      BY <1>4, <1>5 DEF Owing, Clean
    <3>2. now' \in Nat /\ span'.from = now'
      BY <1>1, <3>1 DEF Trading
    <3> QED BY <3>2, StepAssumption DEF Ends
  <2> QED BY <2>1, <2>2, PricesWillBe
<1> QED BY <1>2, <1>3, <1>5 DEF Priced

-----------------------------------------------------------------------------
(* What a decision feeds.                                                    *)

\* What execute() may feed for a decision, when the balance is b.
Made(d, b, x) ==
  /\ x.kind \in {"trade", "change"} => Valid(Amount(d, b), d.price, b)
  /\ x.kind = "trade" => x.record = Send(d, Amount(d, b))
  /\ x.kind = "change" =>
       x.record = [ts |-> d.ts, origin |-> "TRADE", delta |-> Delta(d.type, Amount(d, b), d.price),
                   after |-> Plus(b, Delta(d.type, Amount(d, b), d.price))]

Lone(q) == \A i, j \in DOMAIN q : q[i].kind = "change" /\ q[j].kind = "change" => i = j

LEMMA EffectsMade ==
  ASSUME NEW d, NEW b, b = BalanceAt(d.ts)
  PROVE  (\E S : Effects(d) \in Seq(S) /\ \A x \in S : Made(d, b, x)) /\ Lone(Effects(d))
<1>1. PICK amount : amount = Amount(d, b)
  OBVIOUS
<1>2. PICK t : t = Item("trade", Send(d, amount))
  OBVIOUS
<1>3. t.kind = "trade" /\ t.record = Send(d, amount)
  BY <1>2 DEF Item
<1>4. PICK delta : delta = Delta(d.type, amount, d.price)
  OBVIOUS
<1>5. PICK r : r = [ts |-> d.ts, origin |-> "TRADE", delta |-> delta, after |-> Plus(b, delta)]
  OBVIOUS
<1>6. PICK c : c = Item("change", r)
  OBVIOUS
<1>7. c.kind = "change" /\ c.record = r
  BY <1>6 DEF Item
<1>8. PICK made : made = Item("decision", d)
  OBVIOUS
<1>9. made.kind = "decision"
  BY <1>8 DEF Item
<1>10. ASSUME NEW status
       PROVE  \E x : x.kind = "decision" /\ Verdict(d, amount, status) = <<made, x>>
  <2>1. PICK x : x = Item("decision", [d EXCEPT !.amount = amount, !.status = status])
    OBVIOUS
  <2>2. x.kind = "decision"
    BY <2>1 DEF Item
  <2> QED BY <1>8, <2>1, <2>2 DEF Verdict
<1>11. Settlement(d, amount, b) = <<t, c>>
  BY <1>2, <1>4, <1>5, <1>6 DEF Settlement
<1>12. CASE Valid(amount, d.price, b)
  <2>1. PICK x : x.kind = "decision" /\ Verdict(d, amount, "PASSED") = <<made, x>>
    BY <1>10
  <2>2. PICK Z : Z = {t, c, made, x}
    OBVIOUS
  <2>3. PICK p : p = <<t, c>>
    OBVIOUS
  <2>4. PICK q : q = <<made, x>>
    OBVIOUS
  <2>5. /\ p \in Seq(Z) /\ Len(p) = 2 /\ p[1] = t /\ p[2] = c
        /\ q \in Seq(Z) /\ Len(q) = 2 /\ q[1] = made /\ q[2] = x
    BY <2>2, <2>3, <2>4
  <2>6. PICK e : e = p \o q
    OBVIOUS
  <2>7. e \in Seq(Z) /\ Len(e) = 4 /\ e[1] = t /\ e[2] = c /\ e[3] = made /\ e[4] = x
    BY <2>5, <2>6, Chained
  <2>8. Effects(d) = e
    BY <1>1, <1>11, <1>12, <2>1, <2>3, <2>4, <2>6 DEF Effects
  <2>9. \A y \in Z : Made(d, b, y)
    <3>1. Made(d, b, t)
      BY <1>1, <1>3, <1>12 DEF Made
    <3>2. Made(d, b, c)
      BY <1>1, <1>4, <1>5, <1>7, <1>12 DEF Made
    <3>3. Made(d, b, made) /\ Made(d, b, x)
      BY <1>9, <2>1 DEF Made
    <3> QED BY <2>2, <3>1, <3>2, <3>3
  <2>10. Lone(e)
    <3>1. \A i \in DOMAIN e : i \in {1, 2, 3, 4}
      <4>1. DOMAIN e = 1 .. 4
        BY <2>7
      <4> QED BY <4>1
    <3>2. \A i \in DOMAIN e : e[i].kind = "change" => i = 2
      BY <1>3, <1>9, <2>1, <2>7, <3>1
    <3> QED BY <3>2 DEF Lone
  <2> QED BY <2>7, <2>8, <2>9, <2>10
<1>13. CASE ~ Valid(amount, d.price, b)
  <2>1. PICK x : x.kind = "decision" /\ Verdict(d, amount, "CANCELLED") = <<made, x>>
    BY <1>10
  <2>2. PICK Z : Z = {made, x}
    OBVIOUS
  <2>3. PICK e : e = <<made, x>>
    OBVIOUS
  <2>4. Effects(d) = e
    BY <1>1, <1>13, <2>1, <2>3 DEF Effects
  <2>5. e \in Seq(Z) /\ Len(e) = 2 /\ e[1] = made /\ e[2] = x
    BY <2>2, <2>3, Tuples
  <2>6. \A y \in Z : Made(d, b, y)
    BY <1>9, <2>1, <2>2 DEF Made
  <2>7. Lone(e)
    <3>1. \A i \in DOMAIN e : i \in {1, 2}
      <4>1. DOMAIN e = 1 .. 2
        BY <2>5
      <4> QED BY <4>1
    <3>2. \A i \in DOMAIN e : e[i].kind # "change"
      BY <1>9, <2>1, <2>5, <3>1
    <3> QED BY <3>2 DEF Lone
  <2> QED BY <2>4, <2>5, <2>6, <2>7
<1> QED BY <1>12, <1>13

\* A feed before the loop brings a trade of the file, one in it a trade of the bot.
LEMMA FedTo ==
  ASSUME Priced, FeedNext
  PROVE  /\ Scene'
         /\ UNCHANGED <<phase, watched, crashes, span, now, last>>
         /\ \/ trades'[watched] = trades[watched]
            \/ \E R, r : /\ trades[watched] \in Seq(R) /\ r \in R /\ Feeding(r)
                         /\ trades'[watched] = Append(trades[watched], r)
<1>1. /\ file \in Files /\ watched \in Histories /\ line \in Nat /\ to \in Histories /\ crashes \in Nat
      /\ ~ up => phase = "off"
  BY DEF Priced, Scene
<1>2. PICK R : trades \in [Histories -> Seq(R)]
  BY DEF Priced, Scene
<1>3. PICK S : queue \in Seq(S) /\ \A x \in S : x.kind = "trade" => Feeding(x.record)
  BY DEF Priced, Scene
<1>4. /\ FeedOne /\ queue # <<>>
      /\ UNCHANGED <<up, now, lastId, count, crashes, file, watched, line, phase, span, last>>
  BY DEF FeedNext, FeedOne, program
<1>5. to' \in Histories
  BY <1>1, <1>4, TurnIs
<1>6. queue' \in Seq(S)
  <2>1. Tail(queue) \in Seq(S)
    BY <1>3, <1>4, TailIs
  <2> QED BY <1>3, <1>4, <2>1 DEF FeedOne
<1>7. PICK x \in S : x = Head(queue)
  BY <1>3, <1>4, TailIs
<1>8. PICK T : T = R \union {x.record}
  OBVIOUS
<1>9. trades \in [Histories -> Seq(T)] /\ x.record \in T
  BY <1>2, <1>8
<1>10. trades' = IF x.kind = "trade" THEN [trades EXCEPT ![to] = Append(trades[to], x.record)] ELSE trades
  BY <1>4, <1>7 DEF FeedOne, Fed
<1>11. Append(trades[to], x.record) \in Seq(T)
  BY <1>1, <1>9
<1>12. trades' \in [Histories -> Seq(T)]
  BY <1>9, <1>10, <1>11
<1>13. \A y \in S : y.kind = "trade" => Feeding(y.record)'
  BY <1>3, <1>4 DEF Feeding, Clean
<1>14. Scene'
  BY <1>1, <1>4, <1>5, <1>6, <1>12, <1>13 DEF Scene
<1>15. CASE x.kind = "trade" /\ to = watched
  <2>1. trades'[watched] = Append(trades[watched], x.record)
    BY <1>1, <1>9, <1>10, <1>15
  <2>2. Feeding(x.record) /\ trades[watched] \in Seq(T)
    BY <1>1, <1>3, <1>9, <1>15
  <2> QED BY <1>4, <1>9, <1>14, <2>1, <2>2
<1>16. CASE ~ (x.kind = "trade" /\ to = watched)
  <2>1. trades'[watched] = trades[watched]
    BY <1>1, <1>9, <1>10, <1>16
  <2> QED BY <1>4, <1>14, <2>1
<1> QED BY <1>15, <1>16

LEMMA UntradedGrows ==
  ASSUME NEW R, NEW s \in Seq(R), NEW r \in R, Untraded(s), r.type = "UNDEFINED", r.ts \in Nat
  PROVE  Untraded(Append(s, r))
<1>1. PICK a : a = Append(s, r)
  OBVIOUS
<1>2. /\ \A i \in DOMAIN a : i \in DOMAIN s \/ i = Len(s) + 1
      /\ \A i \in DOMAIN s : a[i] = s[i]
      /\ a[Len(s) + 1] = r
  BY <1>1, AppendIs
<1>3. Untraded(a)
  BY <1>2 DEF Untraded
<1> QED BY <1>1, <1>3

LEMMA TradingGrows ==
  ASSUME NEW R, NEW s \in Seq(R), NEW r \in R, Trading(s), r.type # "UNDEFINED", r.ts = now - Step
  PROVE  Trading(Append(s, r))
<1>1. PICK a : a = Append(s, r)
  OBVIOUS
<1>2. /\ \A i \in DOMAIN a : i \in DOMAIN s \/ i = Len(s) + 1
      /\ \A i \in DOMAIN s : a[i] = s[i] /\ i \in DOMAIN a
      /\ a[Len(s) + 1] = r
  BY <1>1, AppendIs
<1>3. /\ span.from \in Nat /\ now \in Nat /\ now >= span.from /\ (now - span.from) % Step = 0
  BY DEF Trading
<1>4. \A i \in DOMAIN a : a[i].ts \in Int /\ (a[i].type # "UNDEFINED" => a[i].ts <= now - Step)
  <2>1. r.ts \in Int /\ r.ts <= now - Step
    BY <1>3, StepAssumption
  <2>2. \A i \in DOMAIN s : s[i].ts \in Int /\ (s[i].type # "UNDEFINED" => s[i].ts <= now - Step)
    BY DEF Trading
  <2> QED BY <1>2, <2>1, <2>2
<1>5. \E i \in DOMAIN a : a[i].type = "UNDEFINED" /\ a[i].ts = span.from
  BY <1>2 DEF Trading
<1>6. Trading(a)
  BY <1>3, <1>4, <1>5 DEF Trading
<1> QED BY <1>1, <1>6

LEMMA SameReference ==
  ASSUME NEW s, NEW a, NEW ends,
         \A t : Asked(a, t) = Asked(s, t) /\ Shown(a, Asked(a, t)) = Shown(s, Asked(s, t))
  PROVE  Fair(a, ends) = Fair(s, ends) /\ (Owing(a, ends) <=> Owing(s, ends))
<1>1. Latest(a, ends) = Latest(s, ends)
  BY DEF Latest
<1>2. Fair(a, ends) = Fair(s, ends)
  BY <1>1 DEF Fair
<1> QED BY <1>2 DEF Owing

LEMMA FeedPriced ==
  ASSUME Priced, FeedNext
  PROVE  Priced'
<1>1. Scene' /\ UNCHANGED <<phase, watched, crashes, span, now, last>>
  BY FedTo
<1>2. Clean' <=> Clean
  BY <1>1 DEF Clean
<1>3. Ends' = Ends
  BY <1>1 DEF Ends
<1>4. CASE trades'[watched] = trades[watched]
  <2>1. PICK log : log = trades[watched] /\ log = trades'[watched']
    BY <1>1, <1>4
  <2>2. Watching'
    <3>1. Untraded(log)' <=> Untraded(log)
      BY DEF Untraded
    <3>2. Trading(log)' <=> Trading(log)
      BY <1>1 DEF Trading
    <3> QED BY <1>1, <1>2, <2>1, <3>1, <3>2 DEF Priced, Watching
  <2>3. PricesAreTheMarkets'
    <3>1. Owing(trades[watched], Ends)' <=> Owing(log, Ends)
      BY <1>1, <1>3, <2>1 DEF Owing
    <3> QED BY <1>1, <1>3, <2>1, <3>1, PricesAre, PricesWillBe DEF Priced
  <2> QED BY <1>1, <2>2, <2>3 DEF Priced
<1>5. ASSUME NEW R, NEW r, trades[watched] \in Seq(R), r \in R, Feeding(r),
             trades'[watched] = Append(trades[watched], r)
      PROVE  Priced'
  <2>1. PICK log \in Seq(R) : log = trades[watched]
    BY <1>5
  <2>2. PICK a : a = Append(log, r) /\ a = trades'[watched']
    BY <1>1, <1>5, <2>1
  <2>3. Clean /\ phase \in Preparing => Untraded(a)
    <3>1. ASSUME Clean, phase \in Preparing PROVE Untraded(a)
      <4>1. Untraded(log)
        BY <2>1, <3>1 DEF Priced, Watching
      <4>2. r.type = "UNDEFINED" /\ r.ts \in Nat
        BY <1>5, <3>1 DEF Feeding, Preparing
      <4> QED BY <1>5, <2>2, <4>1, <4>2, UntradedGrows
    <3> QED BY <3>1
  <2>4. Clean /\ phase = "loop" => Trading(a)
    <3>1. ASSUME Clean, phase = "loop" PROVE Trading(a)
      <4>1. Trading(log)
        BY <2>1, <3>1 DEF Priced, Watching
      <4>2. r.type # "UNDEFINED" /\ r.ts = now - Step
        BY <1>5, <3>1 DEF Feeding
      <4> QED BY <1>5, <2>2, <4>1, <4>2, TradingGrows
    <3> QED BY <3>1
  <2>5. Watching'
    <3>1. Trading(a)' <=> Trading(a)
      BY <1>1 DEF Trading
    <3> QED BY <1>1, <1>2, <2>2, <2>3, <2>4, <3>1 DEF Watching, Untraded
  <2>6. ASSUME phase = "loop" PROVE PricesAreTheMarkets'
    <3>1. r.type # "UNDEFINED"
      BY <1>5, <2>6 DEF Feeding
    <3>2. ASSUME NEW t
          PROVE  Asked(a, t) = Asked(log, t) /\ Shown(a, Asked(a, t)) = Shown(log, Asked(log, t))
      <4>1. PICK b : b = t - Step
        OBVIOUS
      <4>2. /\ Market(a) \intersect InWindow(a, b, t) = Market(log) \intersect InWindow(log, b, t)
            /\ \A S : S \subseteq Market(log) => Shown(a, S) = Shown(log, S)
        <5>1. r \in R /\ r.type # "UNDEFINED"
          BY <1>5, <3>1
        <5>2. /\ Market(Append(log, r)) \intersect InWindow(Append(log, r), b, t)
                   = Market(log) \intersect InWindow(log, b, t)
              /\ \A S : S \subseteq Market(log) => Shown(Append(log, r), S) = Shown(log, S)
          BY <5>1, WindowsStay
        <5> QED BY <2>2, <5>2
      <4>3. Asked(a, t) = Asked(log, t) /\ Asked(log, t) \subseteq Market(log)
        BY <4>1, <4>2 DEF Asked
      <4> QED BY <4>2, <4>3
    <3>3. Fair(a, Ends) = Fair(log, Ends) /\ (Owing(a, Ends) <=> Owing(log, Ends))
      BY <3>2, SameReference
    <3>4. Owing(trades[watched], Ends)' <=> Owing(a, Ends)
      BY <1>1, <1>3, <2>2 DEF Owing
    <3> QED BY <1>1, <1>3, <2>1, <2>2, <3>3, <3>4, PricesAre, PricesWillBe DEF Priced
  <2>7. phase # "loop" => PricesAreTheMarkets'
    BY <1>1, PricesWillBe
  <2> QED BY <1>1, <2>5, <2>6, <2>7 DEF Priced
<1>6. \/ trades'[watched] = trades[watched]
      \/ \E R, r : /\ trades[watched] \in Seq(R) /\ r \in R /\ Feeding(r)
                   /\ trades'[watched] = Append(trades[watched], r)
  BY FedTo
<1> QED BY <1>4, <1>5, <1>6

\* A step out of the loop, or out of the program, that feeds nothing.
LEMMA Leaves ==
  ASSUME Priced, phase' = "done", queue' = <<>>, up' = up, up,
         UNCHANGED <<trades, file, watched, crashes, to, line>>
  PROVE  Priced'
<1>1. Scene'
  <2>1. \E S : queue' \in Seq(S) /\ \A x \in S : x.kind = "trade" => Feeding(x.record)'
    <3>1. queue' \in Seq({}) /\ \A x \in {} : x.kind = "trade" => Feeding(x.record)'
      OBVIOUS
    <3> QED BY <3>1
  <2>2. Scene
    BY DEF Priced
  <2> QED BY <2>1, <2>2 DEF Scene
<1>2. Watching'
  BY DEF Watching, Preparing
<1>3. PricesAreTheMarkets'
  BY PricesWillBe
<1> QED BY <1>1, <1>2, <1>3 DEF Priced

LEMMA DiesPriced ==
  ASSUME Priced, Dies
  PROVE  Priced'
<1>1. /\ phase' = "off" /\ queue' = <<>> /\ to' = First /\ crashes' = crashes + 1 /\ line' = 0
      /\ trades' = Surviving(trades) /\ UNCHANGED <<file, watched>>
  BY DEF Dies, Crash
<1>2. PICK R : trades \in [Histories -> Seq(R)]
  BY DEF Priced, Scene
<1>3. trades' \in [Histories -> Seq(R)]
  BY <1>1, <1>2 DEF Surviving
<1>4. watched \in Histories /\ crashes \in Nat /\ file \in Files
  BY DEF Priced, Scene
<1>5. Scene'
  <2>1. \E S : queue' \in Seq(S) /\ \A x \in S : x.kind = "trade" => Feeding(x.record)'
    <3>1. queue' \in Seq({}) /\ \A x \in {} : x.kind = "trade" => Feeding(x.record)'
      BY <1>1
    <3> QED BY <3>1
  <2>2. crashes' \in Nat /\ line' \in Nat /\ to' \in Histories /\ file' \in Files /\ watched' \in Histories
    BY <1>1, <1>4, FirstIs
  <2>3. \E Q : trades' \in [Histories -> Seq(Q)]
    BY <1>3
  <2> QED BY <1>1, <2>1, <2>2, <2>3 DEF Scene
<1>6. Watching'
  <2>1. ASSUME Clean' PROVE trades'[watched'] = <<>>
    <3>1. watched \in Memory
      BY <1>1, <1>4, <2>1 DEF Clean
    <3> QED BY <1>1, <1>4, <3>1 DEF Surviving
  <2>2. Untraded(<<>>)
    BY DEF Untraded
  <2>3. Clean' => Untraded(trades[watched])'
    BY <2>1, <2>2 DEF Untraded
  <2> QED BY <1>1, <2>3 DEF Watching
<1>7. PricesAreTheMarkets'
  BY <1>1, PricesWillBe
<1> QED BY <1>5, <1>6, <1>7 DEF Priced

-----------------------------------------------------------------------------
(* A decision.                                                               *)

(* The window that ends now is the last of them, so when the market traded   *)
(* in it, it is the one that counts, and otherwise the one before it is.     *)
LEMMA LatestIs ==
  ASSUME NEW log, NEW from \in Nat, NEW t \in Nat, t >= from, (t - from) % Step = 0
  PROVE  /\ Asked(log, t) # {} => Latest(log, Until(from, t + Step)) = t
         /\ Asked(log, t) = {} => Latest(log, Until(from, t + Step)) = Latest(log, Until(from, t))
<1>1. Until(from, t + Step) = Until(from, t) \union {t} /\ \A u \in Until(from, t) : u < t
  BY NewEnd
<1>2. PICK before : before = Until(from, t)
  OBVIOUS
<1>3. PICK after : after = Until(from, t + Step)
  OBVIOUS
<1>4. after = before \union {t} /\ \A u \in before : u < t
  BY <1>1, <1>2, <1>3
<1>5. before \subseteq Int
  BY <1>2 DEF Until
<1>6. ASSUME Asked(log, t) # {} PROVE Latest(log, after) = t
  <2>1. PICK full : full = {u \in after : Asked(log, u) # {}}
    OBVIOUS
  <2>2. t \in full /\ \A u \in full : u <= t
    BY <1>4, <1>5, <1>6, <2>1
  <2>3. \A w \in full : (\A s \in full : s <= w) => w = t
    BY <1>4, <1>5, <2>1, <2>2
  <2>4. (CHOOSE w \in full : \A s \in full : s <= w) = t
    BY <2>2, <2>3
  <2> QED BY <2>1, <2>4 DEF Latest
<1>7. ASSUME Asked(log, t) = {} PROVE Latest(log, after) = Latest(log, before)
  <2>1. {u \in after : Asked(log, u) # {}} = {u \in before : Asked(log, u) # {}}
    BY <1>4, <1>7
  <2> QED BY <2>1 DEF Latest
<1> QED BY <1>2, <1>3, <1>6, <1>7

LEMMA DecideTrading ==
  ASSUME NEW log, Trading(log), now' = now + Step, span' = span
  PROVE  Trading(log)'
<1>1. span.from \in Nat /\ now \in Nat /\ now >= span.from /\ (now - span.from) % Step = 0 /\ Step \in Nat
  BY StepAssumption DEF Trading
<1>2. (now' - span'.from) % Step = 0
  <2>1. (now + Step - span.from) % Step = 0
    BY <1>1, NewEnd
  <2>2. now' - span'.from = now + Step - span.from
    BY <1>1
  <2> QED BY <2>1, <2>2
<1>3. \A i \in DOMAIN log : log[i].ts \in Int /\ (log[i].type # "UNDEFINED" => log[i].ts <= now' - Step)
  BY <1>1 DEF Trading
<1>4. \E i \in DOMAIN log : log[i].type = "UNDEFINED" /\ log[i].ts = span'.from
  BY DEF Trading
<1>5. span'.from \in Nat /\ now' \in Nat /\ now' >= span'.from
  BY <1>1
<1> QED BY <1>2, <1>3, <1>4, <1>5 DEF Trading

\* The price of a decision that is the first to look at its window.
LEMMA DecidePrice ==
  ASSUME NEW log, log = trades[watched], Trading(log), PricesAreTheMarkets, phase = "loop",
         last' = Price(now), now' = now + Step, span' = span, UNCHANGED <<watched, crashes>>,
         Owing(log, Ends)'
  PROVE  last' = Fair(log, Ends')
<1>1. /\ span.from \in Nat /\ now \in Nat /\ now >= span.from /\ (now - span.from) % Step = 0
      /\ Step \in Nat \ {0}
  BY StepAssumption DEF Trading
<1>2. PICK ends : ends = Ends
  OBVIOUS
<1>3. PICK more : more = Ends'
  OBVIOUS
<1>4. PICK from \in Nat : from = span.from /\ from = span'.from
  BY <1>1
<1>5. /\ now \in more /\ (now # span.from => ends # {})
      /\ Asked(log, now) # {} => Latest(log, more) = now
      /\ Asked(log, now) = {} => Latest(log, more) = Latest(log, ends)
  <2>1. PICK t \in Nat : t = now
    BY <1>1
  <2>2. PICK u \in Nat : u = now' /\ u = t + Step
    BY <1>1, <2>1
  <2>3. t >= from /\ (t - from) % Step = 0
    BY <1>1, <1>4, <2>1
  <2>4. ends = Until(from, t)
    BY <1>2, <1>4, <2>1 DEF Ends, Until
  <2>5. more = Until(from, t + Step)
    <3>1. more = Until(from, u)
      BY <1>3, <1>4, <2>2 DEF Ends, Until
    <3> QED BY <2>2, <3>1
  <2>6. t \in more /\ (t # from => ends # {})
    BY <2>3, <2>4, <2>5, NewEnd
  <2>7. /\ Asked(log, t) # {} => Latest(log, more) = t
        /\ Asked(log, t) = {} => Latest(log, more) = Latest(log, ends)
    BY <2>3, <2>4, <2>5, LatestIs
  <2> QED BY <1>4, <2>1, <2>6, <2>7
<1>6. InWindow(trades[watched], now - Step, now) = Asked(log, now)
  BY WindowIsTheMarkets DEF Asked
<1>7. CASE Asked(log, now) # {}
  <2>1. ByTimestamp(watched, now - Step, now) = Asked(log, now)
    BY <1>6, <1>7 DEF ByTimestamp
  <2>2. last' = Average(Shown(log, Asked(log, now)))
    BY <1>7, <2>1 DEF Price
  <2> QED BY <1>3, <1>5, <1>7, <2>2 DEF Fair
<1>8. CASE Asked(log, now) = {}
  <2>1. watched \in Memory
    BY <1>3, <1>5, <1>8 DEF Owing
  <2>2. ByTimestamp(watched, now - Step, now) = {}
    BY <1>6, <1>8, <2>1 DEF ByTimestamp
  <2>3. last' = last
    BY <2>2 DEF Price
  <2>4. now # span.from
    <3>1. PICK i \in DOMAIN log : log[i].type = "UNDEFINED" /\ log[i].ts = span.from
      BY DEF Trading
    <3>2. i \in InWindow(log, span.from - Step, span.from)
      BY <1>1, <3>1 DEF InWindow
    <3>3. i \in Asked(log, span.from)
      BY <3>1, <3>2 DEF Asked, Market
    <3> QED BY <1>8, <3>3
  <2>5. last = Fair(log, Ends)
    BY <1>2, <1>5, <2>1, <2>4, PricesAre DEF Owing
  <2> QED BY <1>2, <1>3, <1>5, <1>8, <2>3, <2>5 DEF Fair
<1> QED BY <1>7, <1>8

LEMMA DecidePriced ==
  ASSUME Priced, Decide
  PROVE  Priced'
<1>1. /\ phase = "loop" /\ phase' = phase /\ up /\ queue = <<>>
      /\ last' = Price(now) /\ now' = now + Step
      /\ UNCHANGED <<trades, to, up, crashes, file, watched, line, span>>
  BY DEF Decide, Decides, Returned, logs
<1>2. /\ file' \in Files /\ watched' \in Histories /\ line' \in Nat /\ to' \in Histories /\ crashes' \in Nat
      /\ ~ up' => phase' = "off"
      /\ \E R : trades' \in [Histories -> Seq(R)]
  <2>1. Scene
    BY DEF Priced
  <2> QED BY <1>1, <2>1 DEF Scene
<1>3. Clean' <=> Clean
  BY <1>1 DEF Clean
<1>4. Clean => Trading(trades[watched])
  BY <1>1 DEF Priced, Watching
<1>5. Scene'
  <2>1. CASE queue' = queue
    <3>1. queue' \in Seq({}) /\ \A x \in {} : x.kind = "trade" => Feeding(x.record)'
      BY <1>1, <2>1
    <3>2. \E S : queue' \in Seq(S) /\ \A x \in S : x.kind = "trade" => Feeding(x.record)'
      BY <3>1
    <3> QED BY <1>2, <3>2 DEF Scene
  <2>2. ASSUME NEW type \in {"BUY", "SELL"}, NEW d, d = Decided(now, type, last', NaN), queue' = Effects(d)
        PROVE  Scene'
    <3>1. d.type # "UNDEFINED" /\ d.ts = now
      BY <2>2 DEF Decided
    <3>2. PICK S : /\ Effects(d) \in Seq(S)
                   /\ \A x \in S : x.kind = "trade" => x.record.type = d.type /\ x.record.ts = d.ts
      <4>1. PICK b : b = BalanceAt(d.ts)
        OBVIOUS
      <4>2. PICK S : Effects(d) \in Seq(S) /\ \A x \in S : Made(d, b, x)
        BY <4>1, EffectsMade
      <4>3. \A x \in S : x.kind = "trade" => x.record.type = d.type /\ x.record.ts = d.ts
        BY <4>2 DEF Made, Send
      <4> QED BY <4>2, <4>3
    <3>3. Clean => d.ts = now' - Step
      <4>1. Clean => now \in Nat
        BY <1>4 DEF Trading
      <4> QED BY <1>1, <3>1, <4>1, StepAssumption
    <3>4. \A x \in S : x.kind = "trade" => Feeding(x.record)'
      BY <1>1, <1>3, <3>1, <3>2, <3>3 DEF Feeding
    <3>5. \E Q : queue' \in Seq(Q) /\ \A x \in Q : x.kind = "trade" => Feeding(x.record)'
      BY <2>2, <3>2, <3>4
    <3> QED BY <1>2, <3>5 DEF Scene
  <2>3. \/ queue' = queue
        \/ \E type \in {"BUY", "SELL"} : queue' = Effects(Decided(now, type, last', NaN))
    BY DEF Decide, Decides
  <2> QED BY <2>1, <2>2, <2>3
<1>6. PICK log : log = trades[watched] /\ log = trades'[watched']
  BY <1>1
<1>7. Watching'
  <2>1. Clean => Trading(log)'
    BY <1>1, <1>4, <1>6, DecideTrading
  <2> QED BY <1>1, <1>3, <1>6, <2>1 DEF Watching, Preparing
<1>8. PricesAreTheMarkets'
  <2>1. ASSUME Owing(log, Ends)' PROVE last' = Fair(log, Ends')
    <3>1. Clean
      BY <1>1, <2>1 DEF Owing, Clean
    <3>2. Trading(log) /\ PricesAreTheMarkets
      BY <1>4, <1>6, <3>1 DEF Priced
    <3> QED BY <1>1, <1>6, <2>1, <3>2, DecidePrice
  <2>2. Owing(trades[watched], Ends)' <=> Owing(log, Ends)'
    BY <1>6 DEF Owing
  <2> QED BY <1>6, <2>1, <2>2, PricesWillBe
<1> QED BY <1>5, <1>7, <1>8 DEF Priced

LEMMA StillPriced == Priced /\ UNCHANGED allVars => Priced'
<1> SUFFICES ASSUME Priced, UNCHANGED allVars PROVE Priced'
  OBVIOUS
<1>1. UNCHANGED <<trades, queue, to, up, now, crashes, file, line, phase, watched, span, last>>
  BY DEF allVars, vars, program
<1>2. \A r : Feeding(r)' <=> Feeding(r)
  BY <1>1 DEF Feeding, Clean
<1>3. Scene'
  BY <1>1, <1>2 DEF Priced, Scene
<1>4. Watching'
  BY <1>1 DEF Priced, Watching, Clean, Untraded, Trading
<1>5. PricesAreTheMarkets'
  <2>1. PICK log : log = trades[watched] /\ log = trades'[watched']
    BY <1>1
  <2>2. Ends' = Ends
    BY <1>1 DEF Ends
  <2>3. Owing(trades[watched], Ends)' <=> Owing(log, Ends)
    BY <1>1, <2>1, <2>2 DEF Owing
  <2> QED BY <1>1, <2>1, <2>2, <2>3, PricesAre, PricesWillBe DEF Priced
<1> QED BY <1>3, <1>4, <1>5 DEF Priced

LEMMA StepPriced == Priced /\ [BacktestNext]_allVars => Priced'
<1> SUFFICES ASSUME Priced, [BacktestNext]_allVars PROVE Priced'
  OBVIOUS
<1>1. CASE \E parse \in BOOLEAN : Run(parse)
  BY <1>1, RunPriced
<1>2. CASE FeedNext
  BY <1>2, FeedPriced
<1>3. CASE ParseLine \/ ParseEnds
  BY <1>3, ParsePriced
<1>4. CASE OpenAccount
  BY <1>4, OpenPriced
<1>5. CASE ReadSpan
  BY <1>5, SpanPriced
<1>6. CASE Decide
  BY <1>6, DecidePriced
<1>7. CASE LoopEnds
  <2>1. /\ phase' = "done" /\ queue' = <<>> /\ up /\ up' = up
        /\ UNCHANGED <<trades, file, watched, crashes, to, line>>
    BY <1>7 DEF LoopEnds, Returned, vars
  <2> QED BY <2>1, Leaves
<1>8. CASE Dies
  BY <1>8, DiesPriced
<1>9. CASE Over \/ UNCHANGED allVars
  BY <1>9, StillPriced DEF Over
<1> QED BY <1>1, <1>2, <1>3, <1>4, <1>5, <1>6, <1>7, <1>8, <1>9 DEF BacktestNext

(* Wherever the program died before, and whatever its histories are: what a  *)
(* bot goes by is the price of the market, and neither its own trades nor    *)
(* those of the future count (RandomBot::decide, lines 25-29).               *)
THEOREM PricesFollowTheMarket == BacktestSpec => []PricesAreTheMarkets
<1>1. Priced => PricesAreTheMarkets
  BY DEF Priced
<1> QED BY <1>1, InitPriced, StepPriced, PTL DEF BacktestSpec

-----------------------------------------------------------------------------
(* Sums. SumFunction adds what a function has for the elements of its domain *)
(* one by one, in an order the library chooses.                              *)

\* What f, the sums of g over some sets, must be for s.
AddsOne(g, f, s) == IF s = {} THEN 0 ELSE LET x == CHOOSE x \in s : TRUE IN g[x] + f[s \ {x}]

\* It takes one more element at each step, so that some function has all the sums.
LEMMA SumsExist ==
  ASSUME NEW D, IsFiniteSet(D), NEW g \in [D -> Int]
  PROVE  \E f \in [SUBSET D -> Int] : \A s \in SUBSET D : f[s] = AddsOne(g, f, s)
<1> DEFINE Upto(f, n) == \A s \in SUBSET D : Cardinality(s) <= n => f[s] = AddsOne(g, f, s)
           Some(n) == \E f \in [SUBSET D -> Int] : Upto(f, n)
           bad == {n \in Nat : ~ Some(n)}
<1>1. \A s \in SUBSET D : IsFiniteSet(s) /\ Cardinality(s) \in Nat /\ Cardinality(s) <= Cardinality(D)
  BY FS_Subset, FS_CardinalityType
<1>2. \A s \in SUBSET D : s # {} =>
        /\ (CHOOSE x \in s : TRUE) \in s
        /\ s \ {CHOOSE x \in s : TRUE} \in SUBSET D
        /\ Cardinality(s \ {CHOOSE x \in s : TRUE}) = Cardinality(s) - 1
  <2> SUFFICES ASSUME NEW s \in SUBSET D, s # {}
               PROVE  /\ (CHOOSE x \in s : TRUE) \in s
                      /\ s \ {CHOOSE x \in s : TRUE} \in SUBSET D
                      /\ Cardinality(s \ {CHOOSE x \in s : TRUE}) = Cardinality(s) - 1
    OBVIOUS
  <2>1. PICK x : x = CHOOSE y \in s : TRUE
    OBVIOUS
  <2>2. x \in s
    BY <2>1
  <2>3. Cardinality(s \ {x}) = Cardinality(s) - 1
    BY <1>1, <2>2, FS_RemoveElement
  <2> QED BY <2>1, <2>2, <2>3
<1>3. ASSUME NEW f \in [SUBSET D -> Int], NEW s \in SUBSET D PROVE AddsOne(g, f, s) \in Int
  <2>1. CASE s = {}
    BY <2>1 DEF AddsOne
  <2>2. CASE s # {}
    <3>1. PICK x \in s : x = CHOOSE y \in s : TRUE
      BY <1>2, <2>2
    <3>2. f[s \ {x}] \in Int /\ g[x] \in Int
      BY <3>1
    <3> QED BY <2>2, <3>1, <3>2 DEF AddsOne
  <2> QED BY <2>1, <2>2
<1>4. Some(0)
  <2>1. PICK f : f = [s \in SUBSET D |-> 0]
    OBVIOUS
  <2>2. f \in [SUBSET D -> Int]
    BY <2>1
  <2>3. ASSUME NEW s \in SUBSET D, Cardinality(s) <= 0 PROVE f[s] = AddsOne(g, f, s)
    <3>1. s = {}
      BY <1>1, <2>3, FS_EmptySet
    <3> QED BY <2>1, <3>1 DEF AddsOne
  <2> QED BY <2>2, <2>3
<1>5. ASSUME NEW n \in Nat, Some(n) PROVE Some(n + 1)
  <2>1. PICK f \in [SUBSET D -> Int] : Upto(f, n)
    BY <1>5
  <2>2. PICK h : h = [s \in SUBSET D |-> IF Cardinality(s) <= n THEN f[s] ELSE AddsOne(g, f, s)]
    OBVIOUS
  <2>3. h \in [SUBSET D -> Int]
    BY <1>3, <2>2
  <2>4. ASSUME NEW s \in SUBSET D, Cardinality(s) <= n + 1 PROVE h[s] = AddsOne(g, f, s)
    <3>1. CASE Cardinality(s) <= n
      BY <2>1, <2>2, <3>1
    <3>2. CASE ~ (Cardinality(s) <= n)
      BY <2>2, <3>2
    <3> QED BY <3>1, <3>2
  <2>5. ASSUME NEW s \in SUBSET D, Cardinality(s) <= n + 1 PROVE AddsOne(g, h, s) = AddsOne(g, f, s)
    <3>1. CASE s = {}
      BY <3>1 DEF AddsOne
    <3>2. CASE s # {}
      <4>1. PICK x \in s : x = CHOOSE y \in s : TRUE
        BY <1>2, <3>2
      <4>2. s \ {x} \in SUBSET D /\ Cardinality(s \ {x}) <= n
        BY <1>1, <1>2, <2>5, <3>2, <4>1
      <4>3. h[s \ {x}] = f[s \ {x}]
        BY <2>2, <4>2
      <4> QED BY <3>2, <4>1, <4>3 DEF AddsOne
    <3> QED BY <3>1, <3>2
  <2>6. Upto(h, n + 1)
    BY <2>4, <2>5
  <2> HIDE DEF Upto
  <2> QED BY <2>3, <2>6
<1>6. \A n \in Nat : Some(n)
  <2> HIDE DEF Some
  <2>1. ASSUME bad # {} PROVE FALSE
    <3>1. PICK n \in bad : \A m \in bad : n <= m
      BY <2>1, LeastNatural
    <3>2. n # 0
      BY <1>4, <3>1
    <3>3. n - 1 \in Nat /\ n - 1 \notin bad
      BY <3>1, <3>2
    <3>4. Some(n - 1 + 1)
      BY <1>5, <3>3
    <3> QED BY <3>1, <3>4
  <2> QED BY <2>1
<1>7. PICK f \in [SUBSET D -> Int] : Upto(f, Cardinality(D))
  BY <1>1, <1>6
<1> QED BY <1>1, <1>7

\* SumFunction is what such a function has for the whole domain.
LEMMA SumIs ==
  ASSUME NEW D, IsFiniteSet(D), NEW g \in [D -> Int]
  PROVE  \E f : /\ DOMAIN f = SUBSET D /\ \A s \in SUBSET D : f[s] = AddsOne(g, f, s)
                /\ SumFunction(g) = f[D]
<1> DEFINE Is(f) == f = [s \in SUBSET D |-> IF s = {} THEN 0
                                            ELSE LET x == CHOOSE x \in s : TRUE IN g[x] + f[s \ {x}]]
<1>1. PICK f : f = CHOOSE h : Is(h)
  OBVIOUS
<1>2. SumFunction(g) = f[D]
  <2>1. DOMAIN g = D
    OBVIOUS
  <2>2. SumFunctionOnSet(g, D) = f[D]
    BY <1>1 DEF SumFunctionOnSet, FoldFunctionOnSet, MapThenFoldSet
  <2> QED BY <2>1, <2>2 DEF SumFunction
<1>3. \E h : Is(h)
  <2>1. PICK h \in [SUBSET D -> Int] : \A s \in SUBSET D : h[s] = AddsOne(g, h, s)
    BY SumsExist
  <2>2. \A s \in SUBSET D : h[s] = IF s = {} THEN 0 ELSE LET x == CHOOSE x \in s : TRUE IN g[x] + h[s \ {x}]
    BY <2>1 DEF AddsOne
  <2>3. Is(h)
    BY <2>2
  <2> HIDE DEF Is
  <2> QED BY <2>3
<1>4. Is(f)
  <2> HIDE DEF Is
  <2> QED BY <1>1, <1>3
<1>5. DOMAIN f = SUBSET D /\ \A s \in SUBSET D : f[s] = AddsOne(g, f, s)
  BY <1>4 DEF AddsOne
<1> QED BY <1>2, <1>5

LEMMA Weighed ==
  ASSUME NEW k \in Nat, NEW a \in Int, NEW b \in Int
  PROVE  k * (a + b) = k * a + k * b /\ k * a \in Int /\ k * b \in Int
  OBVIOUS

\* Weights, and values that are within bounds times the weights: so are the sums.
LEMMA SumsAreBound ==
  ASSUME NEW D, IsFiniteSet(D), NEW w \in [D -> Nat], NEW v \in [D -> Int],
         NEW low \in Nat, NEW high \in Nat, \A i \in D : low * w[i] <= v[i] /\ v[i] <= high * w[i]
  PROVE  /\ SumFunction(w) \in Nat /\ SumFunction(v) \in Int
         /\ low * SumFunction(w) <= SumFunction(v) /\ SumFunction(v) <= high * SumFunction(w)
         /\ \A i \in D : w[i] <= SumFunction(w)
<1>1. PICK f : /\ DOMAIN f = SUBSET D /\ \A s \in SUBSET D : f[s] = AddsOne(w, f, s)
               /\ SumFunction(w) = f[D]
  <2>1. w \in [D -> Int]
    OBVIOUS
  <2> QED BY <2>1, SumIs
<1>2. PICK h : /\ DOMAIN h = SUBSET D /\ \A s \in SUBSET D : h[s] = AddsOne(v, h, s)
               /\ SumFunction(v) = h[D]
  BY SumIs, Zenon
<1> DEFINE Bound(s) == /\ f[s] \in Nat /\ h[s] \in Int
                       /\ low * f[s] <= h[s] /\ h[s] <= high * f[s]
                       /\ \A i \in s : w[i] <= f[s]
           bad == {n \in Nat : \E s \in SUBSET D : Cardinality(s) = n /\ ~ Bound(s)}
<1>3. \A s \in SUBSET D : IsFiniteSet(s) /\ Cardinality(s) \in Nat
  BY FS_Subset, FS_CardinalityType
<1>4. Bound({})
  <2>1. f[{}] = 0 /\ h[{}] = 0
    BY <1>1, <1>2 DEF AddsOne
  <2>2. low * 0 = 0 /\ high * 0 = 0
    OBVIOUS
  <2> QED BY <2>1, <2>2
<1>5. ASSUME NEW s \in SUBSET D, s # {}, \A r \in SUBSET D : Cardinality(r) < Cardinality(s) => Bound(r)
      PROVE  Bound(s)
  <2>1. PICK x \in s : x = CHOOSE y \in s : TRUE
    BY <1>5
  <2>2. PICK r \in SUBSET D : r = s \ {x}
    OBVIOUS
  <2>3. Cardinality(r) < Cardinality(s)
    <3>1. Cardinality(r) = Cardinality(s) - 1
      BY <1>3, <2>1, <2>2, FS_RemoveElement
    <3> QED BY <1>3, <3>1
  <2>4. Bound(r)
    BY <1>5, <2>3
  <2>5. f[s] = w[x] + f[r] /\ h[s] = v[x] + h[r]
    BY <1>1, <1>2, <1>5, <2>1, <2>2 DEF AddsOne
  <2>6. /\ w[x] \in Nat /\ v[x] \in Int /\ low * w[x] <= v[x] /\ v[x] <= high * w[x]
        /\ \A i \in s : w[i] \in Nat
    OBVIOUS
  <2>7. f[r] \in Nat /\ h[r] \in Int /\ low * f[r] <= h[r] /\ h[r] <= high * f[r] /\ \A i \in r : w[i] <= f[r]
    BY <2>4
  <2>8. f[s] \in Nat /\ h[s] \in Int
    BY <2>5, <2>6, <2>7
  <2>9. low * f[s] = low * w[x] + low * f[r] /\ low * w[x] \in Int /\ low * f[r] \in Int
    BY <2>5, <2>6, <2>7, Weighed
  <2>10. high * f[s] = high * w[x] + high * f[r] /\ high * w[x] \in Int /\ high * f[r] \in Int
    BY <2>5, <2>6, <2>7, Weighed
  <2>11. low * f[s] <= h[s]
    BY <2>5, <2>6, <2>7, <2>9
  <2>12. h[s] <= high * f[s]
    BY <2>5, <2>6, <2>7, <2>10
  <2>13. \A i \in s : w[i] <= f[s]
    <3> TAKE i \in s
    <3>1. CASE i = x
      BY <2>5, <2>6, <2>7, <3>1
    <3>2. CASE i # x
      <4>1. w[i] <= f[r] /\ w[i] \in Nat
        BY <2>2, <2>6, <2>7, <3>2
      <4> QED BY <2>5, <2>6, <2>7, <4>1
    <3> QED BY <3>1, <3>2
  <2> QED BY <2>8, <2>11, <2>12, <2>13
<1> HIDE DEF Bound
<1>6. \A s \in SUBSET D : Bound(s)
  <2>1. ASSUME bad # {} PROVE FALSE
    <3>1. PICK n \in bad : \A m \in bad : n <= m
      BY <2>1, LeastNatural
    <3>2. PICK s \in SUBSET D : Cardinality(s) = n /\ ~ Bound(s)
      BY <3>1
    <3>3. s # {}
      BY <1>4, <3>2
    <3>4. ASSUME NEW r \in SUBSET D, Cardinality(r) < Cardinality(s) PROVE Bound(r)
      <4>1. Cardinality(r) \in Nat /\ n \in Nat
        BY <1>3, <3>1
      <4>2. Cardinality(r) \notin bad
        BY <3>1, <3>2, <3>4, <4>1
      <4> QED BY <4>1, <4>2
    <3> QED BY <1>5, <3>2, <3>3, <3>4
  <2> QED BY <1>3, <2>1
<1>7. Bound(D)
  BY <1>6
<1> QED BY <1>1, <1>2, <1>7 DEF Bound

-----------------------------------------------------------------------------
(* Averages.                                                                 *)

LEMMA Within ==
  ASSUME NEW w \in Nat, NEW low \in Nat, NEW high \in Nat, NEW p \in low .. high
  PROVE  w * p \in Int /\ low * w <= w * p /\ w * p <= high * w
<1>1. \A a, b \in Nat : a * b \in Nat
  OBVIOUS
<1>2. p - low \in Nat /\ high - p \in Nat /\ p \in Nat
  OBVIOUS
<1>3. w * (p - low) >= 0 /\ w * (high - p) >= 0
  BY <1>1, <1>2
<1>4. w * (p - low) = w * p - low * w /\ w * (high - p) = high * w - w * p
  BY <1>2
<1>5. w * p \in Int /\ low * w \in Int /\ high * w \in Int
  BY <1>1, <1>2
<1> QED BY <1>3, <1>4, <1>5

LEMMA QuotientWithin ==
  ASSUME NEW w \in Nat \ {0}, NEW v \in Int, NEW low \in Nat, NEW high \in Nat,
         low * w <= v, v <= high * w
  PROVE  v \div w \in low .. high
<1>1. PICK q \in Int : q = v \div w
  BY Products
<1>2. PICK r \in Int : v = w * q + r /\ 0 <= r /\ r < w
  <2>1. v % w \in 0 .. w - 1 /\ v = (w * (v \div w)) + (v % w)
    OBVIOUS
  <2> QED BY <1>1, <2>1
<1>3. \A a, b \in Nat : a * b >= 0 /\ a * b \in Nat
  OBVIOUS
<1>4. low <= q
  <2>1. ASSUME q + 1 <= low PROVE FALSE
    <3>1. low - (q + 1) \in Nat
      BY <2>1
    <3>2. w * (low - (q + 1)) >= 0 /\ w * (low - (q + 1)) = low * w - w * q - w
      BY <1>3, <3>1
    <3>3. w * q \in Int /\ low * w \in Int
      OBVIOUS
    <3> QED BY <1>2, <3>2, <3>3
  <2> QED BY <2>1
<1>5. q <= high
  <2>1. ASSUME q >= high + 1 PROVE FALSE
    <3>1. q - (high + 1) \in Nat
      BY <2>1
    <3>2. w * (q - (high + 1)) >= 0 /\ w * (q - (high + 1)) = w * q - high * w - w
      BY <1>3, <3>1
    <3>3. w * q \in Int /\ high * w \in Int
      OBVIOUS
    <3> QED BY <1>2, <3>2, <3>3
  <2> QED BY <2>1
<1> QED BY <1>1, <1>4, <1>5

\* A trade counts for something on one side at least.
Sane(r) == r.type \in Kinds \union {"UNDEFINED"} /\ r.volume \in Nat \ {0}

LEMMA OneSide ==
  ASSUME NEW D, IsFiniteSet(D), NEW seen, DOMAIN seen = D, NEW side \in Kinds,
         NEW low \in Nat, NEW high \in Nat, \A i \in D : Sane(seen[i]) /\ seen[i].price \in low .. high
  PROVE  /\ Volume(seen, side) \in Nat /\ Value(seen, side) \in Int
         /\ low * Volume(seen, side) <= Value(seen, side) /\ Value(seen, side) <= high * Volume(seen, side)
         /\ \A i \in D : seen[i].type \in {side, "UNDEFINED"} => Volume(seen, side) >= 1
<1>1. PICK w : w = Volumes(seen, side)
  OBVIOUS
<1>2. PICK v : v = Values(seen, side)
  OBVIOUS
<1>3. ASSUME NEW i \in D
      PROVE  /\ Halves(seen[i], side) * seen[i].volume \in Nat
             /\ seen[i].type \in {side, "UNDEFINED"} => Halves(seen[i], side) * seen[i].volume >= 1
  <2>1. Halves(seen[i], side) \in {0, 1, 2} /\ (seen[i].type \in {side, "UNDEFINED"} => Halves(seen[i], side) \in {1, 2})
    BY DEF Halves
  <2>2. PICK k \in Nat \ {0} : k = seen[i].volume
    BY DEF Sane
  <2>3. 0 * k = 0 /\ 1 * k = k /\ 2 * k = k + k
    OBVIOUS
  <2> QED BY <2>1, <2>2, <2>3
<1>4. w = [i \in D |-> Halves(seen[i], side) * seen[i].volume]
  BY <1>1 DEF Volumes
<1>5. w \in [D -> Nat]
  BY <1>3, <1>4
<1>6. v = [i \in D |-> w[i] * seen[i].price]
  BY <1>1, <1>2 DEF Values
<1>7. ASSUME NEW i \in D PROVE v[i] \in Int /\ low * w[i] <= v[i] /\ v[i] <= high * w[i]
  <2>1. w[i] \in Nat /\ v[i] = w[i] * seen[i].price
    BY <1>5, <1>6
  <2> QED BY <2>1, Within
<1>8. v \in [D -> Int]
  BY <1>6, <1>7
<1>9. /\ SumFunction(w) \in Nat /\ SumFunction(v) \in Int
      /\ low * SumFunction(w) <= SumFunction(v) /\ SumFunction(v) <= high * SumFunction(w)
      /\ \A i \in D : w[i] <= SumFunction(w)
  BY <1>5, <1>7, <1>8, SumsAreBound
<1>10. Volume(seen, side) = SumFunction(w) /\ Value(seen, side) = SumFunction(v)
  BY <1>1, <1>2 DEF Volume, Value
<1>11. ASSUME NEW i \in D, seen[i].type \in {side, "UNDEFINED"} PROVE SumFunction(w) >= 1
  <2>1. w[i] \in Nat /\ w[i] >= 1
    BY <1>3, <1>4, <1>5, <1>11
  <2> QED BY <1>9, <2>1
<1> QED BY <1>9, <1>10, <1>11

\* An average lies between the prices it is of.
LEMMA AverageIs ==
  ASSUME NEW D, D # {}, IsFiniteSet(D), NEW seen, DOMAIN seen = D,
         NEW low \in Nat, NEW high \in Nat, \A i \in D : Sane(seen[i]) /\ seen[i].price \in low .. high
  PROVE  Average(seen) \in low .. high
<1>1. PICK wb \in Nat, ws \in Nat, vb \in Int, vs \in Int :
        /\ wb = Volume(seen, "BUY") /\ ws = Volume(seen, "SELL")
        /\ vb = Value(seen, "BUY") /\ vs = Value(seen, "SELL")
  BY OneSide DEF Kinds
<1>2. low * wb <= vb /\ vb <= high * wb /\ low * ws <= vs /\ vs <= high * ws
  BY <1>1, OneSide DEF Kinds
<1>3. wb >= 1 \/ ws >= 1
  <2>1. PICK i \in D : TRUE
    OBVIOUS
  <2>2. seen[i].type \in {"BUY", "UNDEFINED"} \/ seen[i].type \in {"SELL", "UNDEFINED"}
    BY DEF Sane, Kinds
  <2> QED BY <1>1, <2>2, OneSide DEF Kinds
<1>4. PICK w \in Nat \ {0} : w = wb + ws
  BY <1>3
<1>5. PICK v \in Int : v = vb + vs
  OBVIOUS
<1>6. low * w <= v /\ v <= high * w
  <2>1. low * w = low * wb + low * ws /\ low * wb \in Int /\ low * ws \in Int
    BY <1>4, Weighed
  <2>2. high * w = high * wb + high * ws /\ high * wb \in Int /\ high * ws \in Int
    BY <1>4, Weighed
  <2>3. low * w <= v
    BY <1>2, <1>5, <2>1
  <2>4. v <= high * w
    BY <1>2, <1>5, <2>2
  <2> QED BY <2>3, <2>4
<1>7. v \div w \in low .. high
  BY <1>6, QuotientWithin
<1>8. Average(seen) = v \div w
  BY <1>1, <1>4, <1>5 DEF Average
<1> QED BY <1>7, <1>8

-----------------------------------------------------------------------------
(* The prices of the file.                                                   *)

Known == {file[n].price : n \in DOMAIN file}
Ranged(p) == \E low, high \in Known : p \in low .. high

\* Of the first numbers of a sequence, one is the least, and one the greatest.
LEMMA Extremes ==
  ASSUME NEW s \in Seq(Nat), s # <<>>
  PROVE  \E low, high \in DOMAIN s : \A i \in DOMAIN s : s[i] \in s[low] .. s[high]
<1> DEFINE Has(m) == \E low, high \in 1 .. m : \A i \in 1 .. m : s[low] <= s[i] /\ s[i] <= s[high]
           bad == {m \in Nat : m \in 1 .. Len(s) /\ ~ Has(m)}
<1>1. Len(s) \in Nat /\ DOMAIN s = 1 .. Len(s) /\ Len(s) # 0 /\ \A i \in 1 .. Len(s) : s[i] \in Nat
  OBVIOUS
<1>2. Has(1)
  BY <1>1
<1>3. ASSUME NEW m \in Nat \ {0}, m + 1 <= Len(s), Has(m) PROVE Has(m + 1)
  <2>1. PICK low, high \in 1 .. m : \A i \in 1 .. m : s[low] <= s[i] /\ s[i] <= s[high]
    BY <1>3
  <2>2. /\ s[m + 1] \in Nat /\ s[low] \in Nat /\ s[high] \in Nat
        /\ \A i \in 1 .. m : s[i] \in Nat
        /\ \A i \in 1 .. m + 1 : i \in 1 .. m \/ i = m + 1
    BY <1>1, <1>3
  <2>3. PICK least \in 1 .. m + 1 : s[least] <= s[low] /\ s[least] <= s[m + 1] /\ s[least] \in Nat
    <3>1. CASE s[low] <= s[m + 1]
      BY <2>2, <3>1
    <3>2. CASE ~ (s[low] <= s[m + 1])
      <4>1. s[m + 1] <= s[low] /\ s[m + 1] <= s[m + 1]
        BY <2>2, <3>2
      <4>2. m + 1 \in 1 .. m + 1
        OBVIOUS
      <4> QED BY <2>2, <4>1, <4>2, Zenon
    <3> QED BY <3>1, <3>2
  <2>4. PICK most \in 1 .. m + 1 : s[high] <= s[most] /\ s[m + 1] <= s[most] /\ s[most] \in Nat
    <3>1. CASE s[m + 1] <= s[high]
      BY <2>2, <3>1
    <3>2. CASE ~ (s[m + 1] <= s[high])
      <4>1. s[high] <= s[m + 1] /\ s[m + 1] <= s[m + 1]
        BY <2>2, <3>2
      <4>2. m + 1 \in 1 .. m + 1
        OBVIOUS
      <4> QED BY <2>2, <4>1, <4>2, Zenon
    <3> QED BY <3>1, <3>2
  <2>5. \A i \in 1 .. m + 1 : s[least] <= s[i] /\ s[i] <= s[most]
    <3> TAKE i \in 1 .. m + 1
    <3>1. CASE i = m + 1
      BY <2>3, <2>4, <3>1, Zenon
    <3>2. CASE i \in 1 .. m
      <4>1. s[low] <= s[i] /\ s[i] <= s[high] /\ s[i] \in Nat
        BY <2>1, <2>2, <3>2
      <4>2. \A a, b, c \in Nat : a <= b /\ b <= c => a <= c
        OBVIOUS
      <4>3. s[least] <= s[i]
        BY <2>2, <2>3, <4>1, <4>2, Zenon
      <4>4. s[i] <= s[most]
        BY <2>2, <2>4, <4>1, <4>2, Zenon
      <4> QED BY <4>3, <4>4
    <3> QED BY <2>2, <3>1, <3>2
  <2> QED BY <2>5
<1>4. Has(Len(s))
  <2> HIDE DEF Has
  <2>1. ASSUME bad # {} PROVE FALSE
    <3>1. PICK m \in bad : \A k \in bad : m <= k
      BY <2>1, LeastNatural
    <3>2. m # 1 /\ m - 1 \in Nat \ {0} /\ m - 1 \in 1 .. Len(s) /\ m - 1 \notin bad
      BY <1>1, <1>2, <3>1
    <3>3. Has(m - 1 + 1)
      BY <1>1, <1>3, <3>1, <3>2
    <3> QED BY <3>1, <3>3
  <2> QED BY <1>1, <2>1
<1>5. PICK low, high \in DOMAIN s : \A i \in DOMAIN s : s[low] <= s[i] /\ s[i] <= s[high]
  BY <1>1, <1>4
<1>6. \A i \in DOMAIN s : s[i] \in Nat
  BY <1>1
<1>7. \A i \in DOMAIN s : s[i] \in s[low] .. s[high]
  BY <1>5, <1>6
<1> QED BY <1>7

\* One price of the file is the least, and one the greatest.
LEMMA KnownIs ==
  ASSUME file \in Seq(Line)
  PROVE  /\ Known \subseteq Nat \ {0}
         /\ Known # {} => \E low, high \in Known : \A p : Ranged(p) <=> p \in low .. high
<1>1. \A n \in DOMAIN file : file[n].price \in Nat \ {0}
  <2>1. \A n \in DOMAIN file : file[n] \in Line
    OBVIOUS
  <2> QED BY <2>1, PricesAssumption DEF Line
<1>2. ASSUME Known # {} PROVE \E low, high \in Known : \A p : Ranged(p) <=> p \in low .. high
  <2>1. PICK s : s = [n \in DOMAIN file |-> file[n].price]
    OBVIOUS
  <2>2. s \in Seq(Nat) /\ DOMAIN s = DOMAIN file
    <3>1. Len(file) \in Nat /\ DOMAIN file = 1 .. Len(file)
      OBVIOUS
    <3>2. s \in [1 .. Len(file) -> Nat]
      BY <1>1, <2>1, <3>1
    <3> QED BY <2>1, <3>1, <3>2
  <2>3. s # <<>>
    BY <1>2, <2>2 DEF Known
  <2>4. PICK low, high \in DOMAIN s : \A i \in DOMAIN s : s[i] \in s[low] .. s[high]
    BY <2>2, <2>3, Extremes
  <2>5. Known = {s[n] : n \in DOMAIN s}
    BY <2>1 DEF Known
  <2>6. PICK a, b \in Known : a = s[low] /\ b = s[high] /\ \A k \in Known : k \in a .. b
    BY <2>4, <2>5
  <2>7. Known \subseteq Nat
    BY <1>1 DEF Known
  <2>8. ASSUME NEW p, Ranged(p) PROVE p \in a .. b
    <3>1. PICK c, d \in Known : p \in c .. d
      BY <2>8 DEF Ranged
    <3>2. a \in Nat /\ b \in Nat /\ c \in Nat /\ d \in Nat /\ a <= c /\ d <= b
      BY <2>6, <2>7
    <3> QED BY <3>1, <3>2
  <2>9. \A p : p \in a .. b => Ranged(p)
    BY DEF Ranged
  <2> QED BY <2>8, <2>9
<1> QED BY <1>1, <1>2 DEF Known

-----------------------------------------------------------------------------
(* Prices that stay in range. It takes all that a simulation does: a trade   *)
(* of the bot is at its price, which is an average of trades, those of the   *)
(* bot too; that its volume is a number takes a balance, and one can be read *)
(* only after init() has fed it and, from a memory, at the time of the last  *)
(* change or later.                                                          *)

Deal(r) ==
  /\ r.type \in Kinds \union {"UNDEFINED"}
  /\ r.ts \in Nat \ {0} /\ r.volume \in Nat \ {0}
  /\ Ranged(r.price)

\* The time of the last decision, or else of init().
Spent == IF phase = "loop" /\ now # span.from THEN now - Step ELSE 0
Early == phase \in {"off", "parse", "open"}

Payable(x) ==
  /\ x.kind = "trade" => Deal(x.record)
  /\ x.kind = "change" =>
       /\ x.record \in Change /\ x.record.ts = Spent /\ ~ Early
       /\ x.record.origin = "INIT" => x.record.after = Owner!Opened

Staged ==
  /\ BacktestTypeOK
  /\ to \in Histories /\ (queue = <<>> => to = First)
  /\ ~ up => queue = <<>> /\ phase = "off"
Dealt  == \E R : trades \in [Histories -> Seq(R)] /\ \A x \in R : Deal(x)
Billed == /\ changes \in [Histories -> Seq(Change)]
          /\ \E S : queue \in Seq(S) /\ \A x \in S : Payable(x)

Looped ==
  /\ span.from \in Nat \ {0} /\ span.to \in Nat /\ now \in Nat /\ now >= span.from
  /\ \E i \in DOMAIN trades[watched] : trades[watched][i].ts = span.from
  /\ now # span.from => last # NaN
  /\ last # NaN => Ranged(last)

\* The history that is read has what init() fed it, and a memory no more than
\* this run has.
Open == (phase = "span" /\ (queue # Opening \/ to # First)) \/ phase = "loop"
Funded ==
  /\ Open => changes[First] # <<>>
  /\ First \in Memory /\ phase # "done" =>
       /\ Sorted(changes[First]) /\ UpTo(changes[First], Spent)
       /\ Early => changes[First] = <<>>

Sound == Staged /\ Dealt /\ Billed /\ (phase = "loop" => Looped) /\ Funded

\* What the trade and the change of a bot's decision are.
LEMMA MadeIs ==
  ASSUME NEW d, d.type \in Kinds, d.ts \in Nat \ {0}, d.price \in Nat \ {0}, Ranged(d.price),
         d.amount = NaN, NEW b \in Money, NEW x, Made(d, b, x)
  PROVE  /\ x.kind = "trade" => Deal(x.record) /\ x.record.type \in Kinds
         /\ x.kind = "change" =>
              /\ x.record \in Change /\ x.record.ts = d.ts /\ x.record.origin = "TRADE"
              /\ Bought(b, x.record.after) \/ Sold(b, x.record.after)
<1>1. SUFFICES ASSUME x.kind \in {"trade", "change"}
               PROVE  /\ x.kind = "trade" => Deal(x.record) /\ x.record.type \in Kinds
                      /\ x.kind = "change" =>
                           /\ x.record \in Change /\ x.record.ts = d.ts /\ x.record.origin = "TRADE"
                           /\ Bought(b, x.record.after) \/ Sold(b, x.record.after)
  OBVIOUS
<1>2. PICK amount : amount = Amount(d, b)
  OBVIOUS
<1>3. Valid(amount, d.price, b)
  BY <1>1, <1>2 DEF Made
<1>4. amount \in Nat \ {0}
  <2>1. amount \in Int
    BY <1>2, AmountIs
  <2> QED BY <1>3, <2>1 DEF Valid
<1>5. ASSUME x.kind = "trade" PROVE Deal(x.record) /\ x.record.type \in Kinds
  <2>1. PICK r : r = [ts |-> d.ts, decision |-> d.id, type |-> d.type, volume |-> amount, price |-> d.price]
    OBVIOUS
  <2>2. x.record = r
    BY <1>2, <1>5, <2>1 DEF Made, Send
  <2>3. r.ts = d.ts /\ r.type = d.type /\ r.volume = amount /\ r.price = d.price
    BY <2>1
  <2> QED BY <1>4, <2>2, <2>3 DEF Deal
<1>6. ASSUME x.kind = "change"
      PROVE  /\ x.record \in Change /\ x.record.ts = d.ts /\ x.record.origin = "TRADE"
             /\ Bought(b, x.record.after) \/ Sold(b, x.record.after)
  <2>1. PICK delta : delta = Delta(d.type, amount, d.price)
    OBVIOUS
  <2>2. delta \in Money /\ Plus(b, delta) \in Money
    BY <1>4, <2>1, MoneyMoves
  <2>3. PICK after \in Money : after = Plus(b, delta)
    BY <2>2
  <2>4. PICK r : r = [ts |-> d.ts, origin |-> "TRADE", delta |-> delta, after |-> after]
    OBVIOUS
  <2>5. x.record = r
    BY <1>2, <1>6, <2>1, <2>3, <2>4 DEF Made
  <2>6. r \in Change /\ r.ts = d.ts /\ r.origin = "TRADE" /\ r.after = after
    BY <2>2, <2>4 DEF Change
  <2>7. Bought(b, after) \/ Sold(b, after)
    BY <1>2, <1>3, <2>1, <2>3, Covered
  <2> QED BY <2>5, <2>6, <2>7
<1> QED BY <1>5, <1>6

LEMMA SoundPrices == Sound => PricesStayInRange
<1> SUFFICES ASSUME Sound PROVE PricesStayInRange
  OBVIOUS
<1>1. ASSUME phase = "loop", Ends # {} PROVE last # NaN
  <2>1. now \in Nat /\ span.from \in Nat /\ (now # span.from => last # NaN)
    BY <1>1 DEF Sound, Looped
  <2>2. PICK u \in span.from .. now - Step : TRUE
    BY <1>1 DEF Ends
  <2> QED BY <2>1, <2>2, StepAssumption
<1>2. ASSUME NEW h \in Histories, NEW i \in DOMAIN trades[h]
      PROVE  \E low, high \in Known : trades[h][i].price \in low .. high
  <2>1. PICK R : trades \in [Histories -> Seq(R)] /\ \A x \in R : Deal(x)
    BY DEF Sound, Dealt
  <2>2. trades[h][i] \in R
    BY <2>1
  <2> QED BY <2>1, <2>2 DEF Deal, Ranged
<1> QED BY <1>1, <1>2 DEF PricesStayInRange, Known

\* The deals, and what is to be fed, of a program that has the same file and
\* is at the same point.
LEMMA SameDeals ==
  ASSUME file' = file
  PROVE  \A r : (Deal(r)' <=> Deal(r)) /\ (Ranged(r)' <=> Ranged(r))
  BY DEF Deal, Ranged, Known

LEMMA SameBills ==
  ASSUME UNCHANGED <<file, phase, now, span>>
  PROVE  (\A x : Payable(x)' <=> Payable(x)) /\ Spent' = Spent /\ (Early' <=> Early)
<1>1. Spent' = Spent /\ (Early' <=> Early)
  BY DEF Spent, Early
<1>2. \A r : Deal(r)' <=> Deal(r)
  BY SameDeals
<1> QED BY <1>1, <1>2 DEF Payable

LEMMA DealtStays ==
  ASSUME Sound, trades' = trades, file' = file
  PROVE  Dealt'
<1>1. PICK R : trades \in [Histories -> Seq(R)] /\ \A x \in R : Deal(x)
  BY DEF Sound, Dealt
<1>2. \A x \in R : Deal(x)'
  BY <1>1, SameDeals
<1> QED BY <1>1, <1>2 DEF Dealt

LEMMA NothingToFeed ==
  ASSUME changes' \in [Histories -> Seq(Change)], queue' = <<>>
  PROVE  Billed'
<1>1. queue' \in Seq({}) /\ \A x \in {} : Payable(x)'
  OBVIOUS
<1>2. \E S : queue' \in Seq(S) /\ \A x \in S : Payable(x)'
  BY <1>1
<1> QED BY <1>2 DEF Billed

LEMMA InitSound == BacktestInit => Sound
<1> SUFFICES ASSUME BacktestInit PROVE Sound
  OBVIOUS
<1>1. /\ trades = Nothing /\ changes = Nothing /\ queue = <<>> /\ to = First /\ ~ up /\ now = 1
      /\ file \in Files /\ watched \in Histories /\ line = 0 /\ phase = "off" /\ span = NoSpan /\ last = NaN
  BY DEF BacktestInit, Init
<1>2. Staged
  <2>1. span \in [from : Times, to : Times] /\ now \in Times
    BY <1>1 DEF NoSpan, Times
  <2>2. line \in 0 .. Len(file)
    BY <1>1, FilesAssumption
  <2> QED BY <1>1, <2>1, <2>2, FirstIs DEF Staged, BacktestTypeOK
<1>3. Dealt
  <2>1. trades \in [Histories -> Seq({})] /\ \A x \in {} : Deal(x)
    BY <1>1 DEF Nothing
  <2> QED BY <2>1 DEF Dealt
<1>4. Billed
  <2>1. changes \in [Histories -> Seq(Change)]
    BY <1>1 DEF Nothing
  <2>2. queue \in Seq({}) /\ \A x \in {} : Payable(x)
    BY <1>1
  <2>3. \E S : queue \in Seq(S) /\ \A x \in S : Payable(x)
    BY <2>2
  <2> QED BY <2>1, <2>3 DEF Billed
<1>5. Funded
  <2>1. changes[First] = <<>>
    BY <1>1, FirstIs DEF Nothing
  <2>2. Sorted(<<>>) /\ \A t : UpTo(<<>>, t)
    BY DEF Sorted, UpTo
  <2>3. ~ Open
    BY <1>1 DEF Open
  <2> QED BY <2>1, <2>2, <2>3 DEF Funded
<1> QED BY <1>1, <1>2, <1>3, <1>4, <1>5 DEF Sound

\* A step before init() that feeds no change.
LEMMA EarlyFunded ==
  ASSUME Sound, Early, Early', changes' = changes
  PROVE  Funded' /\ phase' # "loop"
<1>1. Spent' = 0 /\ Spent = 0 /\ ~ Open' /\ phase # "done" /\ phase' # "done" /\ phase' # "loop"
  BY DEF Early, Spent, Open
<1>2. First \in Memory => Sorted(changes[First]) /\ UpTo(changes[First], 0) /\ changes[First] = <<>>
  BY <1>1 DEF Sound, Funded
<1>3. Sorted(changes[First])' <=> Sorted(changes[First])
  BY DEF Sorted
<1>4. UpTo(changes[First], Spent)' <=> UpTo(changes[First], 0)
  BY <1>1 DEF UpTo
<1> QED BY <1>1, <1>2, <1>3, <1>4 DEF Funded

LEMMA RunSound ==
  ASSUME Sound, NEW parse \in BOOLEAN, Run(parse)
  PROVE  Sound'
<1>1. /\ phase = "off" /\ phase' \in {"parse", "open"} /\ up' = TRUE /\ line' = 0 /\ queue = <<>>
      /\ UNCHANGED <<trades, changes, queue, to, now, file, watched, span, last>>
  BY DEF Sound, Staged, Run, logs
<1>2. BacktestTypeOK /\ to \in Histories /\ to = First /\ changes \in [Histories -> Seq(Change)]
  BY <1>1 DEF Sound, Staged, Billed
<1>3. Staged'
  <2>1. line' \in 0 .. Len(file)'
    BY <1>1, <1>2, FilesAssumption DEF BacktestTypeOK
  <2>2. BacktestTypeOK'
    BY <1>1, <1>2, <2>1 DEF BacktestTypeOK
  <2> QED BY <1>1, <1>2, <2>2 DEF Staged
<1>4. Early /\ Early'
  BY <1>1 DEF Early
<1> QED BY <1>1, <1>2, <1>3, <1>4, DealtStays, NothingToFeed, EarlyFunded DEF Sound

LEMMA ParseSound ==
  ASSUME Sound, ParseLine \/ ParseEnds
  PROVE  Sound'
<1>1. /\ phase = "parse" /\ phase' \in {"parse", "open"} /\ up /\ up' = up /\ queue = <<>>
      /\ UNCHANGED <<trades, changes, to, now, file, watched, span, last>>
  BY DEF ParseLine, ParseEnds, Returned, logs, vars
<1>2. BacktestTypeOK /\ to \in Histories /\ to = First /\ changes \in [Histories -> Seq(Change)]
  BY <1>1 DEF Sound, Staged, Billed
<1>3. line \in 0 .. Len(file) /\ file \in Seq(Line)
  BY <1>2, FilesAssumption DEF BacktestTypeOK
<1>4. Early /\ Early'
  BY <1>1 DEF Early
<1>5. ASSUME line' \in 0 .. Len(file) PROVE Staged'
  <2>1. BacktestTypeOK'
    BY <1>1, <1>2, <1>5 DEF BacktestTypeOK
  <2> QED BY <1>1, <1>2, <2>1 DEF Staged
<1>6. CASE ParseLine
  <2>1. line' = line + 1 /\ line' \in 1 .. Len(file)
    BY <1>3, <1>6 DEF ParseLine
  <2>2. PICK l \in Line : l = file[line']
    BY <1>3, <2>1
  <2>3. PICK r : r = [ts |-> l.ts, decision |-> 0, type |-> "UNDEFINED", volume |-> l.volume,
                      price |-> l.price]
    OBVIOUS
  <2>4. PICK x : x = [kind |-> "trade", record |-> r]
    OBVIOUS
  <2>5. Deal(r)
    <3>1. l.price \in Known
      BY <1>3, <2>1, <2>2 DEF Known
    <3>2. l.price \in Nat /\ l.ts \in Nat \ {0} /\ l.volume \in Nat \ {0}
      BY <2>2, PricesAssumption DEF Line
    <3>3. Ranged(l.price)
      BY <3>1, <3>2 DEF Ranged
    <3> QED BY <2>3, <3>2, <3>3 DEF Deal
  <2>6. Payable(x)'
    <3>1. Deal(r)'
      BY <1>1, <2>5, SameDeals
    <3>2. x.kind = "trade" /\ x.record = r
      BY <2>4
    <3> QED BY <3>1, <3>2 DEF Payable
  <2>7. queue' = <<x>>
    BY <1>6, <2>2, <2>3, <2>4 DEF ParseLine, Item
  <2>8. queue' \in Seq({x}) /\ queue' # <<>>
    BY <2>7
  <2>9. Billed'
    <3>1. \E S : queue' \in Seq(S) /\ \A y \in S : Payable(y)'
      BY <2>6, <2>8
    <3> QED BY <1>1, <1>2, <3>1 DEF Billed
  <2>10. Staged'
    BY <1>5, <2>1
  <2> QED BY <1>1, <1>4, <2>9, <2>10, DealtStays, EarlyFunded DEF Sound
<1>7. CASE ParseEnds
  <2>1. line' = line /\ queue' = <<>>
    BY <1>1, <1>7 DEF ParseEnds, vars
  <2>2. Staged' /\ Billed'
    BY <1>1, <1>2, <1>3, <1>5, <2>1, NothingToFeed
  <2> QED BY <1>1, <1>4, <2>2, DealtStays, EarlyFunded DEF Sound
<1> QED BY <1>6, <1>7

LEMMA OpenSound ==
  ASSUME Sound, OpenAccount
  PROVE  Sound'
<1>1. /\ phase = "open" /\ phase' = "span" /\ up /\ up' = up /\ queue = <<>> /\ queue' = Opening
      /\ UNCHANGED <<trades, changes, to, now, file, watched, line, span, last>>
  BY DEF OpenAccount, Returned, logs
<1>2. BacktestTypeOK /\ to \in Histories /\ to = First /\ changes \in [Histories -> Seq(Change)]
  BY <1>1 DEF Sound, Staged, Billed
<1>3. Staged'
  <2>1. BacktestTypeOK'
    BY <1>1, <1>2 DEF BacktestTypeOK
  <2> QED BY <1>1, <1>2, <2>1 DEF Staged
<1>4. PICK x : x = Opening[1]
  OBVIOUS
<1>5. PICK r : r = [ts |-> 0, origin |-> "INIT",
                    delta |-> [liquidity |-> 0, stock |-> 0, commission |-> 0],
                    after |-> [liquidity |-> Funds, stock |-> 0, commission |-> 0]]
  OBVIOUS
<1>6. x.kind = "change" /\ x.record = r /\ Opening \in Seq({x})
  <2>1. PICK y : y = [kind |-> "change", record |-> r]
    OBVIOUS
  <2>2. Opening = <<y>>
    BY <1>5, <2>1 DEF Opening, Item
  <2> QED BY <1>4, <2>1, <2>2
<1>7. r \in Change /\ r.ts = 0 /\ r.after = Owner!Opened
  BY <1>5, MoneyAssumption DEF Change, Money, Owner!Opened
<1>8. Spent' = 0 /\ ~ Early' /\ Spent = 0 /\ Early
  BY <1>1 DEF Spent, Early
<1>9. Payable(x)'
  BY <1>6, <1>7, <1>8 DEF Payable
<1>10. Billed'
  <2>1. \E S : queue' \in Seq(S) /\ \A y \in S : Payable(y)'
    BY <1>1, <1>6, <1>9
  <2> QED BY <1>1, <1>2, <2>1 DEF Billed
<1>11. Funded'
  <2>1. ~ Open'
    BY <1>1, <1>2 DEF Open
  <2>2. First \in Memory => Sorted(changes[First]) /\ UpTo(changes[First], 0)
    BY <1>1, <1>8 DEF Sound, Funded
  <2>3. (Sorted(changes[First])' <=> Sorted(changes[First]))
        /\ (UpTo(changes[First], Spent)' <=> UpTo(changes[First], 0))
    BY <1>1, <1>8 DEF Sorted, UpTo
  <2> QED BY <1>8, <2>1, <2>2, <2>3 DEF Funded
<1> QED BY <1>1, <1>3, <1>10, <1>11, DealtStays DEF Sound

\* The first and the last time of a log are times of it.
LEMMA TimeSpanIs ==
  ASSUME NEW R, NEW log \in Seq(R), \A r \in R : r.ts \in Nat \ {0}
  PROVE  \/ log = <<>> /\ TimeSpan(log) = NoSpan
         \/ \E from, end \in Nat \ {0} :
              /\ TimeSpan(log) = [from |-> from, to |-> end]
              /\ \E i \in DOMAIN log : log[i].ts = from
<1> DEFINE times == {log[i].ts : i \in DOMAIN log}
<1>1. CASE log = <<>>
  <2>1. times = {}
    BY <1>1
  <2> QED BY <1>1, <2>1 DEF TimeSpan
<1>2. CASE log # <<>>
  <2>1. \A i \in DOMAIN log : log[i].ts \in Nat \ {0}
    <3>1. \A i \in DOMAIN log : log[i] \in R
      OBVIOUS
    <3> QED BY <3>1
  <2>2. PICK s : s = [i \in DOMAIN log |-> log[i].ts]
    OBVIOUS
  <2>3. s \in Seq(Nat) /\ DOMAIN s = DOMAIN log /\ s # <<>>
    <3>1. Len(log) \in Nat /\ DOMAIN log = 1 .. Len(log) /\ Len(log) # 0
      BY <1>2
    <3>2. s \in [1 .. Len(log) -> Nat]
      BY <2>1, <2>2, <3>1
    <3> QED BY <2>2, <3>1, <3>2
  <2>4. PICK low, high \in DOMAIN s : \A i \in DOMAIN s : s[i] \in s[low] .. s[high]
    BY <2>3, Extremes
  <2>5. /\ s[low] \in times /\ s[high] \in times /\ times \subseteq Nat \ {0}
        /\ \A t \in times : s[low] <= t /\ t <= s[high]
    BY <2>1, <2>2, <2>3, <2>4
  <2>6. PICK from : from = CHOOSE t \in times : \A u \in times : t <= u
    OBVIOUS
  <2>7. PICK end : end = CHOOSE t \in times : \A u \in times : u <= t
    OBVIOUS
  <2>8. TimeSpan(log) = [from |-> from, to |-> end]
    <3>1. times # {}
      BY <2>5
    <3> QED BY <2>6, <2>7, <3>1, Zenon DEF TimeSpan
  <2> HIDE DEF times
  <2>9. from \in times
    BY <2>5, <2>6
  <2>10. end \in times
    BY <2>5, <2>7
  <2>11. \E i \in DOMAIN log : log[i].ts = from
    BY <2>9 DEF times
  <2> QED BY <2>5, <2>8, <2>9, <2>10, <2>11
<1> QED BY <1>1, <1>2

LEMMA SpanSound ==
  ASSUME Sound, ReadSpan
  PROVE  Sound'
<1>1. /\ phase = "span" /\ up /\ up' = up /\ queue = <<>> /\ queue' = queue
      /\ span' = TimeSpan(trades[watched]) /\ now' = span'.from /\ last' = NaN
      /\ phase' = IF span' = NoSpan THEN "done" ELSE "loop"
      /\ UNCHANGED <<trades, changes, to, file, watched, line>>
  BY DEF ReadSpan, Returned, logs
<1>2. /\ BacktestTypeOK /\ to \in Histories /\ to = First /\ changes \in [Histories -> Seq(Change)]
      /\ watched \in Histories
  BY <1>1 DEF Sound, Staged, Billed, BacktestTypeOK
<1>3. PICK R : trades \in [Histories -> Seq(R)] /\ \A x \in R : Deal(x)
  BY DEF Sound, Dealt
<1>4. PICK log \in Seq(R) : log = trades[watched] /\ log = trades'[watched']
  BY <1>1, <1>2, <1>3
<1>5. \/ log = <<>> /\ span' = NoSpan
      \/ \E from, end \in Nat \ {0} :
           span' = [from |-> from, to |-> end] /\ \E i \in DOMAIN log : log[i].ts = from
  <2>1. \A r \in R : r.ts \in Nat \ {0}
    BY <1>3 DEF Deal
  <2> QED BY <1>1, <1>4, <2>1, TimeSpanIs
<1>6. /\ span' \in [from : Times, to : Times] /\ now' \in Times
      /\ phase' = "loop" => Looped'
      /\ phase' = "done" \/ (phase' = "loop" /\ span'.from = now')
  <2>1. CASE span' = NoSpan
    BY <1>1, <2>1 DEF NoSpan, Times
  <2>2. ASSUME NEW from \in Nat \ {0}, NEW end \in Nat \ {0},
               span' = [from |-> from, to |-> end], \E i \in DOMAIN log : log[i].ts = from
        PROVE  /\ span' \in [from : Times, to : Times] /\ now' \in Times
               /\ phase' = "loop" => Looped'
               /\ phase' = "done" \/ (phase' = "loop" /\ span'.from = now')
    <3>1. span'.from = from /\ span'.to = end /\ now' = from
      BY <1>1, <2>2
    <3>2. \E i \in DOMAIN trades'[watched'] : trades'[watched'][i].ts = span'.from
      BY <1>4, <2>2, <3>1
    <3>3. Looped'
      BY <1>1, <3>1, <3>2 DEF Looped
    <3>4. span' \in [from : Times, to : Times]
      BY <2>2 DEF Times
    <3> QED BY <1>1, <3>1, <3>3, <3>4 DEF Times
  <2> QED BY <1>5, <2>1, <2>2
<1>7. Staged'
  <2>1. BacktestTypeOK'
    <3>1. phase' \in {"off", "parse", "open", "span", "loop", "done"}
      BY <1>6
    <3> QED BY <1>1, <1>2, <1>6, <3>1 DEF BacktestTypeOK
  <2> QED BY <1>1, <1>2, <2>1 DEF Staged
<1>8. Dealt' /\ Billed'
  BY <1>1, <1>2, DealtStays, NothingToFeed
<1>9. Funded'
  <2>1. changes[First] # <<>>
    <3>1. queue # Opening
      BY <1>1, OpeningIs
    <3> QED BY <1>1, <3>1 DEF Sound, Funded, Open
  <2>2. Spent' = 0 /\ Spent = 0 /\ ~ Early'
    <3>1. Spent' = 0
      BY <1>6 DEF Spent
    <3> QED BY <1>1, <1>6, <3>1 DEF Spent, Early
  <2>3. First \in Memory => Sorted(changes[First]) /\ UpTo(changes[First], 0)
    BY <1>1, <2>2 DEF Sound, Funded
  <2>4. (Sorted(changes[First])' <=> Sorted(changes[First]))
        /\ (UpTo(changes[First], Spent)' <=> UpTo(changes[First], 0))
    BY <1>1, <2>2 DEF Sorted, UpTo
  <2> QED BY <1>1, <2>1, <2>2, <2>3, <2>4 DEF Funded
<1> QED BY <1>6, <1>7, <1>8, <1>9 DEF Sound

\* What FeedNext does to the logs.
LEMMA FeedsOn ==
  ASSUME Sound, FeedNext
  PROVE  /\ queue # <<>> /\ up
         /\ UNCHANGED <<up, now, file, watched, line, phase, span, last>>
         /\ \E S : /\ queue \in Seq(S) /\ queue' \in Seq(S) /\ \A x \in S : Payable(x)
                   /\ Head(queue) \in S
         /\ \A h \in Histories :
              /\ trades'[h] = IF h = to /\ Head(queue).kind = "trade"
                              THEN Append(trades[h], Head(queue).record) ELSE trades[h]
              /\ changes'[h] = IF h = to /\ Head(queue).kind = "change"
                               THEN Append(changes[h], Head(queue).record) ELSE changes[h]
         /\ Dealt' /\ changes' \in [Histories -> Seq(Change)] /\ to' \in Histories
<1>1. /\ FeedOne /\ queue # <<>>
      /\ UNCHANGED <<up, now, file, watched, line, phase, span, last>>
  BY DEF FeedNext, FeedOne, program
<1>2. up /\ to \in Histories
  BY <1>1 DEF Sound, Staged
<1>3. PICK S : queue \in Seq(S) /\ \A x \in S : Payable(x)
  BY DEF Sound, Billed
<1>4. PICK x \in S : x = Head(queue)
  BY <1>1, <1>3, TailIs
<1>5. queue' \in Seq(S)
  <2>1. Tail(queue) \in Seq(S)
    BY <1>1, <1>3, TailIs
  <2> QED BY <1>1, <1>3, <2>1 DEF FeedOne
<1>6. PICK R : trades \in [Histories -> Seq(R)] /\ \A r \in R : Deal(r)
  BY DEF Sound, Dealt
<1>7. changes \in [Histories -> Seq(Change)]
  BY DEF Sound, Billed
<1>8. trades' = IF x.kind = "trade" THEN [trades EXCEPT ![to] = Append(trades[to], x.record)] ELSE trades
  BY <1>1, <1>4 DEF FeedOne, Fed
<1>9. changes' = IF x.kind = "change" THEN [changes EXCEPT ![to] = Append(changes[to], x.record)] ELSE changes
  BY <1>1, <1>4 DEF FeedOne, Fed
<1>10. Dealt'
  <2>1. CASE x.kind = "trade"
    <3>1. PICK T : T = R \union {x.record}
      OBVIOUS
    <3>2. trades \in [Histories -> Seq(T)] /\ x.record \in T
      BY <1>6, <3>1
    <3>3. Append(trades[to], x.record) \in Seq(T)
      BY <1>2, <3>2
    <3>4. trades' \in [Histories -> Seq(T)]
      BY <1>8, <2>1, <3>2, <3>3
    <3>5. \A r \in T : Deal(r)
      BY <1>3, <1>4, <1>6, <2>1, <3>1 DEF Payable
    <3>6. \A r \in T : Deal(r)'
      BY <1>1, <3>5, SameDeals
    <3> QED BY <3>4, <3>6 DEF Dealt
  <2>2. CASE x.kind # "trade"
    BY <1>1, <1>8, <2>2, DealtStays
  <2> QED BY <2>1, <2>2
<1>11. changes' \in [Histories -> Seq(Change)]
  <2>1. CASE x.kind = "change"
    <3>1. x.record \in Change
      BY <1>3, <1>4, <2>1 DEF Payable
    <3>2. Append(changes[to], x.record) \in Seq(Change)
      BY <1>2, <1>7, <3>1
    <3> QED BY <1>7, <1>9, <2>1, <3>2
  <2> QED BY <1>7, <1>9, <2>1
<1>12. to' \in Histories
  BY <1>1, <1>2, TurnIs
<1>13. ASSUME NEW h \in Histories
       PROVE  trades'[h] = IF h = to /\ x.kind = "trade" THEN Append(trades[h], x.record) ELSE trades[h]
  BY <1>2, <1>6, <1>8
<1>14. ASSUME NEW h \in Histories
       PROVE  changes'[h] = IF h = to /\ x.kind = "change" THEN Append(changes[h], x.record) ELSE changes[h]
  BY <1>2, <1>7, <1>9
<1> QED BY <1>1, <1>2, <1>3, <1>4, <1>5, <1>10, <1>11, <1>12, <1>13, <1>14

LEMMA FeedSound ==
  ASSUME Sound, FeedNext
  PROVE  Sound'
<1>1. queue # <<>> /\ up /\ UNCHANGED <<up, now, file, watched, line, phase, span, last>>
  BY FeedsOn
<1>2. PICK S : queue \in Seq(S) /\ queue' \in Seq(S) /\ (\A y \in S : Payable(y)) /\ Head(queue) \in S
  BY FeedsOn
<1>3. PICK x \in S : x = Head(queue)
  BY <1>2
<1>4. Dealt' /\ changes' \in [Histories -> Seq(Change)] /\ to' \in Histories
  BY FeedsOn
<1>5. \A h \in Histories :
        /\ trades'[h] = IF h = to /\ x.kind = "trade" THEN Append(trades[h], x.record) ELSE trades[h]
        /\ changes'[h] = IF h = to /\ x.kind = "change" THEN Append(changes[h], x.record) ELSE changes[h]
  BY <1>3, FeedsOn
<1>6. Billed'
  <2>1. \A y \in S : Payable(y)'
    BY <1>1, <1>2, SameBills
  <2>2. \E T : queue' \in Seq(T) /\ \A y \in T : Payable(y)'
    BY <1>2, <2>1
  <2> QED BY <1>4, <2>2 DEF Billed
<1>7. FeedOne /\ to \in Histories
  BY DEF FeedNext, Sound, Staged
<1>8. Staged'
  <2>1. BacktestTypeOK'
    BY <1>1 DEF Sound, Staged, BacktestTypeOK
  <2>2. queue' = <<>> => to' = First
    BY <1>1, <1>7 DEF FeedOne
  <2> QED BY <1>1, <1>4, <2>1, <2>2 DEF Staged
<1>9. phase' = "loop" => Looped'
  <2> SUFFICES ASSUME phase = "loop" PROVE Looped'
    BY <1>1
  <2>1. Looped /\ watched \in Histories
    BY DEF Sound, Staged, BacktestTypeOK
  <2>2. PICK R : trades \in [Histories -> Seq(R)]
    BY DEF Sound, Dealt
  <2>3. PICK log \in Seq(R) : log = trades[watched]
    BY <2>1, <2>2
  <2>4. PICK more : more = trades'[watched]
    OBVIOUS
  <2>5. \A i \in DOMAIN log : i \in DOMAIN more /\ more[i] = log[i]
    <3>1. CASE more = log
      BY <3>1
    <3>2. CASE more = Append(log, x.record)
      <4>1. PICK T : T = R \union {x.record}
        OBVIOUS
      <4>2. log \in Seq(T) /\ x.record \in T
        BY <4>1
      <4> QED BY <3>2, <4>2, AppendIs
    <3> QED BY <1>5, <2>1, <2>3, <2>4, <3>1, <3>2
  <2>6. \E i \in DOMAIN more : more[i].ts = span.from
    BY <2>1, <2>3, <2>5 DEF Looped
  <2>7. \E i \in DOMAIN trades'[watched'] : trades'[watched'][i].ts = span'.from
    BY <1>1, <2>4, <2>6
  <2>8. Ranged(last)' <=> Ranged(last)
    BY <1>1 DEF Ranged, Known
  <2> QED BY <1>1, <2>1, <2>7, <2>8 DEF Looped
<1>10. Funded'
  <2>1. PICK f \in Histories : f = First
    BY FirstIs
  <2>2. PICK log \in Seq(Change) : log = changes[f]
    BY <2>1 DEF Sound, Billed
  <2>3. Spent' = Spent /\ (Early' <=> Early)
    BY <1>1, SameBills
  <2>4. CASE f = to /\ x.kind = "change"
    <3>1. PICK more : more = Append(log, x.record)
      OBVIOUS
    <3>2. changes'[f] = more
      BY <1>5, <2>2, <2>4, <3>1
    <3>3. x.record \in Change /\ x.record.ts = Spent /\ ~ Early
      BY <1>2, <2>4 DEF Payable
    <3>4. more # <<>>
      BY <2>2, <3>1, <3>3, AppendIs
    <3>5. First \in Memory /\ phase # "done" => Sorted(more) /\ UpTo(more, Spent)
      <4> SUFFICES ASSUME First \in Memory, phase # "done" PROVE Sorted(more) /\ UpTo(more, Spent)
        OBVIOUS
      <4>1. Sorted(log) /\ UpTo(log, Spent)
        BY <2>1, <2>2 DEF Sound, Funded
      <4>2. Spent \in Nat
        BY <3>3 DEF Change
      <4> QED BY <3>1, <3>3, <4>1, <4>2, SortedGrows
    <3>6. (Sorted(changes[First])' <=> Sorted(more)) /\ (UpTo(changes[First], Spent)' <=> UpTo(more, Spent))
      BY <2>1, <2>3, <3>2 DEF Sorted, UpTo
    <3> QED BY <1>1, <2>1, <2>3, <3>2, <3>3, <3>4, <3>5, <3>6 DEF Funded
  <2>5. CASE ~ (f = to /\ x.kind = "change")
    <3>1. changes'[f] = log
      BY <1>5, <2>2, <2>5
    <3>2. (Sorted(changes[First])' <=> Sorted(log)) /\ (UpTo(changes[First], Spent)' <=> UpTo(log, Spent))
      BY <2>1, <2>3, <3>1 DEF Sorted, UpTo
    <3>3. Open' => log # <<>>
      <4>1. CASE queue = Opening /\ to = First
        <5>1. x.kind = "change"
          BY <1>3, <4>1, OpeningIs, HeadChange DEF Shaped
        <5> QED BY <2>1, <2>5, <4>1, <5>1
      <4>2. CASE ~ (queue = Opening /\ to = First)
        <5>1. Open' => Open
          BY <1>1, <4>2 DEF Open
        <5> QED BY <2>1, <2>2, <5>1 DEF Sound, Funded
      <4> QED BY <4>1, <4>2
    <3> QED BY <1>1, <2>1, <2>2, <2>3, <3>1, <3>2, <3>3 DEF Sound, Funded
  <2> QED BY <2>4, <2>5
<1> QED BY <1>4, <1>6, <1>8, <1>9, <1>10 DEF Sound

LEMMA Answered ==
  ASSUME NEW log, log = trades[watched], NEW b, NEW t
  PROVE  /\ ByTimestamp(watched, b, t) \subseteq DOMAIN log
         /\ InWindow(log, b, t) \subseteq ByTimestamp(watched, b, t)
<1>1. InWindow(log, b, t) \subseteq DOMAIN log /\ FirstBeyond(log, t) \subseteq DOMAIN log
  BY DEF InWindow, FirstBeyond
<1> QED BY <1>1 DEF ByTimestamp

\* A decision has a price: there is a trade in its window, or there was one in
\* that of the first decision.
LEMMA PriceSound ==
  ASSUME Sound, phase = "loop"
  PROVE  Price(now) # NaN /\ Ranged(Price(now)) /\ Price(now) \in Nat \ {0}
<1>1. file \in Seq(Line) /\ watched \in Histories /\ Looped
  BY FilesAssumption DEF Sound, Staged, BacktestTypeOK
<1>2. PICK R : trades \in [Histories -> Seq(R)] /\ \A r \in R : Deal(r)
  BY DEF Sound, Dealt
<1>3. PICK log \in Seq(R) : log = trades[watched]
  BY <1>1, <1>2
<1>4. PICK asked : asked = ByTimestamp(watched, now - Step, now)
  OBVIOUS
<1>5. asked \subseteq DOMAIN log /\ InWindow(log, now - Step, now) \subseteq asked
  BY <1>3, <1>4, Answered
<1>6. CASE asked # {}
  <2>1. \A i \in DOMAIN log : Deal(log[i])
    BY <1>2, <1>3
  <2>2. Known # {}
    BY <1>5, <1>6, <2>1 DEF Deal, Ranged
  <2>3. PICK low, high \in Known : \A p : Ranged(p) <=> p \in low .. high
    BY <1>1, <2>2, KnownIs
  <2>4. low \in Nat \ {0} /\ high \in Nat
    BY <1>1, KnownIs
  <2>5. IsFiniteSet(asked)
    <3>1. Len(log) \in Nat /\ DOMAIN log = 1 .. Len(log)
      BY <1>3
    <3>2. IsFiniteSet(1 .. Len(log))
      BY <3>1, FS_Interval
    <3> QED BY <1>5, <3>1, <3>2, FS_Subset
  <2>6. PICK seen : seen = Shown(log, asked)
    OBVIOUS
  <2>7. DOMAIN seen = asked /\ \A i \in asked : seen[i] = log[i]
    BY <2>6 DEF Shown
  <2>8. \A i \in asked : Sane(seen[i]) /\ seen[i].price \in low .. high
    BY <1>5, <2>1, <2>3, <2>7 DEF Sane, Deal
  <2>9. Average(seen) \in low .. high
    BY <1>6, <2>4, <2>5, <2>7, <2>8, AverageIs
  <2>10. Price(now) = Average(seen)
    BY <1>3, <1>4, <1>6, <2>6 DEF Price
  <2> QED BY <2>3, <2>4, <2>9, <2>10 DEF NaN
<1>7. CASE asked = {}
  <2>1. Price(now) = last
    BY <1>4, <1>7 DEF Price
  <2>2. now # span.from
    <3>1. PICK i \in DOMAIN log : log[i].ts = span.from
      BY <1>1, <1>3 DEF Looped
    <3>2. ASSUME now = span.from PROVE i \in InWindow(log, now - Step, now)
      <4>1. log[i].ts > now - Step /\ log[i].ts <= now
        BY <1>1, <3>1, <3>2, StepAssumption DEF Looped
      <4> QED BY <4>1 DEF InWindow
    <3> QED BY <1>5, <1>7, <3>2
  <2>3. last # NaN /\ Ranged(last)
    BY <1>1, <2>2 DEF Looped
  <2>4. last \in Nat \ {0}
    <3>1. PICK low, high \in Known : last \in low .. high
      BY <2>3 DEF Ranged
    <3>2. low \in Nat \ {0} /\ high \in Nat
      BY <1>1, KnownIs
    <3> QED BY <3>1, <3>2
  <2> QED BY <2>1, <2>3, <2>4
<1> QED BY <1>6, <1>7

\* The balance of a decision can be read, and is the last one.
LEMMA BalanceSound ==
  ASSUME Sound, phase = "loop"
  PROVE  /\ changes[First] \in Seq(Change) /\ changes[First] # <<>>
         /\ BalanceAt(now) \in Money
         /\ BalanceAt(now) = changes[First][Len(changes[First])].after
         /\ now \in Nat \ {0} /\ now >= span.from /\ span.from \in Nat
         /\ First \in Memory => Sorted(changes[First]) /\ UpTo(changes[First], now)
<1>1. span.from \in Nat \ {0} /\ now \in Nat \ {0} /\ now >= span.from
  BY DEF Sound, Looped
<1>2. changes \in [Histories -> Seq(Change)]
  BY DEF Sound, Billed
<1>3. PICK log \in Seq(Change) : log = changes[First]
  BY <1>2, FirstIs
<1>4. log # <<>>
  BY <1>3 DEF Sound, Funded, Open
<1>5. ASSUME First \in Memory
      PROVE  Sorted(log) /\ UpTo(log, now) /\ Cardinality(AtTime(log, now)) <= 1
  <2>1. Sorted(log) /\ UpTo(log, Spent)
    BY <1>3, <1>5 DEF Sound, Funded
  <2>2. Spent \in Int /\ Spent < now
    BY <1>1, StepAssumption DEF Spent
  <2>3. \A i \in DOMAIN log : log[i].ts \in Nat /\ log[i].ts < now
    <3>1. \A i \in DOMAIN log : log[i] \in Change
      OBVIOUS
    <3>2. \A i \in DOMAIN log : log[i].ts \in Nat /\ log[i].ts <= Spent
      BY <2>1, <3>1 DEF Change, UpTo
    <3> QED BY <1>1, <2>2, <3>2
  <2>4. UpTo(log, now)
    BY <1>1, <2>3 DEF UpTo
  <2>5. AtTime(log, now) = {}
    BY <1>1, <2>3 DEF AtTime
  <2> QED BY <2>1, <2>4, <2>5, FS_EmptySet
<1>6. /\ BalanceAt(now) \in Money
      /\ BalanceAt(now) = log[Len(log)].after
  BY <1>1, <1>3, <1>4, <1>5, BalanceIs
<1> QED BY <1>1, <1>3, <1>4, <1>5, <1>6

\* What a decision feeds.
LEMMA Deciding ==
  ASSUME Sound, Decide
  PROVE  \/ queue' = <<>>
         \/ \E S, q : /\ queue' = q /\ q \in Seq(S) /\ Lone(q)
                      /\ \A x \in S :
                           /\ x.kind = "trade" => Deal(x.record) /\ x.record.type \in Kinds
                           /\ x.kind = "change" =>
                                /\ x.record \in Change /\ x.record.ts = now /\ x.record.origin = "TRADE"
                                /\ \/ Bought(BalanceAt(now), x.record.after)
                                   \/ Sold(BalanceAt(now), x.record.after)
<1>1. phase = "loop" /\ queue = <<>> /\ last' = Price(now)
      /\ \/ queue' = queue
         \/ \E type \in {"BUY", "SELL"} : queue' = Effects(Decided(now, type, last', NaN))
  BY DEF Decide, Decides, Returned
<1>2. PICK price \in Nat \ {0} : price = last' /\ Ranged(price)
  BY <1>1, PriceSound
<1>3. PICK b \in Money : b = BalanceAt(now)
  BY <1>1, BalanceSound
<1>4. now \in Nat \ {0}
  BY <1>1, BalanceSound
<1>5. ASSUME NEW type \in {"BUY", "SELL"}, queue' = Effects(Decided(now, type, last', NaN))
      PROVE  \E S, q : /\ queue' = q /\ q \in Seq(S) /\ Lone(q)
                       /\ \A x \in S :
                            /\ x.kind = "trade" => Deal(x.record) /\ x.record.type \in Kinds
                            /\ x.kind = "change" =>
                                 /\ x.record \in Change /\ x.record.ts = now /\ x.record.origin = "TRADE"
                                 /\ Bought(b, x.record.after) \/ Sold(b, x.record.after)
  <2>1. PICK d : d = Decided(now, type, price, NaN)
    OBVIOUS
  <2>2. d.ts = now /\ d.type = type /\ d.price = price /\ d.amount = NaN
    BY <2>1 DEF Decided
  <2>3. PICK q : q = Effects(d)
    OBVIOUS
  <2>4. queue' = q
    BY <1>2, <1>5, <2>1, <2>3
  <2>5. b = BalanceAt(d.ts)
    BY <1>3, <2>2
  <2>6. (\E S : q \in Seq(S) /\ \A x \in S : Made(d, b, x)) /\ Lone(q)
    BY <2>3, <2>5, EffectsMade
  <2>7. PICK S : q \in Seq(S) /\ \A x \in S : Made(d, b, x)
    BY <2>6
  <2>8. ASSUME NEW x \in S
        PROVE  /\ x.kind = "trade" => Deal(x.record) /\ x.record.type \in Kinds
               /\ x.kind = "change" =>
                    /\ x.record \in Change /\ x.record.ts = now /\ x.record.origin = "TRADE"
                    /\ Bought(b, x.record.after) \/ Sold(b, x.record.after)
    <3>1. d.type \in Kinds /\ d.ts \in Nat \ {0} /\ d.price \in Nat \ {0} /\ Ranged(d.price)
      BY <1>2, <1>4, <2>2 DEF Kinds
    <3> QED BY <2>2, <2>7, <3>1, MadeIs
  <2> QED BY <2>4, <2>6, <2>7, <2>8
<1> QED BY <1>1, <1>3, <1>5

LEMMA DecideSound ==
  ASSUME Sound, Decide
  PROVE  Sound'
<1>1. /\ phase = "loop" /\ phase' = phase /\ up /\ queue = <<>>
      /\ last' = Price(now) /\ now' = now + Step
      /\ UNCHANGED <<trades, changes, to, up, file, watched, line, span>>
  BY DEF Decide, Decides, Returned, logs
<1>2. BacktestTypeOK /\ to \in Histories /\ to = First /\ changes \in [Histories -> Seq(Change)] /\ Looped
  BY <1>1 DEF Sound, Staged, Billed
<1>3. last' # NaN /\ Ranged(last') /\ last' \in Nat \ {0}
  BY <1>1, PriceSound
<1>4. /\ now \in Nat \ {0} /\ now >= span.from /\ span.from \in Nat /\ now' \in Nat /\ now' > now
  BY <1>1, BalanceSound, StepAssumption
<1>5. Staged'
  <2>1. now' \in Times /\ last' \in Nat \union {NaN}
    BY <1>3, <1>4 DEF Times
  <2>2. BacktestTypeOK'
    BY <1>1, <1>2, <2>1 DEF BacktestTypeOK
  <2> QED BY <1>1, <1>2, <2>2 DEF Staged
<1>6. Dealt'
  BY <1>1, DealtStays
<1>7. Spent' = now /\ ~ Early'
  <2>1. now' # span'.from /\ now' - Step = now
    BY <1>1, <1>4, StepAssumption
  <2> QED BY <1>1, <2>1 DEF Spent, Early
<1>8. Billed'
  <2>1. ASSUME NEW S, NEW q, queue' = q, q \in Seq(S),
               \A x \in S :
                 /\ x.kind = "trade" => Deal(x.record)
                 /\ x.kind = "change" => x.record \in Change /\ x.record.ts = now /\ x.record.origin = "TRADE"
        PROVE  Billed'
    <3>1. \A x \in S : x.kind = "trade" => Deal(x.record)'
      BY <1>1, <2>1, SameDeals
    <3>2. \A x \in S : Payable(x)'
      BY <1>7, <2>1, <3>1 DEF Payable
    <3>3. \E T : queue' \in Seq(T) /\ \A x \in T : Payable(x)'
      BY <2>1, <3>2
    <3> QED BY <1>1, <1>2, <3>3 DEF Billed
  <2>2. CASE queue' = <<>>
    BY <1>1, <1>2, <2>2, NothingToFeed
  <2> QED BY <2>1, <2>2, Deciding
<1>9. Looped'
  <2>1. \E i \in DOMAIN trades'[watched'] : trades'[watched'][i].ts = span'.from
    BY <1>1, <1>2 DEF Looped
  <2>2. Ranged(last)'
    <3>1. PICK p : p = last'
      OBVIOUS
    <3>2. \E low, high \in Known' : p \in low .. high
      BY <1>1, <1>3, <3>1 DEF Ranged, Known
    <3> QED BY <3>1, <3>2 DEF Ranged
  <2>3. now' >= span'.from
    BY <1>1, <1>4
  <2> QED BY <1>1, <1>2, <1>3, <1>4, <2>1, <2>2, <2>3 DEF Looped
<1>10. Funded'
  <2>1. /\ changes[First] # <<>>
        /\ First \in Memory => Sorted(changes[First]) /\ UpTo(changes[First], now)
    BY <1>1, BalanceSound
  <2>2. (Sorted(changes[First])' <=> Sorted(changes[First]))
        /\ (UpTo(changes[First], Spent)' <=> UpTo(changes[First], now))
    BY <1>1, <1>7 DEF Sorted, UpTo
  <2> QED BY <1>1, <1>7, <2>1, <2>2 DEF Funded
<1> QED BY <1>5, <1>6, <1>8, <1>9, <1>10 DEF Sound

\* A step out of the loop, or that changes nothing, with nothing to feed.
LEMMA EndSound ==
  ASSUME Sound, LoopEnds
  PROVE  Sound'
<1>1. /\ phase = "loop" /\ phase' = "done" /\ up /\ up' = up /\ queue = <<>> /\ queue' = queue
      /\ UNCHANGED <<trades, changes, to, now, file, watched, line, span, last>>
  BY DEF LoopEnds, Returned, vars
<1>2. BacktestTypeOK /\ to \in Histories /\ to = First /\ changes \in [Histories -> Seq(Change)]
  BY <1>1 DEF Sound, Staged, Billed
<1>3. Staged'
  <2>1. BacktestTypeOK'
    BY <1>1, <1>2 DEF BacktestTypeOK
  <2> QED BY <1>1, <1>2, <2>1 DEF Staged
<1>4. Funded'
  BY <1>1 DEF Funded, Open
<1> QED BY <1>1, <1>2, <1>3, <1>4, DealtStays, NothingToFeed DEF Sound

LEMMA DiesSound ==
  ASSUME Sound, Dies
  PROVE  Sound'
<1>1. /\ ~ up' /\ phase' = "off" /\ queue' = <<>> /\ to' = First /\ line' = 0
      /\ span' = NoSpan /\ last' = NaN
      /\ trades' = Surviving(trades) /\ changes' = Surviving(changes)
      /\ UNCHANGED <<file, watched, now>>
  BY DEF Dies, Crash
<1>2. BacktestTypeOK /\ changes \in [Histories -> Seq(Change)]
  BY DEF Sound, Staged, Billed
<1>3. Staged'
  <2>1. span' \in [from : Times, to : Times] /\ line' \in 0 .. Len(file)
    BY <1>1, <1>2, FilesAssumption DEF NoSpan, Times, BacktestTypeOK
  <2>2. BacktestTypeOK'
    BY <1>1, <1>2, <2>1 DEF BacktestTypeOK
  <2> QED BY <1>1, <2>2, FirstIs DEF Staged
<1>4. Dealt'
  <2>1. PICK R : trades \in [Histories -> Seq(R)] /\ \A x \in R : Deal(x)
    BY DEF Sound, Dealt
  <2>2. trades' \in [Histories -> Seq(R)]
    BY <1>1, <2>1 DEF Surviving
  <2>3. \A x \in R : Deal(x)'
    BY <1>1, <2>1, SameDeals
  <2> QED BY <2>2, <2>3 DEF Dealt
<1>5. changes' \in [Histories -> Seq(Change)]
  BY <1>1, <1>2 DEF Surviving
<1>6. Funded'
  <2>1. First \in Memory => changes'[First] = <<>>
    BY <1>1, FirstIs DEF Surviving
  <2>2. Sorted(<<>>) /\ \A t : UpTo(<<>>, t)
    BY DEF Sorted, UpTo
  <2>3. First \in Memory => Sorted(changes[First])' /\ UpTo(changes[First], Spent)'
    BY <2>1, <2>2 DEF Sorted, UpTo
  <2>4. ~ Open'
    BY <1>1 DEF Open
  <2> QED BY <2>1, <2>3, <2>4 DEF Funded
<1> QED BY <1>1, <1>3, <1>4, <1>5, <1>6, NothingToFeed DEF Sound

LEMMA StillSound ==
  ASSUME Sound, UNCHANGED allVars
  PROVE  Sound'
<1>1. UNCHANGED <<trades, changes, queue, to, up, now, file, line, phase, watched, span, last>>
  BY DEF allVars, vars, program
<1>2. Staged'
  BY <1>1 DEF Sound, Staged, BacktestTypeOK
<1>3. Billed'
  <2>1. PICK S : queue \in Seq(S) /\ \A x \in S : Payable(x)
    BY DEF Sound, Billed
  <2>2. \A x \in S : Payable(x)'
    BY <1>1, <2>1, SameBills
  <2>3. \E T : queue' \in Seq(T) /\ \A x \in T : Payable(x)'
    BY <1>1, <2>1, <2>2
  <2> QED BY <1>1, <2>3 DEF Sound, Billed
<1>4. phase' = "loop" => Looped'
  <2>1. Ranged(last)' <=> Ranged(last)
    BY <1>1 DEF Ranged, Known
  <2> QED BY <1>1, <2>1 DEF Sound, Looped
<1>5. Funded'
  <2>1. Spent' = Spent /\ (Early' <=> Early) /\ (Open' <=> Open)
    BY <1>1 DEF Spent, Early, Open
  <2>2. (Sorted(changes[First])' <=> Sorted(changes[First]))
        /\ (UpTo(changes[First], Spent)' <=> UpTo(changes[First], Spent))
    BY <1>1, <2>1 DEF Sorted, UpTo
  <2> QED BY <1>1, <2>1, <2>2 DEF Sound, Funded
<1> QED BY <1>1, <1>2, <1>3, <1>4, <1>5, DealtStays DEF Sound

LEMMA StepSound == Sound /\ [BacktestNext]_allVars => Sound'
<1> SUFFICES ASSUME Sound, [BacktestNext]_allVars PROVE Sound'
  OBVIOUS
<1>1. CASE \E parse \in BOOLEAN : Run(parse)
  BY <1>1, RunSound
<1>2. CASE FeedNext
  BY <1>2, FeedSound
<1>3. CASE ParseLine \/ ParseEnds
  BY <1>3, ParseSound
<1>4. CASE OpenAccount
  BY <1>4, OpenSound
<1>5. CASE ReadSpan
  BY <1>5, SpanSound
<1>6. CASE Decide
  BY <1>6, DecideSound
<1>7. CASE LoopEnds
  BY <1>7, EndSound
<1>8. CASE Dies
  BY <1>8, DiesSound
<1>9. CASE Over \/ UNCHANGED allVars
  BY <1>9, StillSound DEF Over
<1> QED BY <1>1, <1>2, <1>3, <1>4, <1>5, <1>6, <1>7, <1>8, <1>9 DEF BacktestNext

\* Every variable of a simulation holds a value the program can give it.
THEOREM SimulationsAreTyped == BacktestSpec => []BacktestTypeOK
<1>1. Sound => BacktestTypeOK
  BY DEF Sound, Staged
<1> QED BY <1>1, InitSound, StepSound, PTL DEF BacktestSpec

(* Whatever the file, the histories and the points where the program died: a *)
(* decision has a price, and no trade is made at one that the file does not  *)
(* hold between its least and its greatest (RandomBot::decide).              *)
THEOREM PricesAreKeptInRange == BacktestSpec => []PricesStayInRange
<1> QED BY InitSound, StepSound, SoundPrices, PTL DEF BacktestSpec

-----------------------------------------------------------------------------
(* The account of a simulation. A bot leaves its amounts to the broker, and  *)
(* its decisions are Step apart, so that nothing has to be asked of it.      *)

Paying == Honest /\ Lone(queue)

\* What is fed to nobody, or is no change of the balance, is no concern.
LEMMA NoChange ==
  ASSUME NEW q, \A i \in DOMAIN q : ~ (q[i].kind = "change" /\ q[i].record.origin = "TRADE")
  PROVE  \A log : WillMove(log, q)
  BY DEF WillMove

LEMMA FirstOwed ==
  ASSUME to = First
  PROVE  Owed(First) = queue
<1>1. ~ (First < First)
  BY FirstIs, HistoriesAssumption
<1> QED BY <1>1 DEF Owed

LEMMA FirstWillBeOwed ==
  ASSUME to' = First
  PROVE  Owed(First)' = queue'
<1>1. ~ (First < First)
  BY FirstIs, HistoriesAssumption
<1> QED BY <1>1 DEF Owed

LEMMA Unpaid ==
  ASSUME to' = First, NEW q, queue' = q, \A i \in DOMAIN q : q[i].kind # "change"
  PROVE  Paying'
<1>1. Owed(First)' = q
  BY FirstWillBeOwed
<1>2. WillMove(changes[First], Owed(First))'
  BY <1>1 DEF WillMove
<1> QED BY <1>2 DEF Paying, Honest, Lone

LEMMA FeedPaying ==
  ASSUME Sound, Paying, FeedNext
  PROVE  Paying'
<1>1. FeedOne /\ to \in Histories /\ queue # <<>>
  BY DEF FeedNext, FeedOne, Sound, Staged
<1>2. PICK f \in Histories : f = First
  BY FirstIs
<1>3. PICK S : queue \in Seq(S) /\ Head(queue) \in S
  BY FeedsOn
<1>4. PICK q \in Seq(S) : q = queue /\ q # <<>>
  BY <1>1, <1>3
<1>5. PICK x \in S : x = Head(q) /\ x = q[1] /\ 1 \in DOMAIN q
  BY <1>3, <1>4, TailIs
<1>6. PICK tail \in Seq(S) : tail = Tail(q)
  BY <1>4, TailIs
<1>7. \A i \in DOMAIN tail : i \in Nat \ {0} /\ i + 1 \in DOMAIN q /\ tail[i] = q[i + 1]
  <2>1. /\ Len(q) \in Nat /\ Len(tail) = Len(q) - 1
        /\ \A i \in 1 .. Len(q) - 1 : tail[i] = q[i + 1]
    BY <1>4, <1>6, TailIs
  <2>2. DOMAIN tail = 1 .. Len(tail) /\ DOMAIN q = 1 .. Len(q)
    OBVIOUS
  <2> QED BY <2>1, <2>2
<1>8. Lone(q)
  BY <1>4 DEF Paying
<1>9. Lone(tail)
  <2>1. ASSUME NEW i \in DOMAIN tail, NEW j \in DOMAIN tail, tail[i].kind = "change", tail[j].kind = "change"
        PROVE  i = j
    <3>1. i + 1 \in DOMAIN q /\ j + 1 \in DOMAIN q /\ q[i + 1].kind = "change" /\ q[j + 1].kind = "change"
      BY <1>7, <2>1
    <3>2. i + 1 = j + 1 /\ i \in Nat /\ j \in Nat
      BY <1>7, <1>8, <3>1 DEF Lone
    <3> QED BY <3>2
  <2> QED BY <2>1 DEF Lone
<1>10. Lone(queue)'
  <2>1. queue' = q \/ queue' = tail
    BY <1>1, <1>4, <1>6 DEF FeedOne
  <2> QED BY <1>8, <1>9, <2>1 DEF Lone
<1>11. PICK log : log = changes[f]
  OBVIOUS
<1>12. Honest'
  <2>1. CASE f # to
    <3>1. Owed(First)' = Owed(First) /\ changes'[f] = log
      BY <1>1, <1>2, <1>11, <2>1, TurnIs, FeedsOn
    <3>2. PICK o : o = Owed(First)
      OBVIOUS
    <3>3. WillMove(log, o)
      BY <1>2, <1>11, <3>2 DEF Paying, Honest
    <3> QED BY <1>2, <3>1, <3>2, <3>3 DEF Honest
  <2>2. CASE f = to /\ x.kind = "change"
    <3>1. Owed(First)' = tail
      BY <1>1, <1>2, <1>4, <1>6, <2>2, TurnIs
    <3>2. \A i \in DOMAIN tail : tail[i].kind # "change"
      <4> TAKE i \in DOMAIN tail
      <4>1. i + 1 \in DOMAIN q /\ i + 1 # 1 /\ tail[i] = q[i + 1]
        BY <1>7
      <4> QED BY <1>5, <1>8, <2>2, <4>1 DEF Lone
    <3>3. \A l : WillMove(l, tail)
      BY <3>2, NoChange
    <3> QED BY <3>1, <3>3 DEF Honest
  <2>3. CASE f = to /\ x.kind # "change"
    <3>1. Owed(First)' = tail /\ Owed(First) = q
      BY <1>1, <1>2, <1>4, <1>6, <2>3, TurnIs
    <3>2. changes'[f] = log
      BY <1>4, <1>5, <1>11, <2>3, FeedsOn
    <3>3. WillMove(log, q)
      BY <1>2, <1>11, <3>1 DEF Paying, Honest
    <3>4. WillMove(log, tail)
      BY <1>7, <3>3 DEF WillMove
    <3> QED BY <1>2, <3>1, <3>2, <3>4 DEF Honest
  <2> QED BY <2>1, <2>2, <2>3
<1> QED BY <1>10, <1>12 DEF Paying

LEMMA DecidePaying ==
  ASSUME Sound, Decide
  PROVE  Paying'
<1>1. /\ phase = "loop" /\ queue = <<>> /\ to = First /\ UNCHANGED <<changes, to>>
  BY DEF Decide, Decides, Returned, logs, Sound, Staged
<1>2. PICK log : log = changes[First]
  OBVIOUS
<1>3. log # <<>> /\ BalanceAt(now) = log[Len(log)].after
  BY <1>1, <1>2, BalanceSound
<1>4. CASE queue' = <<>>
  <2>1. DOMAIN <<>> = {}
    OBVIOUS
  <2> QED BY <1>1, <1>4, <2>1, Unpaid
<1>5. ASSUME NEW S, NEW q \in Seq(S), queue' = q, Lone(q),
             \A x \in S : x.kind = "change" =>
               Bought(BalanceAt(now), x.record.after) \/ Sold(BalanceAt(now), x.record.after)
      PROVE  Paying'
  <2>1. \A i \in DOMAIN q : q[i] \in S
    OBVIOUS
  <2>2. \A i \in DOMAIN q : q[i].kind = "change" =>
          Bought(log[Len(log)].after, q[i].record.after) \/ Sold(log[Len(log)].after, q[i].record.after)
    BY <1>3, <1>5, <2>1
  <2>3. WillMove(log, q)
    BY <1>3, <2>2 DEF WillMove
  <2>4. Owed(First)' = q
    BY <1>1, <1>5, FirstWillBeOwed
  <2>5. Honest'
    BY <1>1, <1>2, <2>3, <2>4 DEF Honest
  <2> QED BY <1>5, <2>5 DEF Paying, Lone
<1> QED BY <1>4, <1>5, Deciding

LEMMA InitPaying == BacktestInit => Paying
<1> SUFFICES ASSUME BacktestInit PROVE Paying
  OBVIOUS
<1>1. queue = <<>> /\ DOMAIN <<>> = {}
  BY DEF BacktestInit, Init
<1>2. Honest
  BY InitHonest DEF BacktestInit
<1> QED BY <1>1, <1>2 DEF Paying, Lone

LEMMA StepPaying == Sound /\ Paying /\ [BacktestNext]_allVars => Paying'
<1> SUFFICES ASSUME Sound, Paying, [BacktestNext]_allVars PROVE Paying'
  OBVIOUS
<1>1. (queue = <<>> => to = First) /\ (~ up => queue = <<>>) /\ DOMAIN <<>> = {}
  BY DEF Sound, Staged
<1>2. ASSUME queue' = <<>>, to' = First PROVE Paying'
  BY <1>1, <1>2, Unpaid
<1>3. CASE \E parse \in BOOLEAN : Run(parse)
  BY <1>1, <1>2, <1>3 DEF Run
<1>4. CASE ParseLine
  <2>1. PICK r : queue' = <<Item("trade", r)>>
    BY <1>4 DEF ParseLine
  <2>2. PICK x : x = [kind |-> "trade", record |-> r]
    OBVIOUS
  <2>3. PICK q : q = <<x>>
    OBVIOUS
  <2>4. \A i \in DOMAIN q : q[i].kind # "change"
    BY <2>2, <2>3
  <2>5. queue' = q /\ to' = First
    BY <1>1, <1>4, <2>1, <2>2, <2>3 DEF ParseLine, Item, Returned
  <2> QED BY <2>4, <2>5, Unpaid
<1>5. CASE OpenAccount
  <2>1. queue' = Opening /\ to' = First
    BY <1>1, <1>5 DEF OpenAccount, Returned
  <2>2. PICK q : q = Opening
    OBVIOUS
  <2>3. \A i \in DOMAIN q : i = 1 /\ q[i].record.origin # "TRADE"
    <3>1. DOMAIN q = 1 .. 1 /\ q[1].record.origin = "INIT"
      BY <2>2, OpeningIs
    <3> QED BY <3>1
  <2>4. \A log : WillMove(log, q)
    BY <2>3, NoChange
  <2>5. Lone(q)
    BY <2>3 DEF Lone
  <2>6. Honest'
    BY <2>1, <2>2, <2>4, FirstWillBeOwed DEF Honest
  <2> QED BY <2>1, <2>2, <2>5, <2>6 DEF Paying
<1>6. CASE ParseEnds \/ ReadSpan \/ LoopEnds
  BY <1>1, <1>2, <1>6 DEF ParseEnds, ReadSpan, LoopEnds, Returned, vars
<1>7. CASE Dies
  BY <1>2, <1>7 DEF Dies, Crash
<1>8. CASE Over \/ UNCHANGED allVars
  <2>1. UNCHANGED <<changes, queue, to>>
    BY <1>8 DEF Over, allVars, vars
  <2> QED BY <2>1 DEF Paying, Honest, Lone, Owed, WillMove
<1> QED BY <1>3, <1>4, <1>5, <1>6, <1>7, <1>8, FeedPaying, DecidePaying DEF BacktestNext

LEMMA StepBacktestAccount ==
  Sound /\ Paying /\ [BacktestNext]_allVars => [Owner!Next]_AccountNow
<1> SUFFICES ASSUME Sound, Paying, [BacktestNext]_allVars PROVE [Owner!Next]_AccountNow
  OBVIOUS
<1>1. PICK f \in Histories : f = First
  BY FirstIs
<1>2. changes \in [Histories -> Seq(Change)] /\ to \in Histories
  BY DEF Sound, Staged, Billed
<1>3. ASSUME changes'[f] = changes[f] PROVE AccountNow' = AccountNow
  BY <1>1, <1>3 DEF AccountNow, BaseBalance
<1>4. ASSUME FeedNext PROVE [Owner!Next]_AccountNow
  <2>1. PICK S : queue \in Seq(S) /\ (\A x \in S : Payable(x)) /\ Head(queue) \in S
    BY <1>4, FeedsOn
  <2>2. PICK q \in Seq(S) : q = queue /\ q # <<>>
    BY <1>4, <2>1, FeedsOn
  <2>3. PICK x \in S : x = Head(q) /\ x = q[1] /\ 1 \in DOMAIN q
    BY <2>1, <2>2, TailIs
  <2>4. CASE ~ (f = to /\ x.kind = "change")
    <3>1. changes'[f] = changes[f]
      BY <1>4, <2>2, <2>3, <2>4, FeedsOn
    <3> QED BY <1>3, <3>1
  <2>5. CASE f = to /\ x.kind = "change"
    <3>1. changes'[f] = Append(changes[f], x.record) /\ changes[f] \in Seq(Change)
      BY <1>2, <1>4, <2>2, <2>3, <2>5, FeedsOn
    <3>2. x.record \in Change /\ (x.record.origin = "INIT" => x.record.after = Owner!Opened)
      BY <2>1, <2>5 DEF Payable
    <3>3. changes'[f] # <<>> /\ changes'[f][Len(changes'[f])] = x.record
      BY <3>1, <3>2, AppendIs
    <3>4. AccountNow' = x.record.after
      BY <1>1, <3>3 DEF AccountNow, BaseBalance
    <3>5. CASE x.record.origin = "INIT"
      BY <3>2, <3>4, <3>5 DEF Owner!Next, Owner!Open
    <3>6. CASE x.record.origin = "TRADE"
      <4>1. WillMove(changes[f], q)
        <5>1. Owed(First) = q
          BY <1>1, <2>2, <2>5, FirstOwed
        <5> QED BY <1>1, <5>1 DEF Paying, Honest
      <4>2. PICK b : b = changes[f][Len(changes[f])].after
        OBVIOUS
      <4>3. changes[f] # <<>> /\ (Bought(b, x.record.after) \/ Sold(b, x.record.after))
        BY <2>3, <2>5, <3>6, <4>1, <4>2 DEF WillMove
      <4>4. AccountNow = b
        BY <1>1, <4>2, <4>3 DEF AccountNow, BaseBalance
      <4>5. ASSUME Bought(b, x.record.after) PROVE Owner!Buy
        BY <3>4, <4>4, <4>5 DEF Owner!Buy, Owner!Charged, Bought
      <4>6. ASSUME Sold(b, x.record.after) PROVE Owner!Sell
        BY <3>4, <4>4, <4>6 DEF Owner!Sell, Owner!Charged, Sold
      <4> QED BY <4>3, <4>5, <4>6 DEF Owner!Next
    <3> QED BY <3>2, <3>5, <3>6 DEF Change
  <2> QED BY <2>4, <2>5
<1>5. ASSUME Dies PROVE [Owner!Next]_AccountNow
  <2>1. changes' = Surviving(changes)
    BY <1>5 DEF Dies, Crash
  <2>2. CASE f \in Memory
    <3>1. changes'[f] = <<>>
      BY <2>1, <2>2 DEF Surviving
    <3>2. AccountNow' = Owner!Opened
      BY <1>1, <3>1 DEF AccountNow, Owner!Opened
    <3> QED BY <3>2 DEF Owner!Next, Owner!Open
  <2>3. CASE f \notin Memory
    <3>1. changes'[f] = changes[f]
      BY <2>1, <2>3 DEF Surviving
    <3> QED BY <1>3, <3>1
  <2> QED BY <2>2, <2>3
<1>6. ASSUME ~ FeedNext, ~ Dies PROVE [Owner!Next]_AccountNow
  <2>1. changes' = changes
    BY <1>6 DEF BacktestNext, Run, ParseLine, ParseEnds, OpenAccount, ReadSpan, Decide, Decides, LoopEnds,
                Over, allVars, vars, logs
  <2> QED BY <1>3, <2>1
<1> QED BY <1>4, <1>5, <1>6

(* In a simulation the account spends no money it lacks, oversells stock     *)
(* below the price of one only and pays every commission, with nothing asked *)
(* of the bot (ImplementsAccount).                                           *)
THEOREM SimulationsImplementTheAccount == BacktestSpec => ImplementsAccount
<1>1. BacktestInit => Owner!Init
  BY FirstIs DEF BacktestInit, Init, Nothing, AccountNow, Owner!Init, Owner!Opened
<1> QED BY <1>1, InitSound, StepSound, InitPaying, StepPaying, StepBacktestAccount, PTL
        DEF BacktestSpec, ImplementsAccount, Owner!Spec
=============================================================================
