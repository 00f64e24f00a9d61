----------------------------- MODULE SourceProofs -----------------------------
(* What holds of Source for every set of orders, timestamps and histories,   *)
(* every threshold and every number of events: the type invariant and, from  *)
(* an inductive invariant about the accessors and the pass under way, what   *)
(* the book owes the trades.                                                 *)
EXTENDS Source, LeastNumber, TLAPS

-----------------------------------------------------------------------------
(* The operators the model is built from.                                    *)

(* A walk over a set of positive numbers steps to an element, to the one     *)
(* being added, or to the end.                                               *)
LEMMA SuccessorsType ==
  ASSUME NEW set, NEW adding, NEW cursor
  PROVE  Successors(set, adding, cursor) \subseteq set \union {adding, 0}
  BY DEF Successors

(* retrieve_order finds, of the versions at or before t, one with the latest *)
(* timestamp, and none only if there is none (lines 39-43).                  *)
LEMMA RetrieveIsLatest ==
  ASSUME NEW s \in Seq(Version), NEW t \in Nat
  PROVE  \/ /\ Retrieve(s, t) = NoOrder
            /\ \A i \in DOMAIN s : ~ (s[i].ts <= t)
         \/ /\ Retrieve(s, t) \in Elems(s)
            /\ Retrieve(s, t).ts <= t
            /\ \A i \in DOMAIN s : s[i].ts <= t => s[i].ts <= Retrieve(s, t).ts
<1> DEFINE M == Matching(s, t)
           Ages == {t - s[i].ts : i \in M}
           Best(i) == \A j \in M : \/ s[j].ts < s[i].ts
                                   \/ s[j].ts = s[i].ts /\ i <= j
<1>1. /\ M \subseteq Nat
      /\ M \subseteq DOMAIN s
      /\ \A i \in DOMAIN s : s[i].ts \in Nat
      /\ \A i \in M : s[i].ts <= t
  <2>1. M \subseteq DOMAIN s /\ \A i \in M : s[i].ts <= t
    BY DEF Matching
  <2>2. DOMAIN s \subseteq Nat
    OBVIOUS
  <2>3. \A i \in DOMAIN s : s[i] \in Version
    OBVIOUS
  <2>4. \A v \in Version : v.ts \in Nat
    BY TimesAssumption DEF Version
  <2> QED BY <2>1, <2>2, <2>3, <2>4
<1>2. CASE M = {}
  <2>1. \A i \in DOMAIN s : ~ (s[i].ts <= t)
    BY <1>2 DEF Matching
  <2> QED BY <1>2, <2>1 DEF Retrieve
<1>3. CASE M # {}
  <2>1. Ages \in SUBSET Nat /\ Ages # {}
    BY <1>1, <1>3
  <2>2. PICK a \in Ages : \A b \in Ages : a <= b
    <3> HIDE DEF Ages
    <3> QED BY <2>1, LeastNatural
  <2>3. PICK k \in M : a = t - s[k].ts
    BY <2>2
  <2>4. \A j \in M : s[j].ts <= s[k].ts
    <3> TAKE j \in M
    <3>1. t - s[j].ts \in Ages
      OBVIOUS
    <3>2. t - s[k].ts <= t - s[j].ts
      <4> HIDE DEF Ages
      <4> QED BY <3>1, <2>2, <2>3
    <3>3. s[j].ts \in Nat /\ s[k].ts \in Nat
      BY <1>1
    <3> QED BY <3>2, <3>3
  <2> DEFINE L == {i \in M : s[i].ts = s[k].ts}
  <2>5. L \in SUBSET Nat /\ L # {}
    BY <1>1
  <2>6. PICK l \in L : \A m \in L : l <= m
    <3> HIDE DEF L
    <3> QED BY <2>5, LeastNatural
  <2>7. l \in M /\ Best(l)
    BY <1>1, <2>4, <2>6
  <2> DEFINE c == CHOOSE i \in M : Best(i)
  <2>8. c \in M /\ Best(c)
    BY <2>7
  <2>9. Retrieve(s, t) = s[c]
    BY <1>3 DEF Retrieve
  <2>10. \A j \in M : s[j].ts <= s[c].ts
    <3> HIDE DEF c, M
    <3>1. \A j \in M : s[j].ts \in Nat
      BY <1>1
    <3>2. \A j \in M : s[j].ts < s[c].ts \/ s[j].ts = s[c].ts
      BY <2>8
    <3> QED BY <2>8, <3>1, <3>2
  <2>11. \A i \in DOMAIN s : s[i].ts <= t => i \in M
    BY DEF Matching
  <2> QED BY <1>1, <2>8, <2>9, <2>10, <2>11 DEF Elems
<1> QED BY <1>2, <1>3

-----------------------------------------------------------------------------
(* The type invariant.                                                       *)

LEMMA RetrieveType ==
  ASSUME NEW s \in Seq(Version), NEW t \in Times
  PROVE  Retrieve(s, t) \in Version \union {NoOrder}
<1>1. t \in Nat
  BY TimesAssumption
<1>2. Elems(s) \subseteq Version
  BY DEF Elems
<1> QED BY <1>1, <1>2, RetrieveIsLatest

LEMMA LaterType ==
  ASSUME NEW t \in Times, last \in Times \union {0}
  PROVE  Later(t) \in Times \union {0}
  BY DEF Later

LEMMA TypeInit == Init => TypeOK
<1> SUFFICES ASSUME Init PROVE TypeOK
  OBVIOUS
<1>1. feeder \in FeederState
  BY DEF Init, FeederState
<1>2. cleaner \in CleanerState
  BY DEF Init, CleanerState
<1>3. current \in [OrderIds -> Seq(Version)] /\ announced \in [OrderIds -> Seq(Version)]
  BY DEF Init
<1>4. received \in [Histories -> Seq(Fed)]
  BY DEF Init
<1> QED BY <1>1, <1>2, <1>3, <1>4 DEF Init, TypeOK

\* The end a pass took from the vector is still the end of the vector.
EndIsCurrent == cleaner.pc = "scan" => cleaner.end = Len(current[cleaner.id])

LEMMA TypeStep == TypeOK /\ EndIsCurrent /\ [Next]_vars => TypeOK'
<1> SUFFICES ASSUME TypeOK, EndIsCurrent, [Next]_vars
             PROVE  TypeOK'
  OBVIOUS
<1> USE DEF TypeOK
<1>1. ASSUME NEW id \in OrderIds, NEW t \in Times, FeedOrder(id, t)
      PROVE  TypeOK'
  BY <1>1, LaterType DEF FeedOrder, Deliver, fan, FeederState
<1>2. ASSUME NEW id \in OrderIds, PukeKnown(id)
      PROVE  TypeOK'
  BY <1>2 DEF PukeKnown, Acquire, Deliver, fan, FeederState
<1>3. ASSUME NEW id \in OrderIds, NEW t \in Times, PukeUnknown(id, t)
      PROVE  TypeOK'
  BY <1>3, LaterType DEF PukeUnknown, Deliver, fan, FeederState
<1>4. ASSUME NEW t \in Times, NEW b \in OrderIds, NEW s \in OrderIds, FeedTrade(t, b, s)
      PROVE  TypeOK'
  BY <1>4, LaterType DEF FeedTrade, Deliver, fan, FeederState
<1>5. CASE StoreOrder
  <2>1. feeder.id \in OrderIds /\ feeder.ts \in Times /\ feeder.puke \in BOOLEAN
    BY <1>5 DEF StoreOrder, FeederState, Idle
  <2> DEFINE v == [ts |-> feeder.ts, rev |-> Len(announced[feeder.id]) + 1]
  <2>2. v \in Version
    BY <2>1 DEF Version
  <2>3. /\ current' \in [OrderIds -> Seq(Version)]
        /\ announced' \in [OrderIds -> Seq(Version)]
    <3> HIDE DEF v
    <3>1. /\ current' = [current EXCEPT ![feeder.id] = Append(@, v)]
          /\ announced' = [announced EXCEPT ![feeder.id] = Append(@, v)]
      BY <1>5 DEF StoreOrder, v
    <3> QED BY <2>1, <2>2, <3>1
  <2>4. feeder' \in FeederState
    BY <1>5, <2>1 DEF StoreOrder, FeederState, Idle
  <2> QED BY <1>5, <2>3, <2>4 DEF StoreOrder, fan
<1>6. CASE BeginMark
  BY <1>6 DEF BeginMark, fan, FeederState, Idle
<1>7. CASE EndMark
  BY <1>7 DEF EndMark, fan, FeederState, Idle
<1>8. CASE RetrieveBuy
  BY <1>8, RetrieveType DEF RetrieveBuy, fan, book, FeederState, Idle
<1>9. CASE RetrieveSell
  BY <1>9, RetrieveType, SuccessorsType DEF RetrieveSell, NextHistory, book, FeederState, Idle
<1>10. CASE FeedHistory
  <2>1. /\ feeder \in [pc : {"fan"}, n : Nat, buy : Version \union {NoOrder},
                       sell : Version \union {NoOrder}, to : Histories \union {0}]
        /\ feeder.to \in Histories
    BY <1>10 DEF FeedHistory, FeederState, Idle
  <2> DEFINE e == [n |-> feeder.n,
                   orders |-> IF feeder.sell # NoOrder THEN <<feeder.buy, feeder.sell>> ELSE <<>>]
  <2>2. e \in Fed
    <3>1. <<feeder.buy, feeder.sell>> \in Seq(Version \union {NoOrder})
      BY <2>1
    <3>2. e.orders \in Seq(Version \union {NoOrder})
      <4>1. <<>> \in Seq(Version \union {NoOrder})
        OBVIOUS
      <4> QED BY <3>1, <4>1
    <3>3. e.n \in Nat
      BY <2>1
    <3> QED BY <3>2, <3>3 DEF Fed
  <2>3. received' \in [Histories -> Seq(Fed)]
    <3>1. received' = [received EXCEPT ![feeder.to] = Append(@, e)]
      BY <1>10 DEF FeedHistory
    <3> HIDE DEF e
    <3> QED BY <2>1, <2>2, <3>1
  <2>4. feeder' \in FeederState
    <3>1. PICK h \in NextHistory(feeder.to) : feeder' = [feeder EXCEPT !.to = h]
      BY <1>10 DEF FeedHistory
    <3>2. h \in Histories \union {0}
      BY SuccessorsType DEF NextHistory
    <3> QED BY <2>1, <3>1, <3>2 DEF FeederState
  <2> QED BY <1>10, <2>3, <2>4 DEF FeedHistory, book
<1>11. CASE TradeDone
  BY <1>11 DEF TradeDone, book, fan, FeederState
<1>12. CASE Wake
  BY <1>12, SuccessorsType DEF Wake, book, fan, CleanerState
<1>13. CASE SkipId
  BY <1>13, SuccessorsType DEF SkipId, book, fan, CleanerState
<1>14. CASE LockId
  BY <1>14 DEF LockId, Acquire, fan, CleanerState
<1>15. CASE ScanVersion
  <2>1. cleaner \in [pc : {"scan"}, id : OrderIds, kept : Seq(Version), at : Nat \ {0}, end : Nat]
    BY <1>15 DEF ScanVersion, CleanerState
  <2> DEFINE v == current[cleaner.id][cleaner.at]
  <2>2. v \in Version
    <3>1. cleaner.at <= Len(current[cleaner.id]) /\ current[cleaner.id] \in Seq(Version)
      BY <1>15, <2>1 DEF ScanVersion, EndIsCurrent
    <3> QED BY <2>1, <3>1
  <2>3. Copied(cleaner.kept, v) \in Seq(Version)
    <3> HIDE DEF v
    <3> QED BY <2>1, <2>2 DEF Copied
  <2>4. cleaner' \in CleanerState
    <3>1. cleaner' = [cleaner EXCEPT !.at = @ + 1, !.kept = Copied(@, v)]
      BY <1>15 DEF ScanVersion
    <3>2. cleaner' = [cleaner EXCEPT !.at = cleaner.at + 1, !.kept = Copied(cleaner.kept, v)]
      BY <3>1
    <3> DEFINE k == Copied(cleaner.kept, v)
               n == cleaner.at + 1
    <3>3. k \in Seq(Version) /\ n \in Nat \ {0}
      BY <2>1, <2>3
    <3>4. cleaner' = [cleaner EXCEPT !.at = n, !.kept = k]
      BY <3>2
    <3> HIDE DEF k, n
    <3>5. cleaner' \in [pc : {"scan"}, id : OrderIds, kept : Seq(Version), at : Nat \ {0}, end : Nat]
      BY <2>1, <3>3, <3>4
    <3> QED BY <3>5 DEF CleanerState
  <2> QED BY <1>15, <2>4 DEF ScanVersion, book, fan
<1>16. CASE StoreKept
  BY <1>16, SuccessorsType DEF StoreKept, fan, CleanerState
<1>17. CASE EndPass
  BY <1>17 DEF EndPass, book, fan, CleanerState
<1>18. CASE MainStep
  BY <1>18 DEF MainStep, BeginHistorize, EndHistorize, BeginDestroy, EndDestroy, book, fan
<1>19. CASE UNCHANGED vars
  BY <1>19 DEF vars, book, fan
<1> QED
  BY <1>1, <1>2, <1>3, <1>4, <1>5, <1>6, <1>7, <1>8, <1>9, <1>10, <1>11, <1>12, <1>13,
     <1>14, <1>15, <1>16, <1>17, <1>18, <1>19
  DEF Next, Event, FeederStep, CleanerStep, Destroyed

-----------------------------------------------------------------------------
(* The inductive invariant. What the book owes the trades (GraceKept) is not *)
(* inductive: a pass that is about to write back its copy would lose what    *)
(* was pushed since it started. It has lost nothing because the accessor     *)
(* keeps the feeder away from the key being scanned (Accessors), the copy    *)
(* has every version that is still young among those scanned (Scanned), and  *)
(* only keys of deleted orders are scanned (Visited).                        *)

Accessors ==
  /\ \A id \in OrderIds :
       /\ lock[id] = "cleaner" <=> cleaner.pc = "scan" /\ cleaner.id = id
       /\ lock[id] = "feeder" => feeder.pc = "mark" /\ feeder.id = id
  /\ inserting # 0 => feeder.pc = "mark" /\ feeder.id = inserting

Visited ==
  cleaner.pc \in {"find", "scan"} => cleaner.id \in Gone \union {0}

\* The versions of a vector are numbered in order of arrival.
Ordered(s) == \A i, j \in DOMAIN s : i < j => s[i].rev < s[j].rev

Scanned ==
  cleaner.pc = "scan" =>
    LET s == current[cleaner.id] IN
      /\ cleaner.end = Len(s)
      /\ Ordered(cleaner.kept)
      /\ \A i \in DOMAIN cleaner.kept :
           /\ cleaner.kept[i] \in Elems(s)
           /\ \A j \in DOMAIN s : j >= cleaner.at => cleaner.kept[i].rev < s[j].rev
      /\ \A i \in DOMAIN s :
           i < cleaner.at /\ Recent(s[i]) => s[i] \in Elems(cleaner.kept)

Numbered ==
  \A id \in OrderIds :
    \A i \in DOMAIN announced[id] : announced[id][i].rev <= Len(announced[id])

Inv ==
  /\ Accessors
  /\ Visited
  /\ Scanned
  /\ Numbered
  /\ GraceKept
  /\ ArrivalOrderKept

\* Appending adds one element, at the end.
LEMMA AppendElems ==
  ASSUME NEW S, NEW s \in Seq(S), NEW v \in S
  PROVE  /\ DOMAIN Append(s, v) = 1 .. (Len(s) + 1)
         /\ DOMAIN s = 1 .. Len(s)
         /\ \A i \in DOMAIN s : Append(s, v)[i] = s[i]
         /\ Append(s, v)[Len(s) + 1] = v
         /\ Elems(Append(s, v)) = Elems(s) \union {v}
<1>1. /\ DOMAIN Append(s, v) = 1 .. (Len(s) + 1)
      /\ DOMAIN s = 1 .. Len(s)
      /\ \A i \in DOMAIN s : Append(s, v)[i] = s[i]
      /\ Append(s, v)[Len(s) + 1] = v
      /\ Len(s) \in Nat
  OBVIOUS
<1>2. DOMAIN Append(s, v) = DOMAIN s \union {Len(s) + 1}
  BY <1>1
<1> QED BY <1>1, <1>2 DEF Elems

\* _last_timestamp never goes back, so what is young now was young before.
LEMMA RecentBefore ==
  ASSUME TypeOK, NEW t \in Times, last' = Later(t), NEW v \in Version, Recent(v)'
  PROVE  Recent(v)
<1>1. last \in Nat /\ t \in Nat /\ v.ts \in Nat /\ Threshold \in Nat
  <2>1. last \in Times \union {0} /\ v.ts \in Times
    BY DEF TypeOK, Version
  <2>2. Times \subseteq Nat
    BY TimesAssumption
  <2>3. t \in Nat
    BY <2>2
  <2>4. v.ts \in Nat
    BY <2>1, <2>2
  <2>5. last \in Nat
    BY <2>1, <2>2
  <2> QED BY <2>3, <2>4, <2>5, ThresholdAssumption
<1>2. last' \in Nat /\ last <= last'
  BY <1>1 DEF Later
<1>3. v.ts + Threshold > last'
  BY DEF Recent
<1> QED BY <1>1, <1>2, <1>3 DEF Recent

LEMMA InvInit == Init => Inv
  BY DEF Init, Inv, Accessors, Visited, Scanned, Numbered, GraceKept, ArrivalOrderKept,
         Elems, Gone, Idle

(* Steps that leave the book, the accessors and the pass alone: those of a   *)
(* trade, of main, and of a walk that goes on.                               *)
LEMMA InvKept ==
  ASSUME TypeOK, Inv, UNCHANGED <<book, announced>>,
         feeder.pc # "mark" \/ UNCHANGED feeder,
         \/ UNCHANGED cleaner
         \/ cleaner.pc # "scan" /\ cleaner'.pc # "scan"
            /\ (cleaner'.pc = "find" => cleaner'.id \in Gone \union {0})
  PROVE  Inv'
<1>1. Accessors'
  BY DEF Inv, Accessors, book
<1>2. Visited' /\ Scanned'
  BY DEF Inv, Visited, Scanned, Ordered, Recent, Gone, Elems, book
<1>3. UNCHANGED <<current, announced, last, deleted, inserting>>
  BY DEF book
<1>4. Numbered'
  BY <1>3 DEF Inv, Numbered
<1>5. GraceKept'
  BY <1>3 DEF Inv, GraceKept, Recent, Gone, Elems
<1>6. ArrivalOrderKept'
  BY <1>3 DEF Inv, ArrivalOrderKept, Elems
<1> QED BY <1>1, <1>2, <1>4, <1>5, <1>6 DEF Inv

(* A callback that moves _last_timestamp and leaves the map alone.           *)
LEMMA InvAdvance ==
  ASSUME TypeOK, Inv, NEW t \in Times, last' = Later(t),
         UNCHANGED <<current, announced, deleted, inserting, lock, cleaner>>,
         feeder.pc # "mark"
  PROVE  Inv'
<1>1. \A v \in Version : Recent(v)' => Recent(v)
  BY RecentBefore
<1>2. Accessors' /\ Visited' /\ Numbered' /\ ArrivalOrderKept'
  <2>1. Accessors'
    BY DEF Inv, Accessors
  <2>2. Visited'
    BY DEF Inv, Visited, Gone
  <2>3. Numbered'
    BY DEF Inv, Numbered
  <2>4. ArrivalOrderKept'
    BY DEF Inv, ArrivalOrderKept, Elems
  <2> QED BY <2>1, <2>2, <2>3, <2>4
<1>3. Scanned'
  <2> SUFFICES ASSUME cleaner.pc = "scan"
               PROVE  Scanned'
    BY DEF Scanned
  <2>1. cleaner.id \in OrderIds
    BY DEF TypeOK, CleanerState
  <2>2. \A i \in DOMAIN current[cleaner.id] : current[cleaner.id][i] \in Version
    BY <2>1 DEF TypeOK
  <2> QED BY <1>1, <2>2 DEF Inv, Scanned, Ordered, Elems
<1>4. GraceKept'
  <2>1. \A id \in OrderIds : \A v \in Elems(announced[id]) : v \in Version
    BY DEF TypeOK, Elems
  <2> QED BY <1>1, <2>1 DEF Inv, GraceKept, Gone, Elems
<1> QED BY <1>2, <1>3, <1>4 DEF Inv

(* feed(Order&) reaches the map: the key is not the one being scanned.       *)
LEMMA InvStoreOrder ==
  ASSUME TypeOK, Inv, StoreOrder
  PROVE  Inv'
<1> DEFINE o == feeder.id
           v == [ts |-> feeder.ts, rev |-> Len(announced[o]) + 1]
<1>1. o \in OrderIds /\ feeder.ts \in Times
  BY DEF StoreOrder, TypeOK, FeederState, Idle
<1>2. v \in Version /\ v.rev = Len(announced[o]) + 1
  BY <1>1 DEF TypeOK, Version
<1>3. /\ current' = [current EXCEPT ![o] = Append(@, v)]
      /\ announced' = [announced EXCEPT ![o] = Append(@, v)]
      /\ UNCHANGED <<last, deleted, inserting, lock, cleaner>>
      /\ lock[o] = "free"
      /\ feeder.pc = "store"
  BY DEF StoreOrder
<1> HIDE DEF o, v
<1>4. /\ current[o] \in Seq(Version) /\ announced[o] \in Seq(Version)
      /\ current'[o] = Append(current[o], v)
      /\ announced'[o] = Append(announced[o], v)
      /\ \A id \in OrderIds : id # o => current'[id] = current[id] /\ announced'[id] = announced[id]
  BY <1>1, <1>3 DEF TypeOK
<1>5. /\ Elems(current'[o]) = Elems(current[o]) \union {v}
      /\ Elems(announced'[o]) = Elems(announced[o]) \union {v}
  BY <1>2, <1>4, AppendElems
<1>6. Accessors' /\ Visited'
  <2>1. inserting = 0 /\ \A id \in OrderIds : lock[id] # "feeder"
    BY <1>3 DEF Inv, Accessors
  <2>2. Accessors'
    BY <1>3, <2>1 DEF Inv, Accessors
  <2>3. Visited'
    BY <1>3 DEF Inv, Visited, Gone
  <2> QED BY <2>2, <2>3
<1>7. Scanned'
  <2>1. cleaner.pc = "scan" => cleaner.id # o /\ cleaner.id \in OrderIds
    BY <1>3 DEF Inv, Accessors, TypeOK, CleanerState
  <2>2. cleaner.pc = "scan" => current'[cleaner.id] = current[cleaner.id]
    BY <1>4, <2>1
  <2>3. \A w : Recent(w)' <=> Recent(w)
    BY <1>3 DEF Recent
  <2> QED BY <1>3, <2>2, <2>3 DEF Inv, Scanned, Ordered, Elems
<1>8. Numbered'
  <2> SUFFICES ASSUME NEW id \in OrderIds, NEW i \in DOMAIN announced'[id]
               PROVE  announced'[id][i].rev <= Len(announced'[id])
    BY DEF Numbered
  <2>1. CASE id # o
    BY <1>4, <2>1 DEF Inv, Numbered
  <2>2. CASE id = o
    <3>1. Len(announced'[o]) = Len(announced[o]) + 1 /\ Len(announced[o]) \in Nat
      BY <1>2, <1>4
    <3>2. CASE i = Len(announced[o]) + 1
      BY <1>2, <1>4, <2>2, <3>1, <3>2, AppendElems
    <3>3. CASE i # Len(announced[o]) + 1
      <4>1. i \in DOMAIN announced[o] /\ announced'[o][i] = announced[o][i]
        BY <1>2, <1>4, <2>2, <3>1, <3>3, AppendElems
      <4>2. announced[o][i].rev <= Len(announced[o])
        BY <1>1, <4>1 DEF Inv, Numbered
      <4>3. announced[o][i].rev \in Nat
        <5>1. announced[o][i] \in Version
          BY <1>4, <4>1
        <5> QED BY <5>1 DEF Version
      <4> QED BY <2>2, <3>1, <4>1, <4>2, <4>3
    <3> QED BY <3>2, <3>3
  <2> QED BY <2>1, <2>2
<1>9. GraceKept'
  BY <1>3, <1>4, <1>5 DEF Inv, GraceKept, Recent, Gone
<1>10. ArrivalOrderKept'
  <2> SUFFICES ASSUME NEW id \in OrderIds
               PROVE  /\ Elems(current'[id]) \subseteq Elems(announced'[id])
                      /\ \A i, j \in DOMAIN current'[id] :
                           i < j => current'[id][i].rev < current'[id][j].rev
    BY DEF ArrivalOrderKept, Elems
  <2>1. CASE id # o
    BY <1>4, <2>1 DEF Inv, ArrivalOrderKept
  <2>2. CASE id = o
    <3>1. Elems(current'[o]) \subseteq Elems(announced'[o])
      BY <1>1, <1>5 DEF Inv, ArrivalOrderKept
    <3>2. \A w \in Elems(announced[o]) : w.rev \in Nat /\ w.rev <= Len(announced[o])
      <4>1. \A i \in DOMAIN announced[o] : announced[o][i] \in Version
        BY <1>4
      <4>2. \A i \in DOMAIN announced[o] : announced[o][i].rev \in Nat
        BY <4>1 DEF Version
      <4>3. \A i \in DOMAIN announced[o] : announced[o][i].rev <= Len(announced[o])
        BY <1>1 DEF Inv, Numbered
      <4> QED BY <4>2, <4>3 DEF Elems
    <3>3. \A w \in Elems(current[o]) : w.rev < v.rev
      <4>1. Elems(current[o]) \subseteq Elems(announced[o])
        BY <1>1 DEF Inv, ArrivalOrderKept
      <4>2. Len(announced[o]) \in Nat
        BY <1>4
      <4> QED BY <1>2, <3>2, <4>1, <4>2
    <3>4. \A i, j \in DOMAIN current[o] : i < j => current[o][i].rev < current[o][j].rev
      BY <1>1 DEF Inv, ArrivalOrderKept
    <3>5. \A i \in DOMAIN current[o] : current[o][i] \in Elems(current[o])
      BY DEF Elems
    <3>6. /\ DOMAIN current'[o] = 1 .. (Len(current[o]) + 1)
          /\ DOMAIN current[o] = 1 .. Len(current[o])
          /\ Len(current[o]) \in Nat
          /\ \A i \in DOMAIN current[o] : current'[o][i] = current[o][i]
          /\ current'[o][Len(current[o]) + 1] = v
      BY <1>2, <1>4, AppendElems
    <3>7. ASSUME NEW i \in DOMAIN current'[o], NEW j \in DOMAIN current'[o], i < j
          PROVE  current'[o][i].rev < current'[o][j].rev
      <4>1. i \in DOMAIN current[o] /\ (j \in DOMAIN current[o] \/ j = Len(current[o]) + 1)
        BY <3>6, <3>7
      <4>2. current'[o][i] = current[o][i] /\ current[o][i] \in Elems(current[o])
        BY <3>5, <3>6, <4>1
      <4>3. CASE j \in DOMAIN current[o]
        BY <3>4, <3>6, <3>7, <4>1, <4>2, <4>3
      <4>4. CASE j = Len(current[o]) + 1
        BY <3>3, <3>6, <4>2, <4>4
      <4> QED BY <4>1, <4>3, <4>4
    <3> QED BY <2>2, <3>1, <3>7
  <2> QED BY <2>1, <2>2
<1> QED BY <1>6, <1>7, <1>8, <1>9, <1>10 DEF Inv

(* puke: its accessor, and the id it inserts.                                *)
LEMMA InvPuke ==
  ASSUME TypeOK, Inv,
         (\E id \in OrderIds : PukeKnown(id)) \/ BeginMark \/ EndMark
  PROVE  Inv'
<1>1. /\ UNCHANGED <<current, announced, last, cleaner>>
      /\ Gone \subseteq Gone'
  <2>1. CASE \E id \in OrderIds : PukeKnown(id)
    BY <2>1 DEF PukeKnown, Gone
  <2>2. CASE BeginMark
    BY <2>2 DEF BeginMark, Gone
  <2>3. CASE EndMark
    BY <2>3 DEF EndMark, Gone
  <2> QED BY <2>1, <2>2, <2>3
<1>2. Accessors'
  <2>1. ASSUME NEW id \in OrderIds, PukeKnown(id)
        PROVE  Accessors'
    BY <2>1 DEF PukeKnown, Deliver, Acquire, Idle, Inv, Accessors, TypeOK
  <2>2. CASE BeginMark
    BY <2>2 DEF BeginMark, Inv, Accessors
  <2>3. CASE EndMark
    BY <2>3 DEF EndMark, Inv, Accessors, TypeOK, Idle
  <2> QED BY <2>1, <2>2, <2>3
<1>3. Visited'
  BY <1>1 DEF Inv, Visited
<1>4. Scanned'
  BY <1>1 DEF Inv, Scanned, Ordered, Recent, Elems
<1>5. Numbered'
  BY <1>1 DEF Inv, Numbered
<1>6. GraceKept'
  BY <1>1 DEF Inv, GraceKept, Recent, Elems
<1>7. ArrivalOrderKept'
  BY <1>1 DEF Inv, ArrivalOrderKept, Elems
<1> QED BY <1>2, <1>3, <1>4, <1>5, <1>6, <1>7 DEF Inv

(* A walk over _deleted_orders_ids goes on to a deleted id.                  *)
LEMMA WalkStaysOnGone ==
  ASSUME NEW cursor, NEW id \in Successors(deleted, inserting, cursor)
  PROVE  id \in Gone \union {0}
  BY SuccessorsType DEF Gone

(* The pass takes the accessor of a key: nothing is scanned yet.             *)
LEMMA InvLockId ==
  ASSUME TypeOK, Inv, LockId
  PROVE  Inv'
<1> DEFINE c == cleaner.id
<1>1. /\ c \in OrderIds
      /\ c \in Gone
      /\ lock[c] = "free"
      /\ lock' = [lock EXCEPT ![c] = "cleaner"]
      /\ cleaner.pc = "find"
      /\ cleaner' = [pc |-> "scan", id |-> c, kept |-> <<>>, at |-> 1, end |-> Len(current[c])]
      /\ UNCHANGED <<current, announced, last, deleted, inserting, feeder>>
  BY DEF LockId, Acquire, TypeOK, CleanerState, Inv, Visited
<1>2. Accessors'
  BY <1>1 DEF Inv, Accessors, TypeOK
<1>3. Visited'
  BY <1>1 DEF Visited, Gone
<1>4. Scanned'
  <2>1. DOMAIN current[c] \subseteq Nat \ {0}
    BY <1>1 DEF TypeOK
  <2>2. cleaner'.at = 1 /\ cleaner'.kept = <<>> /\ cleaner'.id = c
      /\ cleaner'.end = Len(current[c])
    BY <1>1
  <2>3. \A i \in DOMAIN current[c] : ~ (i < 1)
    BY <2>1
  <2>4. cleaner'.end = Len(current'[cleaner'.id])
    BY <1>1, <2>2
  <2>5. Ordered(cleaner'.kept) /\ DOMAIN cleaner'.kept = {}
    BY <2>2 DEF Ordered
  <2>6. current'[cleaner'.id] = current[c] /\ cleaner'.at = 1
    BY <1>1, <2>2
  <2> HIDE DEF c
  <2> QED BY <2>3, <2>4, <2>5, <2>6 DEF Scanned
<1>5. Numbered' /\ GraceKept' /\ ArrivalOrderKept'
  <2>1. UNCHANGED <<current, announced, last, deleted, inserting>>
    BY <1>1
  <2>2. Numbered'
    BY <2>1 DEF Inv, Numbered
  <2>3. GraceKept'
    BY <2>1 DEF Inv, GraceKept, Recent, Gone, Elems
  <2>4. ArrivalOrderKept'
    BY <2>1 DEF Inv, ArrivalOrderKept, Elems
  <2> QED BY <2>2, <2>3, <2>4
<1> QED BY <1>2, <1>3, <1>4, <1>5 DEF Inv

(* The pass writes its copy back: what was announced and must be kept is     *)
(* in the vector, has been scanned, and so is in the copy.                   *)
LEMMA InvStoreKept ==
  ASSUME TypeOK, Inv, StoreKept
  PROVE  Inv'
<1> DEFINE c == cleaner.id
           kept == cleaner.kept
<1>1. /\ c \in OrderIds
      /\ kept \in Seq(Version)
      /\ cleaner.at \in Nat
      /\ cleaner.at > cleaner.end
      /\ cleaner.pc = "scan"
      /\ current' = [current EXCEPT ![c] = kept]
      /\ lock' = [lock EXCEPT ![c] = "free"]
      /\ UNCHANGED <<announced, last, deleted, inserting, feeder>>
  BY DEF StoreKept, TypeOK, CleanerState
<1>2. cleaner'.pc = "find" /\ cleaner'.id \in Gone \union {0}
  <2>1. PICK id \in Successors(deleted, inserting, c) : cleaner' = [pc |-> "find", id |-> id]
    BY DEF StoreKept
  <2> QED BY <2>1, WalkStaysOnGone
<1>3. /\ current'[c] = kept
      /\ \A id \in OrderIds : id # c => current'[id] = current[id]
      /\ c \in Gone
  <2>1. c \in Gone \union {0} /\ c # 0
    BY <1>1, OrderIdsAssumption DEF Inv, Visited
  <2>2. current \in [OrderIds -> Seq(Version)]
    BY DEF TypeOK
  <2> QED BY <1>1, <2>1, <2>2
<1>4. Elems(kept) \subseteq Elems(current[c]) /\ Ordered(kept)
  BY <1>1 DEF Inv, Scanned, Elems
<1>5. \A v \in Elems(current[c]) : Recent(v) => v \in Elems(kept)
  <2>1. \A i \in DOMAIN current[c] : i < cleaner.at
    <3>1. DOMAIN current[c] = 1 .. Len(current[c]) /\ Len(current[c]) \in Nat
      BY <1>1 DEF TypeOK
    <3>2. cleaner.end = Len(current[c])
      BY <1>1 DEF Inv, Scanned
    <3> QED BY <1>1, <3>1, <3>2
  <2> QED BY <1>1, <2>1 DEF Inv, Scanned, Elems
<1> HIDE DEF c, kept
<1>6. Accessors'
  BY <1>1, <1>2 DEF Inv, Accessors, TypeOK, c
<1>7. Visited'
  BY <1>1, <1>2 DEF Visited, Gone
<1>8. Scanned'
  BY <1>2 DEF Scanned
<1>9. Numbered'
  BY <1>1 DEF Inv, Numbered
<1>10. GraceKept'
  <2>1. announced' = announced /\ Gone' = Gone /\ \A v : Recent(v)' <=> Recent(v)
    BY <1>1 DEF Gone, Recent
  <2>2. ASSUME NEW id \in OrderIds, NEW v \in Elems(announced[id]), Recent(v) \/ id \notin Gone
        PROVE  v \in Elems(current'[id])
    <3>1. v \in Elems(current[id])
      BY <2>2 DEF Inv, GraceKept
    <3> QED BY <1>3, <1>5, <2>2, <3>1
  <2>3. \A id \in OrderIds : Elems(announced[id])' = Elems(announced[id]) /\ Elems(current[id])' = Elems(current'[id])
    BY <2>1 DEF Elems
  <2> QED BY <2>1, <2>2, <2>3 DEF GraceKept
<1>11. ArrivalOrderKept'
  <2>1. ASSUME NEW id \in OrderIds
        PROVE  Elems(current'[id]) \subseteq Elems(announced[id]) /\ Ordered(current'[id])
    <3>1. Elems(current[id]) \subseteq Elems(announced[id]) /\ Ordered(current[id])
      BY DEF Inv, ArrivalOrderKept, Ordered
    <3> QED BY <1>3, <1>4, <3>1
  <2>2. announced' = announced
    BY <1>1
  <2>3. \A id \in OrderIds : Elems(announced[id])' = Elems(announced[id]) /\ Elems(current[id])' = Elems(current'[id])
    BY <2>2 DEF Elems
  <2> QED BY <2>1, <2>3 DEF ArrivalOrderKept, Ordered
<1> QED BY <1>6, <1>7, <1>8, <1>9, <1>10, <1>11 DEF Inv

(* The pass looks at one more version.                                       *)
LEMMA InvScanVersion ==
  ASSUME TypeOK, Inv, ScanVersion
  PROVE  Inv'
<1> DEFINE s == current[cleaner.id]
           kept == cleaner.kept
           at == cleaner.at
           v == s[at]
<1>1. /\ cleaner \in [pc : {"scan"}, id : OrderIds, kept : Seq(Version), at : Nat \ {0}, end : Nat]
      /\ at <= cleaner.end
      /\ cleaner' = [cleaner EXCEPT !.at = at + 1, !.kept = Copied(kept, v)]
      /\ UNCHANGED <<current, announced, last, deleted, inserting, lock, feeder>>
  BY DEF ScanVersion, TypeOK, CleanerState, book
<1>2. s \in Seq(Version) /\ kept \in Seq(Version) /\ at \in DOMAIN s /\ v \in Version
  <2>1. cleaner.end = Len(s)
    BY <1>1 DEF Inv, Scanned
  <2>2. s \in Seq(Version) /\ kept \in Seq(Version)
    BY <1>1 DEF TypeOK
  <2> QED BY <1>1, <2>1, <2>2
<1>3. /\ cleaner'.pc = "scan" /\ cleaner'.id = cleaner.id /\ cleaner'.end = Len(s)
      /\ cleaner'.at = at + 1 /\ cleaner'.kept = Copied(kept, v)
  <2>1. cleaner.end = Len(s)
    BY <1>1 DEF Inv, Scanned
  <2> QED BY <1>1, <2>1
<1>4. /\ Ordered(kept)
      /\ \A i \in DOMAIN kept : kept[i] \in Elems(s)
      /\ \A i \in DOMAIN kept : \A j \in DOMAIN s : j >= at => kept[i].rev < s[j].rev
      /\ \A i \in DOMAIN s : i < at /\ Recent(s[i]) => s[i] \in Elems(kept)
  BY <1>1 DEF Inv, Scanned
<1>5. Ordered(s)
  BY <1>1 DEF Inv, ArrivalOrderKept, Ordered
<1>6. Accessors' /\ Visited' /\ Numbered' /\ GraceKept' /\ ArrivalOrderKept'
  <2>1. Accessors'
    BY <1>1, <1>3 DEF Inv, Accessors
  <2>2. Visited'
    BY <1>1, <1>3 DEF Inv, Visited, Gone
  <2>3. Numbered'
    BY <1>1 DEF Inv, Numbered
  <2>4. GraceKept'
    <3>1. UNCHANGED <<current, announced, last, deleted, inserting>>
      BY <1>1
    <3> QED BY <3>1 DEF Inv, GraceKept, Recent, Gone, Elems
  <2>5. ArrivalOrderKept'
    <3>1. UNCHANGED <<current, announced>>
      BY <1>1
    <3> QED BY <3>1 DEF Inv, ArrivalOrderKept, Elems
  <2> QED BY <2>1, <2>2, <2>3, <2>4, <2>5
<1>7. Scanned'
  <2> DEFINE new == Copied(kept, v)
  <2>1. DOMAIN s = 1 .. Len(s) /\ Len(s) \in Nat /\ at \in Nat
    BY <1>1, <1>2
  <2> SUFFICES /\ Ordered(new)
               /\ \A i \in DOMAIN new : new[i] \in Elems(s)
               /\ \A i \in DOMAIN new : \A j \in DOMAIN s : j >= at + 1 => new[i].rev < s[j].rev
               /\ \A i \in DOMAIN s : i < at + 1 /\ Recent(s[i]) => s[i] \in Elems(new)
    BY <1>1, <1>3 DEF Scanned, Ordered, Recent, Elems
  <2>2. CASE ~ Recent(v)
    <3>1. new = kept
      BY <2>2 DEF Copied, Ignored, Recent
    <3> HIDE DEF s, kept, at, v
    <3>2. \A i \in DOMAIN kept : \A j \in DOMAIN s : j >= at + 1 => kept[i].rev < s[j].rev
      BY <1>4, <2>1
    <3>3. \A i \in DOMAIN s : i < at + 1 => i < at \/ i = at
      BY <2>1
    <3>4. \A i \in DOMAIN s : i < at + 1 /\ Recent(s[i]) => s[i] \in Elems(kept)
      BY <1>4, <2>2, <3>3 DEF v
    <3> QED BY <1>4, <3>1, <3>2, <3>4
  <2>3. CASE Recent(v)
    <3>1. new = Append(kept, v)
      BY <2>3 DEF Copied, Ignored, Recent
    <3>2. v = s[at]
      OBVIOUS
    <3> HIDE DEF s, kept, at, v, new
    <3>3. /\ DOMAIN new = 1 .. (Len(kept) + 1)
          /\ DOMAIN kept = 1 .. Len(kept)
          /\ Len(kept) \in Nat
          /\ \A i \in DOMAIN kept : new[i] = kept[i]
          /\ new[Len(kept) + 1] = v
          /\ Elems(new) = Elems(kept) \union {v}
      BY <1>2, <3>1, AppendElems
    <3>4. \A i \in DOMAIN kept : kept[i].rev < v.rev
      BY <1>2, <1>4, <2>1, <3>2
    <3>5. Ordered(new)
      BY <1>4, <3>3, <3>4 DEF Ordered
    <3>6. \A i \in DOMAIN new : new[i] \in Elems(s)
      <4>1. v \in Elems(s)
        BY <1>2, <3>2 DEF Elems
      <4> QED BY <1>4, <3>3, <4>1
    <3>7. \A j \in DOMAIN s : j >= at + 1 => v.rev < s[j].rev
      BY <1>2, <1>5, <2>1, <3>2 DEF Ordered
    <3>8. \A i \in DOMAIN new : \A j \in DOMAIN s : j >= at + 1 => new[i].rev < s[j].rev
      BY <1>4, <2>1, <3>3, <3>7
    <3>9. \A i \in DOMAIN s : i < at + 1 => i < at \/ i = at
      BY <2>1
    <3>10. \A i \in DOMAIN s : i < at + 1 /\ Recent(s[i]) => s[i] \in Elems(new)
      BY <1>4, <3>2, <3>3, <3>9
    <3> QED BY <3>5, <3>6, <3>8, <3>10
  <2> QED BY <2>2, <2>3
<1> QED BY <1>6, <1>7 DEF Inv

LEMMA InvStep == TypeOK /\ Inv /\ [Next]_vars => Inv'
<1> SUFFICES ASSUME TypeOK, Inv, [Next]_vars
             PROVE  Inv'
  OBVIOUS
<1>1. ASSUME NEW id \in OrderIds, NEW t \in Times, FeedOrder(id, t) \/ PukeUnknown(id, t)
      PROVE  Inv'
  BY <1>1, InvAdvance DEF FeedOrder, PukeUnknown, Deliver, Idle
<1>2. ASSUME NEW t \in Times, NEW b \in OrderIds, NEW s \in OrderIds, FeedTrade(t, b, s)
      PROVE  Inv'
  BY <1>2, InvAdvance DEF FeedTrade, Deliver, Idle
<1>3. CASE \/ \E id \in OrderIds : PukeKnown(id)
           \/ BeginMark \/ EndMark
  BY <1>3, InvPuke
<1>4. CASE StoreOrder
  BY <1>4, InvStoreOrder
<1>5. CASE RetrieveBuy \/ RetrieveSell \/ FeedHistory \/ TradeDone
  BY <1>5, InvKept DEF RetrieveBuy, RetrieveSell, FeedHistory, TradeDone
<1>6. CASE Wake \/ SkipId \/ EndPass
  <2> SUFFICES /\ UNCHANGED <<book, announced, feeder>>
               /\ cleaner.pc # "scan" /\ cleaner'.pc # "scan"
               /\ cleaner'.pc = "find" => cleaner'.id \in Gone \union {0}
    BY InvKept
  <2>1. CASE Wake
    BY <2>1, WalkStaysOnGone DEF Wake
  <2>2. CASE SkipId
    BY <2>2, WalkStaysOnGone DEF SkipId
  <2>3. CASE EndPass
    BY <2>3 DEF EndPass
  <2> QED BY <1>6, <2>1, <2>2, <2>3
<1>7. CASE LockId
  BY <1>7, InvLockId
<1>8. CASE ScanVersion
  BY <1>8, InvScanVersion
<1>9. CASE StoreKept
  BY <1>9, InvStoreKept
<1>10. CASE MainStep \/ UNCHANGED vars
  <2>1. UNCHANGED <<book, announced, feeder, cleaner>>
    BY <1>10 DEF MainStep, BeginHistorize, EndHistorize, BeginDestroy, EndDestroy, vars
  <2> QED BY <2>1, InvKept
<1> QED
  BY <1>1, <1>2, <1>3, <1>4, <1>5, <1>6, <1>7, <1>8, <1>9, <1>10
  DEF Next, Event, FeederStep, CleanerStep, Destroyed

LEMMA Invariant == Spec => [](TypeOK /\ Inv)
<1>1. Init => TypeOK /\ Inv
  BY TypeInit, InvInit
<1>2. (TypeOK /\ Inv) /\ [Next]_vars => (TypeOK /\ Inv)'
  <2>1. Inv => EndIsCurrent
    BY DEF Inv, Scanned, EndIsCurrent
  <2> QED BY <2>1, TypeStep, InvStep
<1> QED BY <1>1, <1>2, PTL DEF Spec

(* Every variable of the source keeps its type, whatever the interleaving of *)
(* callbacks, cleanup passes and calls of the main thread.                   *)
THEOREM TypeCorrect == Spec => []TypeOK
  BY Invariant, PTL

(* No cleanup pass, wherever callbacks interleave with it, costs the book a  *)
(* version that is young or that belongs to an order that was not deleted.   *)
THEOREM GraceIsKept == Spec => []GraceKept
<1>1. Inv => GraceKept
  BY DEF Inv
<1> QED BY <1>1, Invariant, PTL

(* The book never invents or reorders versions of an order.                  *)
THEOREM ArrivalOrderIsKept == Spec => []ArrivalOrderKept
<1>1. Inv => ArrivalOrderKept
  BY DEF Inv
<1> QED BY <1>1, Invariant, PTL

-----------------------------------------------------------------------------
(* A trade is matched with versions at least as late as the book owes it.    *)

LEMMA RetrieveAnswers ==
  ASSUME TypeOK, Inv, NEW id \in OrderIds, NEW t \in Times
  PROVE  Answers(Retrieve(current[id], t), id, t)
<1> DEFINE r == Retrieve(current[id], t)
<1>1. t \in Nat /\ current[id] \in Seq(Version)
  BY TimesAssumption DEF TypeOK
<1>2. \/ r = NoOrder /\ \A i \in DOMAIN current[id] : ~ (current[id][i].ts <= t)
      \/ /\ r \in Elems(current[id])
         /\ r.ts <= t
         /\ \A i \in DOMAIN current[id] : current[id][i].ts <= t => current[id][i].ts <= r.ts
  BY <1>1, RetrieveIsLatest
<1> HIDE DEF r
<1>3. r # NoOrder => r.ts <= t /\ r \in Elems(announced[id])
  BY <1>2 DEF Inv, ArrivalOrderKept
<1>4. ASSUME NEW w \in Elems(announced[id]),
             w.ts <= t, Recent(w) \/ id \notin Gone
      PROVE  r.ts >= w.ts
  <2>1. w \in Elems(current[id])
    BY <1>4 DEF Inv, GraceKept
  <2>2. PICK i \in DOMAIN current[id] : w = current[id][i]
    BY <2>1 DEF Elems
  <2>3. w.ts <= r.ts /\ r \in Elems(current[id])
    BY <1>2, <1>4, <2>2
  <2>4. \A v \in Elems(current[id]) : v.ts \in Nat
    <3>1. \A v \in Elems(current[id]) : v \in Version
      BY <1>1 DEF Elems
    <3> QED BY <3>1, TimesAssumption DEF Version
  <2> QED BY <2>1, <2>3, <2>4
<1> QED BY <1>3, <1>4 DEF Answers, r

(* Every trade, in every interleaving, is matched with orders no newer than  *)
(* itself and no older than what the book owes it.                           *)
THEOREM TradesSeeTheirOrders == Spec => TradeSeesItsOrders
<1> DEFINE A == /\ feeder.pc = "buy" /\ feeder'.pc = "sell"
                     => Answers(feeder'.buy, feeder.buyId, feeder.ts)
                /\ feeder.pc = "sell" /\ feeder'.pc = "fan"
                     => Answers(feeder'.sell, feeder.sellId, feeder.ts)
<1>1. TypeOK /\ Inv /\ [Next]_vars => [A]_vars
  <2> SUFFICES ASSUME TypeOK, Inv, Next
               PROVE  A
    OBVIOUS
  <2>1. feeder \in FeederState
    BY DEF TypeOK
  <2>2. CASE RetrieveBuy
    <3>1. feeder.buyId \in OrderIds /\ feeder.ts \in Times
      BY <2>1, <2>2 DEF RetrieveBuy, FeederState, Idle
    <3>2. feeder'.buy = Retrieve(current[feeder.buyId], feeder.ts) /\ feeder'.pc = "sell"
      BY <2>2 DEF RetrieveBuy
    <3> QED BY <2>2, <3>1, <3>2, RetrieveAnswers DEF RetrieveBuy
  <2>3. CASE RetrieveSell
    <3>1. feeder.sellId \in OrderIds /\ feeder.ts \in Times
      BY <2>1, <2>3 DEF RetrieveSell, FeederState, Idle
    <3>2. feeder'.sell = Retrieve(current[feeder.sellId], feeder.ts) /\ feeder'.pc = "fan"
      BY <2>3 DEF RetrieveSell
    <3> QED BY <2>3, <3>1, <3>2, RetrieveAnswers DEF RetrieveSell
  <2>4. CASE Event
    BY <2>4 DEF Event, FeedOrder, PukeKnown, PukeUnknown, FeedTrade, Deliver, Idle
  <2>5. CASE StoreOrder \/ BeginMark \/ EndMark \/ FeedHistory \/ TradeDone
    BY <2>5 DEF StoreOrder, BeginMark, EndMark, FeedHistory, TradeDone, Idle
  <2>6. CASE CleanerStep \/ MainStep \/ Destroyed
    <3>1. UNCHANGED feeder
      BY <2>6 DEF CleanerStep, Wake, SkipId, LockId, ScanVersion, StoreKept, EndPass,
                  MainStep, BeginHistorize, EndHistorize, BeginDestroy, EndDestroy,
                  Destroyed, vars
    <3> QED BY <3>1
  <2> QED BY <2>2, <2>3, <2>4, <2>5, <2>6 DEF Next, FeederStep
<1> QED BY <1>1, Invariant, PTL DEF Spec, TradeSeesItsOrders

-----------------------------------------------------------------------------
(* The threads implement the order book of OrderBook: a callback that moves  *)
(* the clock is an Advance, the map access of feed an Announce, the start of *)
(* the insertion of an id a Delete, and the end of a turn of cleanup a Purge.*)

LEMMA BookInit == Init => Book!Init
  BY DEF Init, Book!Init, Gone

LEMMA BookClock ==
  ASSUME TypeOK, NEW t \in Times, last' = Later(t),
         UNCHANGED <<current, deleted, inserting>>
  PROVE  [Book!Next]_Book!vars
<1>1. UNCHANGED <<current, Gone>>
  BY DEF Gone
<1>2. CASE t > last
  <2>1. last' = t
    BY <1>2 DEF Later
  <2>2. Book!Advance
    BY <1>1, <1>2, <2>1 DEF Book!Advance
  <2> QED BY <2>2 DEF Book!Next
<1>3. CASE ~ (t > last)
  BY <1>1, <1>3 DEF Later, Book!vars
<1> QED BY <1>2, <1>3

LEMMA BookAnnounce ==
  ASSUME TypeOK, StoreOrder
  PROVE  Book!Next
<1> DEFINE o == feeder.id
           v == [ts |-> feeder.ts, rev |-> Len(announced[o]) + 1]
<1>1. o \in OrderIds /\ feeder.ts \in Times
  BY DEF StoreOrder, TypeOK, FeederState, Idle
<1>2. v \in Version /\ v \in Book!Version
  BY <1>1 DEF TypeOK, Version, Book!Version
<1>3. /\ current' = [current EXCEPT ![o] = Append(@, v)]
      /\ UNCHANGED <<last, deleted, inserting>>
  BY DEF StoreOrder
<1> HIDE DEF o, v
<1>4. current[o] \in Seq(Version) /\ current'[o] = Append(current[o], v)
  BY <1>1, <1>3 DEF TypeOK
<1>5. Len(current'[o]) = Len(current[o]) + 1 /\ current'[o][Len(current'[o])] = v
  BY <1>2, <1>4
<1>6. UNCHANGED <<Gone, last>>
  BY <1>3 DEF Gone
<1>7. Book!Announce(o)
  BY <1>2, <1>3, <1>5, <1>6 DEF Book!Announce
<1> QED BY <1>1, <1>7 DEF Book!Next

LEMMA BookPurge ==
  ASSUME TypeOK, Inv, StoreKept
  PROVE  Book!Next
<1> DEFINE c == cleaner.id
           kept == cleaner.kept
<1>1. /\ c \in OrderIds
      /\ kept \in Seq(Version)
      /\ cleaner.at \in Nat
      /\ cleaner.at > cleaner.end
      /\ cleaner.pc = "scan"
      /\ current' = [current EXCEPT ![c] = kept]
      /\ UNCHANGED <<last, deleted, inserting>>
  BY DEF StoreKept, TypeOK, CleanerState
<1>2. c \in Gone
  BY <1>1, OrderIdsAssumption DEF Inv, Visited
<1>3. current'[c] = kept
  BY <1>1 DEF TypeOK
<1>4. Elems(kept) \subseteq Elems(current[c])
  BY <1>1 DEF Inv, Scanned, Elems
<1>5. \A v \in Elems(current[c]) : Recent(v) => v \in Elems(kept)
  <2>1. \A i \in DOMAIN current[c] : i < cleaner.at
    <3>1. DOMAIN current[c] = 1 .. Len(current[c]) /\ Len(current[c]) \in Nat
      BY <1>1 DEF TypeOK
    <3>2. cleaner.end = Len(current[c])
      BY <1>1 DEF Inv, Scanned
    <3> QED BY <1>1, <3>1, <3>2
  <2> QED BY <1>1, <2>1 DEF Inv, Scanned, Elems
<1> HIDE DEF c, kept
<1>6. UNCHANGED <<Gone, last>>
  BY <1>1 DEF Gone
<1>7. current' = [current EXCEPT ![c] = current'[c]]
  BY <1>1, <1>3
<1>8. Elems(current'[c]) \subseteq Elems(current[c])
  BY <1>3, <1>4
<1>9. \A v \in Elems(current[c]) : Recent(v) => v \in Elems(current'[c])
  BY <1>3, <1>5
<1>10. Book!Purge(c)
  BY <1>2, <1>6, <1>7, <1>8, <1>9 DEF Book!Purge, Book!Elems, Elems, Book!RecentAt, Recent
<1> QED BY <1>1, <1>10 DEF Book!Next

LEMMA BookStep == TypeOK /\ Inv /\ [Next]_vars => [Book!Next]_Book!vars
<1> SUFFICES ASSUME TypeOK, Inv, [Next]_vars
             PROVE  [Book!Next]_Book!vars
  OBVIOUS
<1>1. ASSUME NEW id \in OrderIds, NEW t \in Times, FeedOrder(id, t) \/ PukeUnknown(id, t)
      PROVE  [Book!Next]_Book!vars
  BY <1>1, BookClock DEF FeedOrder, PukeUnknown
<1>2. ASSUME NEW t \in Times, NEW b \in OrderIds, NEW s \in OrderIds, FeedTrade(t, b, s)
      PROVE  [Book!Next]_Book!vars
  BY <1>2, BookClock DEF FeedTrade
<1>3. CASE StoreOrder
  BY <1>3, BookAnnounce
<1>4. CASE BeginMark
  <2>1. feeder.id \in OrderIds /\ feeder.id # 0
    BY <1>4, OrderIdsAssumption DEF BeginMark, TypeOK, FeederState, Idle
  <2>2. Gone' = Gone \union {feeder.id} /\ UNCHANGED <<current, last>>
    BY <1>4, <2>1 DEF BeginMark, Gone
  <2> QED BY <2>1, <2>2 DEF Book!Next, Book!Delete
<1>5. CASE EndMark
  <2>1. UNCHANGED <<current, Gone, last>>
    BY <1>5 DEF EndMark, Gone
  <2> QED BY <2>1 DEF Book!vars
<1>6. CASE StoreKept
  BY <1>6, BookPurge
<1>7. CASE \/ \E id \in OrderIds : PukeKnown(id)
           \/ RetrieveBuy \/ RetrieveSell \/ FeedHistory \/ TradeDone
           \/ Wake \/ SkipId \/ LockId \/ ScanVersion \/ EndPass
           \/ MainStep \/ UNCHANGED vars
  <2>1. UNCHANGED <<current, last, deleted, inserting>>
    BY <1>7 DEF PukeKnown, RetrieveBuy, RetrieveSell, FeedHistory, TradeDone, Wake, SkipId,
                LockId, ScanVersion, EndPass, MainStep, BeginHistorize, EndHistorize,
                BeginDestroy, EndDestroy, vars, book
  <2> QED BY <2>1 DEF Book!vars, Gone
<1> QED
  BY <1>1, <1>2, <1>3, <1>4, <1>5, <1>6, <1>7
  DEF Next, Event, FeederStep, CleanerStep, Destroyed

(* The source implements the atomic order book: what holds of OrderBook      *)
(* holds of the threads of a Source.                                         *)
THEOREM SourceImplementsOrderBook == Spec => RefinesOrderBook
  BY BookInit, BookStep, Invariant, PTL DEF Spec, RefinesOrderBook, Book!Spec
-----------------------------------------------------------------------------
(* The fan-out of a trade. That no history is missed is not inductive by     *)
(* itself: the walk must be known to go up while no historize races with it, *)
(* and the number of the trade to be that of the last event, which nothing   *)
(* fed before has.                                                           *)

Told(h) ==
  /\ received[h] # <<>>
  /\ \A i \in DOMAIN received[h] : received[h][i].n = feeder.n <=> i = Len(received[h])
Untold(h) == \A i \in DOMAIN received[h] : received[h][i].n # feeder.n

Numbers == \A h \in Histories : \A i \in DOMAIN received[h] : received[h][i].n <= events

Fanned ==
  /\ Numbers
  /\ feeder.pc \in {"buy", "sell", "fan"} => feeder.n = events
  /\ feeder.pc \in {"buy", "sell"} => \A h \in Histories : Untold(h)
  /\ feeder.pc = "fan" /\ ~ raced =>
       /\ historizing = 0
       /\ \A h \in registered : IF feeder.to = 0 \/ h < feeder.to THEN Told(h) ELSE Untold(h)

\* A walk that nothing races goes up, and leaves nothing out.
LEMMA WalkGoesUp ==
  ASSUME TypeOK, historizing = 0, NEW cursor \in Histories \union {0},
         NEW next \in NextHistory(cursor), NEW h \in registered
  PROVE  /\ next \in registered \union {0}
         /\ next # 0 => next > cursor
         /\ next = 0 \/ h < next => h <= cursor
<1> DEFINE above == {x \in registered : x > cursor}
<1>1. next \in IF above = {} THEN {0} ELSE {x \in above : \A y \in above : x <= y}
  BY DEF NextHistory, Successors
<1>2. registered \subseteq Nat /\ cursor \in Nat /\ h \in Nat
  BY HistoriesAssumption DEF TypeOK
<1>3. CASE above = {}
  BY <1>1, <1>2, <1>3
<1>4. CASE above # {}
  <2>1. next \in registered /\ next > cursor /\ next \in Nat /\ next # 0
    BY <1>1, <1>2, <1>4
  <2>2. h > cursor => next <= h
    BY <1>1, <1>4
  <2> QED BY <1>2, <2>1, <2>2
<1> QED BY <1>3, <1>4

LEMMA ReceivedType ==
  ASSUME TypeOK
  PROVE  events \in Nat /\ \A h \in Histories : \A i \in DOMAIN received[h] : received[h][i].n \in Nat
<1>1. ASSUME NEW h \in Histories, NEW i \in DOMAIN received[h] PROVE received[h][i].n \in Nat
  <2>1. received[h] \in Seq(Fed)
    BY DEF TypeOK
  <2>2. received[h][i] \in Fed
    BY <2>1
  <2> QED BY <2>2 DEF Fed
<1> QED BY <1>1 DEF TypeOK

(* Steps that leave the fan-out and the trade as they are: those of the book *)
(* and of the cleaner.                                                       *)
LEMMA FannedKept ==
  ASSUME TypeOK, Fanned, UNCHANGED <<received, registered, historizing, raced>>,
         \/ UNCHANGED <<feeder, events>>
         \/ events' \in Nat /\ events' >= events /\ feeder'.pc \notin {"buy", "sell", "fan"}
  PROVE  Fanned'
<1>1. events \in Nat /\ \A h \in Histories : \A i \in DOMAIN received[h] : received[h][i].n \in Nat
  BY ReceivedType
<1>2. Numbers'
  BY <1>1 DEF Fanned, Numbers
<1>3. CASE UNCHANGED <<feeder, events>>
  BY <1>2, <1>3 DEF Fanned, Told, Untold
<1>4. CASE feeder'.pc \notin {"buy", "sell", "fan"}
  BY <1>2, <1>4 DEF Fanned
<1> QED BY <1>3, <1>4

\* A trade begins with a number that no history has.
LEMMA FannedFeedTrade ==
  ASSUME TypeOK, Fanned, NEW t \in Times, NEW b \in OrderIds, NEW s \in OrderIds, FeedTrade(t, b, s)
  PROVE  Fanned'
<1>1. events \in Nat /\ \A h \in Histories : \A i \in DOMAIN received[h] : received[h][i].n \in Nat
  BY ReceivedType
<1>2. events' = events + 1 /\ received' = received
      /\ feeder' = [pc |-> "buy", n |-> events + 1, ts |-> t, buyId |-> b, sellId |-> s]
  BY DEF FeedTrade, Deliver, fan
<1>3. feeder'.pc = "buy" /\ feeder'.n = events'
  BY <1>2
<1>4. Numbers' /\ \A h \in Histories : Untold(h)'
  <2>1. ASSUME NEW h \in Histories, NEW i \in DOMAIN received[h]
        PROVE  received[h][i].n <= events + 1 /\ received[h][i].n # events + 1
    BY <1>1 DEF Fanned, Numbers
  <2> QED BY <1>2, <1>3, <2>1 DEF Numbers, Untold
<1> QED BY <1>3, <1>4 DEF Fanned

LEMMA FannedRetrieveSell ==
  ASSUME TypeOK, Fanned, RetrieveSell
  PROVE  Fanned'
<1>1. /\ feeder.pc = "sell" /\ UNCHANGED <<received, registered, historizing, events>>
      /\ raced' = (historizing # 0)
  BY DEF RetrieveSell
<1>2. PICK h \in NextHistory(0) :
        feeder' = [pc |-> "fan", n |-> feeder.n, buy |-> feeder.buy, to |-> h,
                   sell |-> Retrieve(current[feeder.sellId], feeder.ts)]
  BY DEF RetrieveSell
<1>3. feeder'.pc = "fan" /\ feeder'.n = feeder.n /\ feeder'.to = h
  BY <1>2
<1>4. Numbers' /\ feeder'.n = events'
  BY <1>1, <1>3 DEF Fanned, Numbers
<1>5. ASSUME ~ raced', NEW g \in registered
      PROVE  ~ (h = 0 \/ g < h) /\ Untold(g)'
  <2>1. historizing = 0 /\ g \in Histories /\ g \in Nat \ {0}
    BY <1>1, <1>5, HistoriesAssumption DEF TypeOK
  <2>2. h = 0 \/ g < h => g <= 0
    BY <2>1, WalkGoesUp
  <2>3. Untold(g)
    BY <1>1, <2>1 DEF Fanned
  <2> QED BY <1>1, <1>3, <2>1, <2>2, <2>3 DEF Untold
<1> QED BY <1>1, <1>3, <1>4, <1>5 DEF Fanned

LEMMA FannedFeedHistory ==
  ASSUME TypeOK, Fanned, FeedHistory
  PROVE  Fanned'
<1> DEFINE e == [n |-> feeder.n,
                 orders |-> IF feeder.sell # NoOrder THEN <<feeder.buy, feeder.sell>> ELSE <<>>]
<1>1. /\ feeder.pc = "fan" /\ feeder.to \in Histories /\ feeder.to \in Nat \ {0}
      /\ feeder \in [pc : {"fan"}, n : Nat, buy : Version \union {NoOrder},
                     sell : Version \union {NoOrder}, to : Histories \union {0}]
      /\ UNCHANGED <<registered, historizing, raced, events>>
  BY HistoriesAssumption DEF FeedHistory, TypeOK, FeederState, Idle
<1>2. received' = [received EXCEPT ![feeder.to] = Append(@, e)]
  BY DEF FeedHistory
<1>3. PICK h \in NextHistory(feeder.to) : feeder' = [feeder EXCEPT !.to = h]
  BY DEF FeedHistory
<1>4. feeder'.pc = "fan" /\ feeder'.n = feeder.n /\ feeder'.to = h
  BY <1>1, <1>3
<1>5. \A g \in Histories : received[g] \in Seq(Fed)
  BY DEF TypeOK
<1>6. e \in Fed /\ e.n = feeder.n
  <2>1. <<feeder.buy, feeder.sell>> \in Seq(Version \union {NoOrder}) /\ <<>> \in Seq(Version \union {NoOrder})
    BY <1>1
  <2> QED BY <1>1, <2>1 DEF Fed
<1> HIDE DEF e
<1>7. \A g \in Histories \ {feeder.to} : received'[g] = received[g]
  BY <1>2 DEF TypeOK
<1>8. /\ received'[feeder.to] = Append(received[feeder.to], e)
  BY <1>1, <1>2 DEF TypeOK
<1>9. \A i \in DOMAIN received'[feeder.to] :
        \/ i \in DOMAIN received[feeder.to] /\ received'[feeder.to][i] = received[feeder.to][i]
           /\ i # Len(received'[feeder.to])
        \/ i = Len(received'[feeder.to]) /\ received'[feeder.to][i] = e
  <2> DEFINE s == received[feeder.to]
  <2>1. s \in Seq(Fed)
    BY <1>1, <1>5
  <2> HIDE DEF s
  <2>2. \A i \in DOMAIN Append(s, e) :
          \/ i \in DOMAIN s /\ Append(s, e)[i] = s[i] /\ i # Len(Append(s, e))
          \/ i = Len(Append(s, e)) /\ Append(s, e)[i] = e
    BY <1>6, <2>1
  <2> QED BY <1>8, <2>2 DEF s
<1>10. received'[feeder.to] # <<>>
  BY <1>1, <1>5, <1>6, <1>8
<1>11. Numbers' /\ feeder'.n = events'
  <2>1. feeder.n = events
    BY <1>1 DEF Fanned
  <2>2. ASSUME NEW g \in Histories, NEW i \in DOMAIN received'[g] PROVE received'[g][i].n <= events
    <3>1. CASE g = feeder.to
      BY <1>1, <1>6, <1>9, <2>1, <3>1 DEF Fanned, Numbers
    <3>2. CASE g # feeder.to
      BY <1>7, <3>2 DEF Fanned, Numbers
    <3> QED BY <3>1, <3>2
  <2> QED BY <1>1, <1>4, <2>1, <2>2 DEF Numbers
<1>12. ASSUME ~ raced', NEW g \in registered
       PROVE  historizing = 0 /\ IF h = 0 \/ g < h THEN Told(g)' ELSE Untold(g)'
  <2>1. /\ historizing = 0 /\ g \in Histories /\ g \in Nat \ {0}
        /\ IF g < feeder.to THEN Told(g) ELSE Untold(g)
    BY <1>1, <1>12, HistoriesAssumption DEF Fanned, TypeOK
  <2>2. /\ h \in Nat /\ (h # 0 => h > feeder.to) /\ (h = 0 \/ g < h => g <= feeder.to)
    <3>1. /\ h \in registered \union {0} /\ (h # 0 => h > feeder.to)
          /\ (h = 0 \/ g < h => g <= feeder.to)
      BY <1>1, <1>3, <1>12, <2>1, WalkGoesUp
    <3> QED BY <3>1, HistoriesAssumption DEF TypeOK
  <2>3. CASE g = feeder.to
    <3>1. Untold(g)
      BY <1>1, <2>1, <2>3
    <3>2. Told(g)'
      BY <1>4, <1>6, <1>9, <1>10, <2>3, <3>1 DEF Told, Untold
    <3>3. h = 0 \/ g < h
      BY <1>1, <2>2, <2>3
    <3> QED BY <2>1, <3>2, <3>3
  <2>4. CASE g # feeder.to
    <3>1. (Told(g) <=> Told(g)') /\ (Untold(g) <=> Untold(g)')
      BY <1>4, <1>7, <2>1, <2>4 DEF Told, Untold
    <3>2. (h = 0 \/ g < h) <=> g < feeder.to
      BY <1>1, <2>1, <2>2, <2>4
    <3> QED BY <2>1, <3>1, <3>2
  <2> QED BY <2>3, <2>4
<1> QED BY <1>1, <1>4, <1>11, <1>12 DEF Fanned

LEMMA FannedStep == TypeOK /\ TypeOK' /\ Fanned /\ [Next]_vars => Fanned'
<1> SUFFICES ASSUME TypeOK, TypeOK', Fanned, [Next]_vars
             PROVE  Fanned'
  OBVIOUS
<1>1. CASE \E id \in OrderIds : PukeKnown(id) \/ \E t \in Times : FeedOrder(id, t) \/ PukeUnknown(id, t)
  <2>1. events \in Nat /\ events' = events + 1 /\ feeder'.pc \in {"store", "mark"}
        /\ UNCHANGED <<received, registered, historizing, raced>>
    BY <1>1 DEF FeedOrder, PukeUnknown, PukeKnown, Deliver, fan, TypeOK
  <2> QED BY <2>1, FannedKept
<1>2. ASSUME NEW t \in Times, NEW b \in OrderIds, NEW s \in OrderIds, FeedTrade(t, b, s)
      PROVE  Fanned'
  BY <1>2, FannedFeedTrade
<1>3. CASE StoreOrder \/ BeginMark \/ EndMark \/ TradeDone
  <2>1. events \in Nat /\ events' = events /\ UNCHANGED <<received, registered, historizing, raced>>
    BY <1>3 DEF StoreOrder, BeginMark, EndMark, TradeDone, fan, TypeOK
  <2>2. UNCHANGED feeder \/ feeder'.pc \in {"mark", "idle"}
    BY <1>3 DEF StoreOrder, BeginMark, EndMark, TradeDone, Idle
  <2> QED BY <2>1, <2>2, FannedKept
<1>4. CASE RetrieveBuy
  <2>1. feeder.pc = "buy" /\ feeder'.pc = "sell" /\ feeder'.n = feeder.n
        /\ UNCHANGED <<received, registered, historizing, raced, events>>
    BY <1>4 DEF RetrieveBuy, fan
  <2> QED BY <2>1 DEF Fanned, Numbers, Untold
<1>5. CASE RetrieveSell
  BY <1>5, FannedRetrieveSell
<1>6. CASE FeedHistory
  BY <1>6, FannedFeedHistory
<1>7. CASE CleanerStep \/ BeginDestroy \/ EndDestroy \/ UNCHANGED vars
  <2>1. UNCHANGED <<received, registered, historizing, raced, feeder, events>>
    BY <1>7 DEF CleanerStep, Wake, SkipId, LockId, ScanVersion, StoreKept, EndPass,
                BeginDestroy, EndDestroy, vars, fan
  <2> QED BY <2>1, FannedKept
<1>8. CASE EndHistorize \/ \E h \in Histories : BeginHistorize(h)
  <2>1. UNCHANGED <<received, feeder, events>> /\ (feeder.pc = "fan" => raced')
    BY <1>8 DEF EndHistorize, BeginHistorize, Fanned, TypeOK
  <2> QED BY <2>1 DEF Fanned, Numbers, Untold
<1> QED
  BY <1>1, <1>2, <1>3, <1>4, <1>5, <1>6, <1>7, <1>8
  DEF Next, Event, FeederStep, MainStep, Destroyed

(* When feed(Trade&) returns and no historize raced with its walk, every     *)
(* registered history has the trade, once and as its last one (lines 54-62). *)
THEOREM HistoriesAreAllFed == Spec => HistoriesMissNothing
<1> DEFINE A == feeder.pc = "fan" /\ feeder'.pc = "idle" /\ ~ raced =>
                  \A h \in registered :
                    LET log == received[h] IN
                      /\ log # <<>>
                      /\ \A i \in DOMAIN log : log[i].n = feeder.n <=> i = Len(log)
<1>1. Init => Fanned
  BY DEF Init, Fanned, Numbers, Idle
<1>2. Spec => []Fanned
  BY <1>1, FannedStep, TypeCorrect, PTL DEF Spec
<1>3. Fanned /\ [Next]_vars => [A]_vars
  <2> SUFFICES ASSUME Fanned, Next, feeder.pc = "fan", feeder'.pc = "idle", ~ raced
               PROVE  \A h \in registered : Told(h)
    BY DEF Told
  <2>1. feeder.to = 0
    <3>1. CASE TradeDone
      BY <3>1 DEF TradeDone
    <3>2. CASE Event \/ StoreOrder \/ BeginMark \/ EndMark \/ RetrieveBuy \/ RetrieveSell
      BY <3>2 DEF Event, FeedOrder, PukeKnown, PukeUnknown, FeedTrade, Deliver, Idle,
                  StoreOrder, BeginMark, EndMark, RetrieveBuy, RetrieveSell
    <3>3. CASE FeedHistory
      BY <3>3 DEF FeedHistory
    <3>4. CASE CleanerStep \/ MainStep \/ Destroyed
      BY <3>4 DEF CleanerStep, Wake, SkipId, LockId, ScanVersion, StoreKept, EndPass,
                  MainStep, BeginHistorize, EndHistorize, BeginDestroy, EndDestroy, Destroyed, vars
    <3> QED BY <3>1, <3>2, <3>3, <3>4 DEF Next, FeederStep
  <2> QED BY <2>1 DEF Fanned
<1> QED BY <1>2, <1>3, PTL DEF Spec, HistoriesMissNothing

-----------------------------------------------------------------------------
(* The destructor.                                                           *)

Joined ==
  /\ main # "alive" => feeder = Idle /\ historizing = 0
  /\ main = "destroyed" => cleaner.pc = "done"

LEMMA JoinedStep == Joined /\ [Next]_vars => Joined'
<1> SUFFICES ASSUME Joined, [Next]_vars
             PROVE  Joined'
  OBVIOUS
<1>1. CASE Event
  BY <1>1 DEF Event, FeedOrder, PukeKnown, PukeUnknown, FeedTrade, Deliver, Joined
<1>2. CASE FeederStep
  BY <1>2 DEF FeederStep, StoreOrder, BeginMark, EndMark, RetrieveBuy, RetrieveSell, FeedHistory,
              TradeDone, Joined, Idle
<1>3. CASE CleanerStep
  <2>1. UNCHANGED <<main, feeder, historizing>> /\ cleaner.pc # "done"
    BY <1>3 DEF CleanerStep, Wake, SkipId, LockId, ScanVersion, StoreKept, EndPass, fan
  <2> QED BY <2>1 DEF Joined
<1>4. CASE MainStep
  BY <1>4 DEF MainStep, BeginHistorize, EndHistorize, BeginDestroy, EndDestroy, fan, Joined
<1>5. CASE UNCHANGED vars
  BY <1>5 DEF vars, fan, Joined
<1> QED BY <1>1, <1>2, <1>3, <1>4, <1>5 DEF Next, Destroyed

(* Once ~Source has returned nothing runs in it any more: the feeder was     *)
(* joined before it and the cleaner by it (lines 26-29).                     *)
THEOREM TheDestroyedAreQuiet == Spec => DestroyedIsQuiet
<1>1. Init => Joined
  BY DEF Init, Joined
<1>2. Joined /\ [Next]_vars => [main = "destroyed" => UNCHANGED vars]_vars
  <2> SUFFICES ASSUME Joined, Next, main = "destroyed" PROVE UNCHANGED vars
    OBVIOUS
  <2>1. feeder = Idle /\ cleaner.pc = "done" /\ historizing = 0
    BY DEF Joined
  <2> QED BY <2>1 DEF Next, Event, FeedOrder, PukeKnown, PukeUnknown, FeedTrade, Deliver,
             FeederStep, StoreOrder, BeginMark, EndMark, RetrieveBuy, RetrieveSell, FeedHistory, TradeDone,
             CleanerStep, Wake, SkipId, LockId, ScanVersion, StoreKept, EndPass,
             MainStep, BeginHistorize, EndHistorize, BeginDestroy, EndDestroy, Destroyed, Idle
<1> QED BY <1>1, <1>2, JoinedStep, PTL DEF Spec, DestroyedIsQuiet
=============================================================================
