----------------------------- MODULE RangesProofs -----------------------------
(* What holds of Ranges for any keys, records, containers and ranges over     *)
(* them: what an iterator stands on and holds, the order of what it shows,    *)
(* and that it misses nothing. The sorted container is a sequence of keys;    *)
(* what LowerBound, UpperBound and the finds of the tree compute on it is     *)
(* stated as lemmas first.                                                    *)
EXTENDS Ranges, LeastNumber, SequenceTheorems, TLAPS

-----------------------------------------------------------------------------
(* The order of a sorted container.                                          *)

LEMMA KeysAreNumbers ==
  ASSUME items \in Seq(Keys), NEW i \in DOMAIN items
  PROVE  items[i] \in Nat /\ items[i] \in Keys /\ i \in Nat \ {0}
<1>1. DOMAIN items = 1 .. Len(items) /\ Len(items) \in Nat
  OBVIOUS
<1>2. items[i] \in Keys
  BY ElementOfSeq, <1>1
<1>3. i \in 1 .. Len(items)
  BY <1>1
<1>4. i \in Nat /\ i # 0
  BY <1>1, <1>3
<1>5. items[i] \in Nat
  BY <1>2, KeysAssumption
<1> QED BY <1>2, <1>4, <1>5

LEMMA Total ==
  ASSUME items \in Seq(Keys), NEW i \in DOMAIN items, NEW j \in DOMAIN items
  PROVE  /\ i = j \/ Before(i, j) \/ Before(j, i)
         /\ ~ (Before(i, j) /\ Before(j, i)) /\ ~ Before(i, i)
         /\ Before(i, j) => items[i] <= items[j]
         /\ items[i] < items[j] => Before(i, j)
  BY KeysAreNumbers DEF Before

LEMMA Transitive ==
  ASSUME items \in Seq(Keys),
         NEW i \in DOMAIN items, NEW j \in DOMAIN items, NEW k \in DOMAIN items
  PROVE  Before(i, j) /\ Before(j, k) => Before(i, k)
  BY KeysAreNumbers DEF Before

\* Any records there are have a first and a last.
LEMMA Extremes ==
  ASSUME items \in Seq(Keys)
  PROVE  \A S \in SUBSET DOMAIN items : S # {} =>
           /\ \E i \in S : \A j \in S : i = j \/ Before(i, j)
           /\ \E i \in S : \A j \in S : i = j \/ Before(j, i)
<1> DEFINE Has(S) == /\ \E i \in S : \A j \in S : i = j \/ Before(i, j)
                     /\ \E i \in S : \A j \in S : i = j \/ Before(j, i)
<1> DEFINE T == {n \in Nat : \E S \in SUBSET DOMAIN items : S # {} /\ S \subseteq 1 .. n /\ ~ Has(S)}
<1>1. T = {}
  <2> SUFFICES ASSUME T # {} PROVE FALSE
    OBVIOUS
  <2>1. PICK n \in T : \A m \in T : n <= m
    <3>1. T \in SUBSET Nat
      OBVIOUS
    <3> HIDE DEF T
    <3> QED BY <3>1, LeastNatural
  <2>2. PICK S \in SUBSET DOMAIN items : S # {} /\ S \subseteq 1 .. n /\ ~ Has(S)
    OBVIOUS
  <2> HIDE DEF Has
  <2> DEFINE R == S \ {n}
  <2>3. n \in Nat /\ n # 0
    BY <2>2
  <2>4. n - 1 \in Nat /\ n - 1 < n
    BY <2>3
  <2>5. n - 1 \notin T
    BY <2>1, <2>4
  <2>6. R \subseteq 1 .. (n - 1) /\ R \in SUBSET DOMAIN items
    BY <2>2, <2>3
  <2>7. R # {} => Has(R)
    BY <2>4, <2>5, <2>6
  <2>8. CASE R = {}
    <3>1. S = {n}
      BY <2>2, <2>8
    <3> QED BY <2>2, <3>1 DEF Has
  <2>9. CASE R # {} /\ n \notin S
    <3>1. R = S
      BY <2>9
    <3> QED BY <2>2, <2>7, <2>9, <3>1
  <2>10. CASE R # {} /\ n \in S
    <3>0. Has(R)
      BY <2>7, <2>10
    <3>1. PICK i \in R : \A j \in R : i = j \/ Before(i, j)
      <4> HIDE DEF R
      <4> QED BY <3>0 DEF Has
    <3>2. PICK k \in R : \A j \in R : k = j \/ Before(j, k)
      <4> HIDE DEF R
      <4> QED BY <3>0 DEF Has
    <3>3. \E x \in {i, n} : \A j \in S : x = j \/ Before(x, j)
      BY <2>2, <2>10, <3>1, Total, Transitive
    <3>4. \E x \in {k, n} : \A j \in S : x = j \/ Before(j, x)
      BY <2>2, <2>10, <3>2, Total, Transitive
    <3>5. i \in S /\ k \in S
      OBVIOUS
    <3> QED BY <2>2, <2>10, <3>3, <3>4, <3>5 DEF Has
  <2> QED BY <2>8, <2>9, <2>10
<1>2. ASSUME NEW S \in SUBSET DOMAIN items, S # {} PROVE Has(S)
  <2>1. Len(items) \in Nat /\ S \subseteq 1 .. Len(items)
    OBVIOUS
  <2> QED BY <1>1, <1>2, <2>1
<1> QED BY <1>2

LEMMA LeastIs ==
  ASSUME items \in Seq(Keys), NEW S, S \subseteq DOMAIN items
  PROVE  /\ S = {} => Least(S) = 0
         /\ S # {} => Least(S) \in S /\ \A j \in S : Least(S) = j \/ Before(Least(S), j)
         /\ Least(S) = 0 <=> S = {}
<1>1. S # {} => Least(S) \in S /\ \A j \in S : Least(S) = j \/ Before(Least(S), j)
  BY Extremes DEF Least
<1>2. S # {} => Least(S) # 0
  BY <1>1
<1> QED BY <1>1, <1>2 DEF Least

LEMMA GreatestIs ==
  ASSUME items \in Seq(Keys), NEW S, S \subseteq DOMAIN items
  PROVE  /\ S = {} => Greatest(S) = 0
         /\ S # {} => Greatest(S) \in S /\ \A j \in S : Greatest(S) = j \/ Before(j, Greatest(S))
         /\ Greatest(S) = 0 <=> S = {}
<1>1. S # {} => Greatest(S) \in S /\ \A j \in S : Greatest(S) = j \/ Before(j, Greatest(S))
  BY Extremes DEF Greatest
<1>2. S # {} => Greatest(S) # 0
  BY <1>1
<1> QED BY <1>1, <1>2 DEF Greatest

LEMMA SuccessorIs ==
  ASSUME items \in Seq(Keys), NEW i \in DOMAIN items
  PROVE  /\ Successor(i) = 0 => \A j \in DOMAIN items : ~ Before(i, j)
         /\ Successor(i) # 0 =>
              /\ Successor(i) \in DOMAIN items /\ Before(i, Successor(i))
              /\ \A j \in DOMAIN items : Before(i, j) => Successor(i) = j \/ Before(Successor(i), j)
<1> DEFINE S == {j \in DOMAIN items : Before(i, j)}
<1>1. S \subseteq DOMAIN items /\ Successor(i) = Least(S)
  BY DEF Successor
<1>2. \A j \in DOMAIN items : j \in S <=> Before(i, j)
  OBVIOUS
<1> HIDE DEF S
<1> QED BY <1>1, <1>2, LeastIs

LEMMA PredecessorIs ==
  ASSUME items \in Seq(Keys), NEW i \in DOMAIN items
  PROVE  /\ Predecessor(i) = 0 => \A j \in DOMAIN items : ~ Before(j, i)
         /\ Predecessor(i) # 0 =>
              /\ Predecessor(i) \in DOMAIN items /\ Before(Predecessor(i), i)
              /\ \A j \in DOMAIN items : Before(j, i) => Predecessor(i) = j \/ Before(j, Predecessor(i))
<1> DEFINE S == {j \in DOMAIN items : Before(j, i)}
<1>1. S \subseteq DOMAIN items /\ Predecessor(i) = Greatest(S)
  BY DEF Predecessor
<1>2. \A j \in DOMAIN items : j \in S <=> Before(j, i)
  OBVIOUS
<1> HIDE DEF S
<1> QED BY <1>1, <1>2, GreatestIs

\* Where a search of the container puts a cursor.
LEMMA PlacedIs ==
  ASSUME items \in Seq(Keys), NEW k \in Nat
  PROVE  /\ UpperBound(k) = 0 => \A j \in DOMAIN items : ~ (items[j] > k)
         /\ UpperBound(k) # 0 =>
              /\ UpperBound(k) \in DOMAIN items /\ items[UpperBound(k)] > k
              /\ \A j \in DOMAIN items : items[j] > k => UpperBound(k) = j \/ Before(UpperBound(k), j)
         /\ AtLeast(k) = 0 => \A j \in DOMAIN items : ~ (items[j] >= k)
         /\ AtLeast(k) # 0 =>
              /\ AtLeast(k) \in DOMAIN items /\ items[AtLeast(k)] >= k
              /\ \A j \in DOMAIN items : items[j] >= k => AtLeast(k) = j \/ Before(AtLeast(k), j)
         /\ Exactly(k) = 0 => \A j \in DOMAIN items : items[j] # k
         /\ Exactly(k) # 0 =>
              /\ Exactly(k) \in DOMAIN items /\ items[Exactly(k)] = k
              /\ \A j \in DOMAIN items : items[j] = k => Exactly(k) = j \/ Before(Exactly(k), j)
<1> DEFINE U == {j \in DOMAIN items : items[j] > k}
           A == {j \in DOMAIN items : items[j] >= k}
           E == {j \in DOMAIN items : items[j] = k}
<1>1. /\ U \subseteq DOMAIN items /\ UpperBound(k) = Least(U)
      /\ A \subseteq DOMAIN items /\ AtLeast(k) = Least(A)
      /\ E \subseteq DOMAIN items /\ Exactly(k) = Least(E)
  BY DEF UpperBound, AtLeast, Exactly
<1>2. /\ \A j \in DOMAIN items : j \in U <=> items[j] > k
      /\ \A j \in DOMAIN items : j \in A <=> items[j] >= k
      /\ \A j \in DOMAIN items : j \in E <=> items[j] = k
  OBVIOUS
<1> HIDE DEF U, A, E
<1>3. /\ U = {} <=> UpperBound(k) = 0
      /\ U # {} => Least(U) \in U /\ \A j \in U : Least(U) = j \/ Before(Least(U), j)
  BY <1>1, LeastIs
<1>4. /\ A = {} <=> AtLeast(k) = 0
      /\ A # {} => Least(A) \in A /\ \A j \in A : Least(A) = j \/ Before(Least(A), j)
  BY <1>1, LeastIs
<1>5. /\ E = {} <=> Exactly(k) = 0
      /\ E # {} => Least(E) \in E /\ \A j \in E : Least(E) = j \/ Before(Least(E), j)
  BY <1>1, LeastIs
<1> QED BY <1>1, <1>2, <1>3, <1>4, <1>5

\* The first and the last record of all.
LEMMA EndsAre ==
  ASSUME items \in Seq(Keys)
  PROVE  /\ Least(DOMAIN items) = 0 => DOMAIN items = {}
         /\ Least(DOMAIN items) # 0 =>
              /\ Least(DOMAIN items) \in DOMAIN items
              /\ \A j \in DOMAIN items : Least(DOMAIN items) = j \/ Before(Least(DOMAIN items), j)
         /\ Greatest(DOMAIN items) \in DOMAIN items \union {0}
  BY LeastIs, GreatestIs

\* The next record a filter accepts.
LEMMA NextAcceptedIs ==
  ASSUME items \in Seq(Keys), NEW pos \in Nat
  PROVE  /\ NextAccepted(pos) = 0 => \A j \in DOMAIN items : j > pos => ~ Accepts(items[j])
         /\ NextAccepted(pos) # 0 =>
              /\ NextAccepted(pos) \in DOMAIN items
              /\ NextAccepted(pos) > pos /\ Accepts(items[NextAccepted(pos)])
              /\ \A j \in DOMAIN items : j > pos /\ Accepts(items[j]) => NextAccepted(pos) <= j
<1> DEFINE rest == {i \in DOMAIN items : i > pos /\ Accepts(items[i])}
<1>1. rest \in SUBSET Nat /\ \A i \in rest : i # 0
  BY KeysAreNumbers
<1>2. \A i \in DOMAIN items : i \in rest <=> i > pos /\ Accepts(items[i])
  OBVIOUS
<1>3. rest \subseteq DOMAIN items
  OBVIOUS
<1>4. NextAccepted(pos) = IF rest = {} THEN 0 ELSE CHOOSE i \in rest : \A j \in rest : i <= j
  BY DEF NextAccepted
<1> HIDE DEF rest
<1>5. rest # {} => NextAccepted(pos) \in rest /\ \A j \in rest : NextAccepted(pos) <= j
  BY <1>1, <1>4, LeastNatural
<1> QED BY <1>1, <1>2, <1>3, <1>4, <1>5

-----------------------------------------------------------------------------
(* Type correctness.                                                         *)

\* A range object is told from none and from a dead program by its kind.
LEMMA RangeType ==
  ASSUME TypeOK
  PROVE  /\ NoRange.kind = "none" /\ Dead.kind = "dead"
         /\ Kinds \subseteq AllKinds /\ "none" \notin Kinds /\ "dead" \notin Kinds
         /\ NoRange \notin RangeObject /\ Dead \notin RangeObject /\ NoRange # Dead
         /\ range.kind \in AllKinds => range \notin {NoRange, Dead}
         /\ range \notin {NoRange, Dead} =>
              /\ range \in RangeObject
              /\ range.kind \in Kinds /\ range.kind \in AllKinds
              /\ range.begin \in Nat /\ range.end \in Nat /\ range.key \in Nat
              /\ range.pos \in Nat /\ range.eof \in BOOLEAN /\ range.walks \in 0 .. MaxWalks
<1>1. NoRange.kind = "none" /\ Dead.kind = "dead" /\ Kinds \subseteq AllKinds
  BY KindsAssumption DEF NoRange, Dead
<1>2. "none" \notin AllKinds /\ "dead" \notin AllKinds
  BY DEF AllKinds
<1>3. \A r \in RangeObject : r.kind \in Kinds
  BY DEF RangeObject
<1>4. range \notin {NoRange, Dead} => range \in RangeObject
  BY DEF TypeOK
<1>5. range \in RangeObject =>
        /\ range.begin \in Nat /\ range.end \in Nat /\ range.key \in Nat
        /\ range.pos \in Nat /\ range.eof \in BOOLEAN /\ range.walks \in 0 .. MaxWalks
  BY KeysAssumption DEF RangeObject
<1> QED BY <1>1, <1>2, <1>3, <1>4, <1>5

\* What an iterator is.
Walks(w) ==
  /\ w \in [at : Nat, live : BOOLEAN, shown : Seq(Nat \ {0}), base : Nat]
  /\ \A n \in DOMAIN w.shown : w.shown[n] \in DOMAIN items
  /\ w.live => w.at \in DOMAIN items

LEMMA WalkType ==
  ASSUME TypeOK
  PROVE  /\ Walks(walk) /\ walk.shown \in Seq(Nat \ {0}) /\ walk.at \in Nat /\ walk.base \in Nat
         /\ \A n \in DOMAIN walk.shown : walk.shown[n] \in DOMAIN items
         /\ walk.live => walk.at \in DOMAIN items
<1>1. Walks(walk)
  BY DEF TypeOK, Walks
<1> QED BY <1>1 DEF Walks

\* One more record is shown.
LEMMA AppendType ==
  ASSUME TypeOK, NEW i \in DOMAIN items
  PROVE  /\ Append(walk.shown, i) \in Seq(Nat \ {0}) /\ <<i>> \in Seq(Nat \ {0})
         /\ \A n \in DOMAIN Append(walk.shown, i) : Append(walk.shown, i)[n] \in DOMAIN items
         /\ \A n \in DOMAIN <<i>> : <<i>>[n] \in DOMAIN items
<1>1. i \in Nat \ {0}
  BY KeysAreNumbers DEF TypeOK
<1>2. walk.shown \in Seq(Nat \ {0}) /\ \A n \in DOMAIN walk.shown : walk.shown[n] \in DOMAIN items
  BY WalkType
<1>3. /\ Append(walk.shown, i) \in Seq(Nat \ {0}) /\ Len(Append(walk.shown, i)) = Len(walk.shown) + 1
      /\ \A n \in 1 .. Len(walk.shown) : Append(walk.shown, i)[n] = walk.shown[n]
      /\ Append(walk.shown, i)[Len(walk.shown) + 1] = i
  BY <1>1, <1>2, AppendProperties
<1> QED BY <1>1, <1>2, <1>3

LEMMA BeginAtType ==
  ASSUME TypeOK, NEW i \in DOMAIN items \union {0}, NEW shows \in BOOLEAN, shows => i # 0,
         BeginAt(i, shows)
  PROVE  Walks(walk')
<1>1. i \in Nat /\ Len(items) \in Nat /\ <<>> \in Seq(Nat \ {0}) /\ DOMAIN <<>> = {}
  BY KeysAreNumbers DEF TypeOK
<1>2. CASE shows
  BY <1>1, <1>2, AppendType DEF BeginAt, Walks
<1>3. CASE ~ shows
  BY <1>1, <1>3 DEF BeginAt, Walks
<1> QED BY <1>2, <1>3

LEMMA ShowType ==
  ASSUME TypeOK, NEW i \in DOMAIN items \union {0}, NEW shows \in BOOLEAN, shows => i # 0,
         Show(i, shows)
  PROVE  Walks(walk')
<1>1. i \in Nat /\ walk \in [at : Nat, live : BOOLEAN, shown : Seq(Nat \ {0}), base : Nat]
  BY KeysAreNumbers DEF TypeOK
<1>2. CASE shows
  BY <1>1, <1>2, AppendType DEF Show, Walks
<1>3. CASE ~ shows
  BY <1>1, <1>3, WalkType DEF Show, Walks
<1> QED BY <1>2, <1>3

-----------------------------------------------------------------------------
(* The cursors.                                                              *)

\* No iteration goes on without a range.
NoneWalks == range \in {NoRange, Dead} => walk = NoWalk

\* What an iteration holds has been opened, however careless the program was.
Holding == (HoldsCursor => cursors >= 1) /\ CursorsAreHeld

Safe == TypeOK /\ NoneWalks /\ Holding

LEMMA InitSafe == Init => Safe
<1> SUFFICES ASSUME Init PROVE Safe
  OBVIOUS
<1>1. <<>> \in Seq(Keys) /\ <<>> \in Seq(Nat \ {0}) /\ DOMAIN <<>> = {}
  OBVIOUS
<1>2. 0 \in 0 .. MaxRanges
  BY BoundAssumption
<1>3. TypeOK
  BY <1>1, <1>2 DEF Init, TypeOK, NoWalk
<1>4. ~ HoldsCursor
  BY DEF Init, HoldsCursor, NoRange, NoWalk, Trees, Counts
<1> QED BY <1>3, <1>4 DEF Init, Safe, NoneWalks, Holding, CursorsAreHeld

\* A step that opens and closes no cursor.
LEMMA HoldsOn ==
  ASSUME Holding, UNCHANGED handles, HoldsCursor' <=> HoldsCursor
  PROVE  Holding'
  BY DEF Holding, CursorsAreHeld, handles

LEMMA FeedSafe ==
  ASSUME Safe, NEW k \in Keys, Feed(k)
  PROVE  Safe'
<1>1. items' = Append(items, k) /\ items \in Seq(Keys)
  BY DEF Feed, Safe, TypeOK
<1>2. items' \in Seq(Keys) /\ DOMAIN items \subseteq DOMAIN items'
  BY <1>1
<1>3. TypeOK'
  BY <1>2 DEF Feed, handles, Safe, TypeOK
<1>4. HoldsCursor' <=> HoldsCursor
  BY DEF Feed, HoldsCursor
<1> QED BY <1>3, <1>4, HoldsOn DEF Feed, Safe, NoneWalks

LEMMA OpenSafe ==
  ASSUME Safe, NEW kind \in Kinds, NEW b \in Keys, NEW e \in Keys, Open(kind, b, e)
  PROVE  Safe'
<1>1. 0 \in 0 .. MaxWalks /\ opened' \in 0 .. MaxRanges
  BY BoundAssumption DEF Open, Safe, TypeOK
<1>2. range' \in RangeObject /\ range'.walks = 0
  BY <1>1 DEF Open, RangeObject
<1>3. TypeOK'
  BY <1>1, <1>2 DEF Open, handles, Safe, TypeOK
<1>4. range = NoRange /\ walk = NoWalk /\ walk' = walk
  BY DEF Open, Safe, NoneWalks
<1>5. ~ HoldsCursor
  BY <1>4, RangeType DEF HoldsCursor, Trees, Counts, Safe, NoRange
<1>6. ~ HoldsCursor'
  BY <1>2, <1>4 DEF HoldsCursor, NoWalk
<1>7. NoneWalks'
  BY <1>4 DEF NoneWalks
<1>8. Holding'
  BY <1>5, <1>6, HoldsOn DEF Open, Safe
<1> QED BY <1>3, <1>7, <1>8 DEF Safe

\* A turn of an iteration over what holds no cursor.
LEMMA PlainSafe ==
  ASSUME Safe, range' \in RangeObject, range'.kind = range.kind, range \notin {NoRange, Dead},
         Walks(walk'), range.kind \notin Trees \union Counts,
         UNCHANGED <<items, opened, handles>>
  PROVE  Safe'
<1>1. TypeOK'
  BY DEF Safe, TypeOK, Walks, handles
<1>2. ~ HoldsCursor /\ ~ HoldsCursor'
  BY DEF HoldsCursor
<1>3. NoneWalks'
  BY <1>1, RangeType DEF NoneWalks, Safe
<1> QED BY <1>1, <1>2, <1>3, HoldsOn DEF Safe

\* The ranges are what they were but for what an iteration leaves in them.
LEMMA Rewritten ==
  ASSUME Safe, range \notin {NoRange, Dead}, NEW i \in DOMAIN items \union {0}
  PROVE  /\ [range EXCEPT !.key = IF i = 0 THEN @ ELSE items[i]] \in RangeObject
         /\ ReadTo(i) \in RangeObject
         /\ range.walks < MaxWalks =>
              /\ [range EXCEPT !.walks = @ + 1] \in RangeObject
              /\ [ReadTo(i) EXCEPT !.walks = @ + 1] \in RangeObject
              /\ [range EXCEPT !.walks = @ + 1, !.key = IF i = 0 THEN @ ELSE items[i]] \in RangeObject
         /\ [range EXCEPT !.walks = MaxWalks] \in RangeObject
<1>1. range \in RangeObject /\ range.walks \in 0 .. MaxWalks
  BY RangeType DEF Safe
<1>2. i # 0 => items[i] \in Keys
  BY KeysAreNumbers DEF Safe, TypeOK
<1>3. i \in Nat /\ Len(items) \in Nat
  BY KeysAreNumbers DEF Safe, TypeOK
<1>4. range.key \in Keys
  BY <1>1 DEF RangeObject
<1>5. (IF i = 0 THEN range.key ELSE items[i]) \in Keys
  BY <1>2, <1>4
<1>6. range.walks < MaxWalks => range.walks + 1 \in 0 .. MaxWalks
  BY <1>1, BoundAssumption
<1>7. MaxWalks \in 0 .. MaxWalks
  BY BoundAssumption
<1>8. (IF i = 0 THEN Len(items) ELSE i) \in Nat /\ (i = 0) \in BOOLEAN
  BY <1>3
<1> QED BY <1>1, <1>5, <1>6, <1>7, <1>8 DEF RangeObject, ReadTo

LEMMA SortedSafe ==
  ASSUME Safe, BeginSorted \/ StepSorted
  PROVE  Safe'
<1>1. range.kind \in {"sorted", "unbounded"} /\ range \notin {NoRange, Dead}
  BY RangeType DEF BeginSorted, StepSorted, Safe, AllKinds
<1>2. range.kind \notin Trees \union Counts /\ items \in Seq(Keys)
  BY <1>1 DEF Trees, Counts, Safe, TypeOK
<1>3. range.begin \in Nat /\ range \in RangeObject
  BY <1>1, RangeType DEF Safe
<1>4. ASSUME NEW i, NEW x PROVE SortedShows(i, x) \in BOOLEAN /\ (SortedShows(i, x) => i # 0)
  BY DEF SortedShows
<1>5. CASE BeginSorted
  <2> DEFINE i == IF range.kind = "sorted" THEN UpperBound(range.begin) ELSE Least(DOMAIN items)
  <2>1. i \in DOMAIN items \union {0}
    BY <1>2, <1>3, PlacedIs, EndsAre
  <2>2. BeginAt(i, SortedShows(i, FALSE))
    BY <1>5 DEF BeginSorted
  <2> HIDE DEF i
  <2>3. Walks(walk')
    BY <2>1, <2>2, <1>4, BeginAtType DEF Safe
  <2>4. range' = [range EXCEPT !.walks = @ + 1] /\ range.walks < MaxWalks
    BY <1>5 DEF BeginSorted, Fresh
  <2>5. range' \in RangeObject /\ range'.kind = range.kind
    BY <1>1, <1>3, <2>1, <2>4, Rewritten DEF RangeObject
  <2> QED BY <1>1, <1>2, <1>5, <2>3, <2>5, PlainSafe DEF BeginSorted
<1>6. CASE StepSorted
  <2> DEFINE i == Successor(walk.at)
  <2>1. i \in DOMAIN items \union {0}
    BY <1>2, <1>6, WalkType, SuccessorIs DEF StepSorted, Safe
  <2>2. Show(i, SortedShows(i, TRUE))
    BY <1>6 DEF StepSorted
  <2> HIDE DEF i
  <2>3. Walks(walk')
    BY <2>1, <2>2, <1>4, ShowType DEF Safe
  <2> QED BY <1>1, <1>2, <1>3, <1>6, <2>3, PlainSafe DEF StepSorted
<1> QED BY <1>5, <1>6

LEMMA LogSafe ==
  ASSUME Safe, BeginLog \/ StepLog
  PROVE  Safe'
<1>1. range.kind = "log" /\ range \notin {NoRange, Dead}
  BY RangeType DEF BeginLog, StepLog, Safe, AllKinds
<1>2. range.kind \notin Trees \union Counts /\ items \in Seq(Keys)
  BY <1>1 DEF Trees, Counts, Safe, TypeOK
<1>3. range.pos \in Nat /\ range \in RangeObject
  BY <1>1, RangeType DEF Safe
<1> DEFINE i == NextAccepted(range.pos)
<1>4. i \in DOMAIN items \union {0}
  BY <1>2, <1>3, NextAcceptedIs
<1>5. CASE BeginLog
  <2>1. \/ BeginAt(i, i # 0) /\ range' = [ReadTo(i) EXCEPT !.walks = @ + 1]
        \/ BeginAt(0, FALSE) /\ range' = [range EXCEPT !.walks = @ + 1]
    BY <1>5 DEF BeginLog
  <2>2. range.walks < MaxWalks
    BY <1>5 DEF BeginLog, Fresh
  <2> HIDE DEF i
  <2>3. Walks(walk')
    BY <1>4, <2>1, BeginAtType DEF Safe
  <2>4. range' \in RangeObject
    BY <1>1, <1>4, <2>1, <2>2, Rewritten
  <2>5. range'.kind = range.kind
    BY <1>3, <2>1 DEF RangeObject, ReadTo
  <2> QED BY <1>1, <1>2, <1>5, <2>3, <2>4, <2>5, PlainSafe DEF BeginLog
<1>6. CASE StepLog
  <2>1. Show(i, i # 0) /\ range' = ReadTo(i)
    BY <1>6 DEF StepLog
  <2> HIDE DEF i
  <2>2. Walks(walk')
    BY <1>4, <2>1, ShowType DEF Safe
  <2>3. range' \in RangeObject /\ range'.kind = range.kind
    BY <1>1, <1>3, <1>4, <2>1, Rewritten DEF RangeObject, ReadTo
  <2> QED BY <1>1, <1>2, <1>6, <2>2, <2>3, PlainSafe DEF StepLog
<1> QED BY <1>5, <1>6

\* Where an iteration over the tree is placed, and where it goes from there.
Placed ==
  CASE range.kind = "whole" -> Least(DOMAIN items)
    [] range.kind = "tree" /\ IsPoint -> Exactly(range.key)
    [] range.kind = "tree" /\ IsReverse -> AtLeast(range.key)
    [] OTHER -> UpperBound(range.key)
Moved == IF range.kind = "tree" /\ IsReverse THEN Predecessor(walk.at) ELSE Successor(walk.at)

LEMMA TreeMoves ==
  ASSUME Safe, range.kind \in Trees
  PROVE  /\ range \notin {NoRange, Dead} /\ range.kind \in {"tree", "whole"} /\ range.kind \notin Counts
         /\ Placed \in DOMAIN items \union {0}
         /\ walk.live => Moved \in DOMAIN items \union {0}
<1>1. range \notin {NoRange, Dead} /\ range.kind \in {"tree", "whole"} /\ range.kind \notin Counts
  BY RangeType DEF Safe, Trees, AllKinds, Counts
<1>2. range.key \in Nat /\ items \in Seq(Keys)
  BY <1>1, RangeType DEF Safe, TypeOK
<1>3. Placed \in DOMAIN items \union {0}
  BY <1>2, PlacedIs, EndsAre DEF Placed
<1>4. walk.live => Moved \in DOMAIN items \union {0}
  BY <1>2, WalkType, SuccessorIs, PredecessorIs DEF Moved, Safe
<1> QED BY <1>1, <1>3, <1>4

LEMMA TreeSafe ==
  ASSUME Safe, BeginTree \/ StepTree
  PROVE  Safe'
<1>1. range.kind \in Trees
  BY DEF BeginTree, StepTree
<1>2. range \notin {NoRange, Dead} /\ range.kind \notin Counts /\ range \in RangeObject
  BY <1>1, TreeMoves, RangeType DEF Safe
<1>3. range.walks \in Nat /\ cursors \in Nat /\ careless \in BOOLEAN
  BY <1>2, RangeType DEF Safe, TypeOK
<1>4. CASE BeginTree
  <2>1. /\ BeginAt(Placed, Placed # 0)
        /\ range' = [range EXCEPT !.walks = @ + 1, !.key = IF Placed = 0 THEN @ ELSE items[Placed]]
        /\ range.walks < MaxWalks
    BY <1>4 DEF BeginTree, Placed, Fresh
  <2>2. Walks(walk')
    BY <1>1, <2>1, TreeMoves, BeginAtType DEF Safe
  <2>3. range' \in RangeObject /\ range'.kind = range.kind /\ range'.walks = range.walks + 1
    <3>1. range' \in RangeObject
      BY <1>1, <1>2, <2>1, TreeMoves, Rewritten
    <3> QED BY <1>2, <2>1, <3>1 DEF RangeObject
  <2>4. cursors' = cursors + 1 /\ careless' = (careless \/ range.walks > 0) /\ UNCHANGED <<items, opened>>
    BY <1>4 DEF BeginTree, NewCursor
  <2>5. careless' \in BOOLEAN /\ cursors' \in Nat
    BY <1>3, <2>4
  <2>6. TypeOK'
    BY <2>2, <2>3, <2>4, <2>5 DEF Safe, TypeOK, Walks
  <2>7. NoneWalks'
    BY <2>3, <2>6, RangeType DEF NoneWalks, Safe
  <2>8. HoldsCursor'
    BY <1>1, <1>3, <2>3 DEF HoldsCursor
  <2>9. CASE range.walks > 0
    <3>1. careless'
      BY <2>4, <2>9
    <3> QED BY <1>3, <2>4, <2>6, <2>7, <2>8, <3>1 DEF Safe, Holding, CursorsAreHeld
  <2>10. CASE ~ (range.walks > 0)
    <3>1. ~ HoldsCursor
      BY <1>2, <2>10 DEF HoldsCursor
    <3>2. careless' = careless
      BY <1>3, <2>4, <2>10
    <3> QED BY <1>3, <2>4, <2>6, <2>7, <2>8, <3>1, <3>2 DEF Safe, Holding, CursorsAreHeld
  <2> QED BY <2>9, <2>10
<1>5. CASE StepTree
  <2> DEFINE shows == Moved # 0 /\ (range.kind = "tree" => ~ PastEnd(items[Moved]))
  <2>1. /\ Show(Moved, shows) /\ walk.live
        /\ range' = [range EXCEPT !.key = IF Moved = 0 THEN @ ELSE items[Moved]]
    BY <1>5 DEF StepTree, Moved
  <2>2. shows \in BOOLEAN /\ (shows => Moved # 0)
    OBVIOUS
  <2> HIDE DEF shows
  <2>3. Walks(walk')
    BY <1>1, <2>1, <2>2, TreeMoves, ShowType DEF Safe
  <2>4. range' \in RangeObject
    BY <1>1, <1>2, <2>1, TreeMoves, Rewritten
  <2>5. range'.kind = range.kind /\ range'.walks = range.walks
    BY <1>2, <2>1 DEF RangeObject
  <2>6. UNCHANGED <<items, opened, handles>>
    BY <1>5 DEF StepTree
  <2>7. TypeOK'
    BY <2>3, <2>4, <2>6 DEF Safe, TypeOK, Walks, handles
  <2>8. NoneWalks'
    BY <2>4, <2>7, RangeType DEF NoneWalks, Safe
  <2>9. HoldsCursor' <=> HoldsCursor
    BY <1>2, <2>5 DEF HoldsCursor
  <2> QED BY <2>6, <2>7, <2>8, <2>9, HoldsOn DEF Safe
<1> QED BY <1>4, <1>5

LEMMA CountSafe ==
  ASSUME Safe, BeginCount \/ StepCount
  PROVE  Safe'
<1>1. range.kind \in Counts
  BY DEF BeginCount, StepCount
<1>2. range \notin {NoRange, Dead} /\ range.kind \notin Trees
  BY <1>1, RangeType DEF Safe, Counts, Trees, AllKinds
<1>3. range \in RangeObject /\ range.begin \in Nat /\ items \in Seq(Keys) /\ cursors \in Nat
  BY <1>2, RangeType DEF Safe, TypeOK
<1>4. CASE BeginCount
  <2> DEFINE i == AtLeast(range.begin)
  <2>1. /\ walk' = [at |-> i, live |-> i # 0, shown |-> <<>>, base |-> Len(items)]
        /\ cursors' = IF i # 0 THEN cursors + 1 ELSE cursors
        /\ range' = [range EXCEPT !.walks = MaxWalks]
        /\ ~ walk.live /\ UNCHANGED <<items, opened, careless>>
    BY <1>4 DEF BeginCount, Fresh
  <2>2. i \in DOMAIN items \union {0}
    BY <1>3, PlacedIs
  <2> HIDE DEF i
  <2>3. i \in Nat /\ Len(items) \in Nat /\ <<>> \in Seq(Nat \ {0}) /\ DOMAIN <<>> = {}
    BY <1>3, <2>2, KeysAreNumbers
  <2>4. Walks(walk') /\ walk'.live = (i # 0)
    BY <2>1, <2>2, <2>3 DEF Walks
  <2>5. range' \in RangeObject /\ range'.kind = range.kind
    <3>1. range' \in RangeObject
      BY <1>2, <2>1, <2>2, Rewritten
    <3> QED BY <1>3, <2>1, <3>1 DEF RangeObject
  <2>6. TypeOK'
    BY <1>3, <2>1, <2>4, <2>5 DEF Safe, TypeOK, Walks
  <2>7. NoneWalks'
    BY <2>5, <2>6, RangeType DEF NoneWalks, Safe
  <2>8. ~ HoldsCursor /\ (HoldsCursor' <=> i # 0)
    BY <1>1, <1>2, <2>1, <2>4, <2>5 DEF HoldsCursor
  <2>9. Holding'
    BY <1>3, <2>1, <2>8 DEF Safe, Holding, CursorsAreHeld
  <2> QED BY <2>6, <2>7, <2>9 DEF Safe
<1>5. CASE StepCount
  <2> DEFINE i == Successor(walk.at)
             live == CountGoesOn /\ i # 0
  <2>1. /\ walk' = [walk EXCEPT !.shown = Counted, !.at = i, !.live = live]
        /\ cursors' = IF walk'.live THEN cursors ELSE cursors - 1
        /\ walk.live /\ UNCHANGED <<items, range, opened, careless>>
    BY <1>5 DEF StepCount
  <2>2. walk.at \in DOMAIN items
    BY <2>1, WalkType DEF Safe
  <2>3. i \in DOMAIN items \union {0} /\ i \in Nat
    BY <1>3, <2>2, SuccessorIs, KeysAreNumbers
  <2>4. Counted \in Seq(Nat \ {0}) /\ \A n \in DOMAIN Counted : Counted[n] \in DOMAIN items
    BY <2>2, WalkType, AppendType DEF Counted, Safe
  <2>5. live \in BOOLEAN /\ (live => i # 0)
    OBVIOUS
  <2> HIDE DEF i, live
  <2>6. walk'.live = live /\ Walks(walk')
    <3>1. walk \in [at : Nat, live : BOOLEAN, shown : Seq(Nat \ {0}), base : Nat]
      BY DEF Safe, TypeOK
    <3> QED BY <2>1, <2>3, <2>4, <2>5, <3>1 DEF Walks
  <2>7. HoldsCursor /\ cursors >= 1 /\ (HoldsCursor' <=> live)
    BY <1>1, <1>2, <2>1, <2>6 DEF HoldsCursor, Safe, Holding
  <2>8. TypeOK'
    <3>1. cursors' \in Nat
      BY <1>3, <2>1, <2>7
    <3> QED BY <2>1, <2>6, <3>1 DEF Safe, TypeOK, Walks
  <2>9. NoneWalks'
    BY <1>2, <2>1 DEF NoneWalks
  <2>10. Holding'
    BY <1>3, <2>1, <2>6, <2>7 DEF Safe, Holding, CursorsAreHeld
  <2> QED BY <2>8, <2>9, <2>10 DEF Safe
<1> QED BY <1>4, <1>5

LEMMA ExtremumSafe ==
  ASSUME Safe, Extremum
  PROVE  Safe'
<1>1. range.kind \in Extrema
  BY DEF Extremum
<1>2. range \notin {NoRange, Dead} /\ range.kind \notin Trees \union Counts
  BY <1>1, RangeType DEF Safe, Extrema, Counts, Trees, AllKinds
<1>3. range \in RangeObject /\ items \in Seq(Keys) /\ cursors \in Nat /\ careless \in BOOLEAN
  BY <1>2, RangeType DEF Safe, TypeOK
<1> DEFINE i == IF range.kind = "lowest" THEN Least(DOMAIN items) ELSE Greatest(DOMAIN items)
<1>4. /\ walk' = [at |-> i, live |-> FALSE, shown |-> IF i = 0 THEN <<>> ELSE <<i>>, base |-> Len(items)]
      /\ cursors' = IF i = 0 THEN cursors + 1 ELSE cursors
      /\ careless' = (careless \/ i = 0)
      /\ range' = [range EXCEPT !.walks = MaxWalks] /\ UNCHANGED <<items, opened>>
  BY DEF Extremum
<1>5. i \in DOMAIN items \union {0}
  BY <1>3, EndsAre
<1> HIDE DEF i
<1>6. Walks(walk')
  <2>1. i \in Nat /\ Len(items) \in Nat /\ <<>> \in Seq(Nat \ {0}) /\ DOMAIN <<>> = {}
    BY <1>3, <1>5, KeysAreNumbers
  <2>2. CASE i = 0
    BY <1>4, <2>1, <2>2 DEF Walks
  <2>3. CASE i # 0
    BY <1>4, <1>5, <2>1, <2>3, AppendType DEF Walks, Safe
  <2> QED BY <2>2, <2>3
<1>7. range' \in RangeObject /\ range'.kind = range.kind
  <2>1. range' \in RangeObject
    BY <1>2, <1>4, <1>5, Rewritten
  <2> QED BY <1>3, <1>4, <2>1 DEF RangeObject
<1>8. TypeOK'
  <2>1. cursors' \in Nat /\ careless' \in BOOLEAN
    BY <1>3, <1>4
  <2> QED BY <1>4, <1>6, <1>7, <2>1 DEF Safe, TypeOK, Walks
<1>9. ~ HoldsCursor /\ ~ HoldsCursor'
  BY <1>2, <1>7 DEF HoldsCursor
<1>10. CASE i = 0
  <2>1. careless'
    BY <1>4, <1>10
  <2> QED BY <1>7, <1>8, <1>9, <2>1, RangeType DEF Safe, NoneWalks, Holding, CursorsAreHeld
<1>11. CASE i # 0
  <2>1. careless' = careless /\ cursors' = cursors
    BY <1>3, <1>4, <1>11
  <2> QED BY <1>7, <1>8, <1>9, <2>1, RangeType DEF Safe, NoneWalks, Holding, CursorsAreHeld
<1> QED BY <1>10, <1>11

LEMMA DropSafe ==
  ASSUME Safe, Drop
  PROVE  Safe'
<1>1. range \notin {NoRange, Dead} /\ range' \in {NoRange, Dead} /\ walk' = NoWalk
  BY DEF Drop
<1>2. range \in RangeObject /\ range.walks \in Nat /\ cursors \in Nat
  BY <1>1, RangeType DEF Safe, TypeOK
<1>3. HoldsCursor <=> range.kind \in Trees /\ range.walks > 0
  BY DEF HoldsCursor, Drop
<1>4. cursors' = IF HoldsCursor THEN cursors - 1 ELSE cursors
  BY <1>3 DEF Drop
<1>5. cursors' \in Nat
  BY <1>2, <1>4 DEF Safe, Holding
<1>6. <<>> \in Seq(Nat \ {0}) /\ DOMAIN <<>> = {}
  OBVIOUS
<1>7. TypeOK'
  BY <1>1, <1>5, <1>6 DEF Drop, Safe, TypeOK, NoWalk
<1>8. ~ HoldsCursor'
  BY <1>1 DEF HoldsCursor, NoRange, Dead, NoWalk, Trees, Counts
<1>9. careless' = careless
  BY DEF Drop
<1> QED BY <1>1, <1>2, <1>4, <1>7, <1>8, <1>9 DEF Safe, NoneWalks, Holding, CursorsAreHeld

LEMMA StepSafe == Safe /\ [Next]_vars => Safe'
<1> SUFFICES ASSUME Safe, [Next]_vars PROVE Safe'
  OBVIOUS
<1>1. CASE Finished \/ UNCHANGED vars
  BY <1>1 DEF Finished, vars, handles, Safe, TypeOK, NoneWalks, Holding, HoldsCursor, CursorsAreHeld
<1> QED BY <1>1, FeedSafe, OpenSafe, SortedSafe, TreeSafe, LogSafe, CountSafe, ExtremumSafe, DropSafe DEF Next

(* Every variable of a range and of its iterator keeps its type: what is      *)
(* shown is in the history, and an iterator that goes on stands on a record   *)
(* (TypeOK).                                                                  *)
THEOREM TypeCorrect == Spec => []TypeOK
<1>1. Safe => TypeOK
  BY DEF Safe
<1> QED BY <1>1, InitSafe, StepSafe, PTL DEF Spec

(* The cursors of the index that are open are those that the ranges hold,     *)
(* unless a range was iterated over again or an empty index was asked for an  *)
(* extremum (CursorsAreHeld).                                                 *)
THEOREM NoCursorIsLost == Spec => []CursorsAreHeld
<1>1. Safe => CursorsAreHeld
  BY DEF Safe, Holding
<1> QED BY <1>1, InitSafe, StepSafe, PTL DEF Spec

-----------------------------------------------------------------------------
(* What an iteration has shown, and what it has still before it.             *)

Real == range \notin {NoRange, Dead}

\* The record j is still to come.
Ahead(j) ==
  CASE range.kind = "log" -> j > range.pos
    [] range.kind \in Counts -> ~ Before(j, walk.at)
    [] OTHER -> ShownBefore(walk.at, j)

\* What NothingMissed owes.
Wanted(i) == Asked(items[i]) /\ (range.kind = "tree" /\ IsReverse => items[i] # range.begin)
IsShown(i) == \E n \in DOMAIN walk.shown : walk.shown[n] = i

InOrder == \A m, n \in DOMAIN walk.shown : m < n => ShownBefore(walk.shown[m], walk.shown[n])
Behind  == walk.live => \A n \in DOMAIN walk.shown : ~ Ahead(walk.shown[n])
Covers  ==
  Real /\ range.walks > 0 /\ Promised =>
    \A i \in 1 .. walk.base : Wanted(i) => IsShown(i) \/ (walk.live /\ Ahead(i))

\* A range begins where it was asked to, and an iteration with what was there.
Unwalked == Real /\ range.walks = 0 =>
              /\ range.kind = "tree" => range.key = range.begin
              /\ range.pos = 0 /\ ~ range.eof /\ walk = NoWalk
Based    == walk.base <= Len(items)

\* Where the iteration stands, between the bounds.
Forth  == range.kind = "tree" /\ ~ IsReverse
Back   == range.kind = "tree" /\ IsReverse
Beyond == Forth =>
            /\ range.key >= range.begin
            /\ walk.live => items[walk.at] >= range.begin /\ (~ IsPoint => items[walk.at] > range.begin)
Above  == range.kind = "sorted" /\ walk.live => items[walk.at] > range.begin
\* What was there above the begin is not met on the way down from it.
Descends == Back /\ range.walks = 1 /\ walk.live =>
              \A j \in 1 .. walk.base : Before(j, walk.at) => items[j] < range.begin

Bounds == Unwalked /\ Based /\ Beyond /\ Above /\ Descends
Inv == Safe /\ Bounds /\ InOrder /\ Behind /\ Covers /\ StraysComeFirst

\* The range object is the one it was, as far as its bounds go.
Same ==
  /\ items' = items /\ walk'.base = walk.base
  /\ range'.kind = range.kind /\ range'.begin = range.begin /\ range'.end = range.end
  /\ range'.walks = range.walks

LEMMA SameBounds ==
  ASSUME items' = items, range'.kind = range.kind, range'.begin = range.begin, range'.end = range.end
  PROVE  /\ IsReverse' = IsReverse /\ IsPoint' = IsPoint /\ Forth' = Forth /\ Back' = Back
         /\ \A k : Asked(k)' = Asked(k)
         /\ \A i, j : ShownBefore(i, j)' = ShownBefore(i, j) /\ Before(i, j)' = Before(i, j)
         /\ \A i : Wanted(i)' = Wanted(i)
<1>1. IsReverse' = IsReverse /\ IsPoint' = IsPoint
  BY DEF IsReverse, IsPoint
<1>2. \A i, j : Before(i, j)' = Before(i, j)
  BY DEF Before
<1>3. \A i, j : ShownBefore(i, j)' = ShownBefore(i, j)
  BY <1>1, <1>2 DEF ShownBefore
<1>4. \A k : Asked(k)' = Asked(k)
  BY <1>1 DEF Asked
<1>5. \A i : Wanted(i)' = Wanted(i)
  BY <1>1, <1>4 DEF Wanted
<1> QED BY <1>1, <1>2, <1>3, <1>4, <1>5 DEF Forth, Back

\* The order of an iteration is one, and what is behind comes before what is ahead.
LEMMA Orders ==
  ASSUME Safe, Real, NEW i \in DOMAIN items, NEW j \in DOMAIN items
  PROVE  /\ ~ ShownBefore(i, i)
         /\ walk.live /\ ~ Ahead(i) /\ Ahead(j) => ShownBefore(i, j)
<1>1. items \in Seq(Keys) /\ range.pos \in Nat /\ i \in Nat /\ j \in Nat
  BY RangeType, KeysAreNumbers DEF Safe, Real, TypeOK
<1>2. walk.live => walk.at \in DOMAIN items
  BY WalkType DEF Safe
<1>3. CASE range.kind = "log"
  BY <1>1, <1>3 DEF ShownBefore, Ahead, Counts
<1>4. CASE range.kind # "log"
  <2>1. ~ ShownBefore(i, i)
    BY <1>1, <1>4, Total DEF ShownBefore
  <2>2. CASE Back
    BY <1>1, <1>2, <1>4, <2>1, <2>2, Total, Transitive DEF ShownBefore, Ahead, Back, Counts
  <2>3. CASE ~ Back /\ range.kind \notin Counts
    BY <1>1, <1>2, <1>4, <2>1, <2>3, Total, Transitive DEF ShownBefore, Ahead, Back
  <2>4. CASE range.kind \in Counts
    <3>1. ShownBefore(i, j) <=> Before(i, j)
      BY <1>4, <2>4 DEF ShownBefore, Counts
    <3>2. /\ Ahead(j) <=> ~ Before(j, walk.at)
          /\ Ahead(i) <=> ~ Before(i, walk.at)
      BY <1>4, <2>4 DEF Ahead
    <3> QED BY <1>1, <1>2, <2>1, <3>1, <3>2, Total, Transitive
  <2> QED BY <2>2, <2>3, <2>4
<1> QED BY <1>3, <1>4

\* A turn of an iteration goes past record x, which it shows or does not.
LEMMA TurnKeepsOrder ==
  ASSUME Inv, Real, walk.live, Same, NEW x \in DOMAIN items \union {0}, NEW shows \in BOOLEAN,
         walk'.shown = IF shows THEN Append(walk.shown, x) ELSE walk.shown,
         shows => x # 0 /\ Ahead(x),
         walk'.live => \A y \in DOMAIN items : Ahead(y)' => Ahead(y) /\ y # x,
         Promised => \A y \in 1 .. walk.base :
           Wanted(y) /\ Ahead(y) => (shows /\ y = x) \/ (walk'.live /\ Ahead(y)')
  PROVE  InOrder' /\ Behind' /\ Covers'
<1>1. walk.shown \in Seq(Nat \ {0}) /\ \A n \in DOMAIN walk.shown : walk.shown[n] \in DOMAIN items
  BY WalkType DEF Inv, Safe
<1>2. \A n \in DOMAIN walk.shown : ~ Ahead(walk.shown[n])
  BY DEF Inv, Behind
<1>3. \A i, j : ShownBefore(i, j)' = ShownBefore(i, j)
  BY SameBounds DEF Same
<1>4. shows =>
        /\ DOMAIN walk'.shown = 1 .. (Len(walk.shown) + 1) /\ walk'.shown[Len(walk.shown) + 1] = x
        /\ \A n \in DOMAIN walk.shown : n \in DOMAIN walk'.shown /\ walk'.shown[n] = walk.shown[n]
  <2> SUFFICES ASSUME shows PROVE
        /\ DOMAIN Append(walk.shown, x) = 1 .. (Len(walk.shown) + 1)
        /\ Append(walk.shown, x)[Len(walk.shown) + 1] = x
        /\ \A n \in DOMAIN walk.shown :
             n \in DOMAIN Append(walk.shown, x) /\ Append(walk.shown, x)[n] = walk.shown[n]
    OBVIOUS
  <2>1. x \in Nat \ {0}
    BY KeysAreNumbers DEF Inv, Safe, TypeOK
  <2> QED BY <1>1, <2>1
<1>5. \A n \in DOMAIN walk'.shown :
        \/ n \in DOMAIN walk.shown /\ walk'.shown[n] = walk.shown[n]
        \/ shows /\ walk'.shown[n] = x /\ n = Len(walk.shown) + 1
  BY <1>1, <1>4
<1>6. InOrder'
  <2> SUFFICES ASSUME NEW m \in DOMAIN walk'.shown, NEW n \in DOMAIN walk'.shown, m < n
               PROVE  ShownBefore(walk'.shown[m], walk'.shown[n])
    BY <1>3 DEF InOrder
  <2>1. CASE n \in DOMAIN walk.shown /\ walk'.shown[n] = walk.shown[n]
    <3>1. m \in DOMAIN walk.shown /\ walk'.shown[m] = walk.shown[m]
      BY <1>1, <1>5, <2>1
    <3> QED BY <2>1, <3>1 DEF Inv, InOrder
  <2>2. CASE shows /\ walk'.shown[n] = x /\ n = Len(walk.shown) + 1
    <3>1. m \in DOMAIN walk.shown /\ walk'.shown[m] = walk.shown[m]
      BY <1>1, <1>5, <2>2
    <3>2. x \in DOMAIN items /\ Ahead(x)
      BY <2>2
    <3> QED BY <1>1, <1>2, <2>2, <3>1, <3>2, Orders DEF Inv
  <2> QED BY <1>5, <2>1, <2>2
<1>7. Behind'
  <2>1. \A n \in DOMAIN walk'.shown :
          walk'.shown[n] \in DOMAIN items /\ (Ahead(walk'.shown[n]) => walk'.shown[n] = x)
    BY <1>1, <1>2, <1>5
  <2>2. walk'.live => \A y \in DOMAIN items : Ahead(y)' => \A n \in DOMAIN walk'.shown : walk'.shown[n] # y
    BY <2>1
  <2> QED BY <2>1, <2>2 DEF Behind, Ahead
<1>8. Covers'
  <2> SUFFICES ASSUME Real', range'.walks > 0, Promised', NEW i \in 1 .. walk'.base, Wanted(i)'
               PROVE  IsShown(i)' \/ (walk'.live /\ Ahead(i)')
    BY DEF Covers
  <2>1. Promised
    <3>1. IsReverse' = IsReverse /\ items' = items /\ walk'.base = walk.base
          /\ range'.kind = range.kind /\ range'.begin = range.begin /\ range'.walks = range.walks
      BY SameBounds DEF Same
    <3> QED BY <3>1 DEF Promised
  <2>2. Wanted(i) /\ i \in 1 .. walk.base /\ range.walks > 0
    BY SameBounds DEF Same
  <2>3. IsShown(i) => IsShown(i)'
    BY <1>1, <1>4 DEF IsShown
  <2>4. CASE Ahead(i)
    <3>1. CASE shows /\ i = x
      BY <1>1, <1>4, <3>1 DEF IsShown
    <3> QED BY <2>1, <2>2, <2>4, <3>1
  <2> QED BY <2>1, <2>2, <2>3, <2>4 DEF Inv, Covers
<1> QED BY <1>6, <1>7, <1>8

\* An iteration begins, at record x or at the end.
LEMMA BeginsInOrder ==
  ASSUME Inv, items' = items, range'.kind = range.kind, range'.begin = range.begin, range'.end = range.end,
         NEW x \in DOMAIN items \union {0}, NEW shows \in BOOLEAN, shows => x # 0,
         walk'.shown = IF shows THEN <<x>> ELSE <<>>, walk'.base = Len(items),
         walk'.live /\ shows => ~ Ahead(x)',
         Promised' => \A y \in DOMAIN items : Wanted(y) => (shows /\ y = x) \/ (walk'.live /\ Ahead(y)')
  PROVE  InOrder' /\ Behind' /\ Covers'
<1>1. \A n \in DOMAIN walk'.shown : shows /\ n = 1 /\ walk'.shown[n] = x
  OBVIOUS
<1>2. shows => 1 \in DOMAIN walk'.shown /\ walk'.shown[1] = x
  OBVIOUS
<1>3. InOrder'
  BY <1>1 DEF InOrder
<1>4. Behind'
  BY <1>1 DEF Behind, Ahead
<1>5. Covers'
  <2> SUFFICES ASSUME Promised', NEW i \in 1 .. walk'.base, Wanted(i)'
               PROVE  IsShown(i)' \/ (walk'.live /\ Ahead(i)')
    BY DEF Covers
  <2>1. Wanted(i) /\ i \in DOMAIN items
    BY SameBounds DEF Inv, Safe, TypeOK
  <2> QED BY <1>2, <2>1 DEF IsShown
<1> QED BY <1>3, <1>4, <1>5

\* Nothing strays where everything that is shown was asked for.
LEMMA ShowsWhatWasAsked ==
  ASSUME Inv, range.kind \in AllKinds \ {"tree"},
         items' = items, range'.kind = range.kind, range'.begin = range.begin, range'.end = range.end,
         NEW x \in DOMAIN items \union {0}, NEW shows \in BOOLEAN, shows => x # 0 /\ Asked(items[x]),
         \/ walk'.shown = IF shows THEN Append(walk.shown, x) ELSE walk.shown
         \/ walk'.shown = IF shows THEN <<x>> ELSE <<>>
  PROVE  StraysComeFirst'
<1>1. \A n \in DOMAIN walk.shown : Asked(items[walk.shown[n]])
  BY RangeType DEF Inv, StraysComeFirst, Safe, Stray
<1>2. walk.shown \in Seq(Nat \ {0})
  BY WalkType DEF Inv, Safe
<1>3. \A n \in DOMAIN walk'.shown :
        \/ n \in DOMAIN walk.shown /\ walk'.shown[n] = walk.shown[n]
        \/ shows /\ walk'.shown[n] = x
  <2>1. CASE shows /\ walk'.shown = Append(walk.shown, x)
    <3>1. shows
      BY <2>1
    <3>2. x \in Nat \ {0}
      BY <3>1, KeysAreNumbers DEF Inv, Safe, TypeOK
    <3>3. /\ DOMAIN Append(walk.shown, x) = 1 .. (Len(walk.shown) + 1)
          /\ Append(walk.shown, x)[Len(walk.shown) + 1] = x
          /\ \A n \in DOMAIN walk.shown : Append(walk.shown, x)[n] = walk.shown[n]
      BY <1>2, <3>2
    <3>4. DOMAIN walk.shown = 1 .. Len(walk.shown) /\ Len(walk.shown) \in Nat
      BY <1>2
    <3> QED BY <2>1, <3>1, <3>3, <3>4
  <2>2. CASE shows /\ walk'.shown = <<x>>
    BY <2>2
  <2>3. CASE ~ shows
    BY <2>3
  <2> QED BY <2>1, <2>2, <2>3
<1>4. \A n \in DOMAIN walk'.shown : Asked(items[walk'.shown[n]])
  BY <1>1, <1>3
<1> QED BY <1>4 DEF StraysComeFirst, Asked, IsPoint, IsReverse

\* Neither the tree nor a log: where the iteration stands has its place.
LEMMA SortedInv ==
  ASSUME Inv, BeginSorted \/ StepSorted
  PROVE  Inv'
<1>1. range.kind \in {"sorted", "unbounded"} /\ Real
  BY RangeType DEF BeginSorted, StepSorted, Inv, Safe, AllKinds, Real
<1>2. items \in Seq(Keys) /\ range \in RangeObject /\ range.begin \in Nat /\ range.end \in Nat /\ range.walks \in Nat
  BY <1>1, RangeType DEF Inv, Safe, Real, TypeOK
<1>3. Safe'
  BY SortedSafe DEF Inv
<1>4. \A y : (Ahead(y) <=> Before(walk.at, y)) /\ (range'.kind = range.kind => (Ahead(y)' <=> Before(walk.at, y)'))
  BY <1>1 DEF Ahead, ShownBefore, Counts
<1>5. \A i : Wanted(i) <=> (range.kind = "sorted" => items[i] > range.begin /\ items[i] <= range.end)
  BY <1>1 DEF Wanted, Asked, Extrema, Counts
<1>6. \A i \in DOMAIN items : i # 0 /\ items[i] \in Nat
  BY <1>2, KeysAreNumbers
<1>7. CASE BeginSorted
  <2> PICK i : i = IF range.kind = "sorted" THEN UpperBound(range.begin) ELSE Least(DOMAIN items)
    OBVIOUS
  <2> PICK shows \in BOOLEAN : shows = SortedShows(i, FALSE)
    BY DEF SortedShows
  <2>1. i \in DOMAIN items \union {0}
    BY <1>2, PlacedIs, EndsAre
  <2>2. shows \in BOOLEAN /\ (shows => i # 0 /\ (range.kind = "sorted" => items[i] <= range.end))
    BY DEF SortedShows
  <2>3. ~ shows => i = 0 \/ (range.kind = "sorted" /\ ~ (items[i] <= range.end))
    BY DEF SortedShows
  <2>4. /\ i # 0 /\ range.kind = "sorted" => items[i] > range.begin
        /\ \A y \in DOMAIN items : Wanted(y) => i # 0 /\ (i = y \/ Before(i, y))
    BY <1>1, <1>2, <1>5, PlacedIs, EndsAre
  <2>5. /\ walk' = [at |-> i, live |-> shows, shown |-> IF shows THEN <<i>> ELSE <<>>, base |-> Len(items)]
        /\ range' = [range EXCEPT !.walks = @ + 1] /\ items' = items
    BY <1>7 DEF BeginSorted, BeginAt
  <2>6. /\ range'.kind = range.kind /\ range'.begin = range.begin /\ range'.end = range.end
        /\ range'.walks = range.walks + 1
        /\ walk'.shown = (IF shows THEN <<i>> ELSE <<>>) /\ walk'.base = Len(items)
        /\ (walk'.live <=> shows) /\ walk'.at = i
    BY <1>2, <2>5 DEF RangeObject
  <2>7. \A y : Before(walk.at, y)' <=> Before(i, y)
    BY <2>5, <2>6 DEF Before
  <2>8. InOrder' /\ Behind' /\ Covers'
    <3>1. shows => ~ Ahead(i)'
      <4>1. shows => ~ Before(i, i)
        BY <1>2, <2>1, <2>2, Total
      <4> QED BY <1>4, <2>6, <2>7, <4>1
    <3>2. ASSUME NEW y \in DOMAIN items, Wanted(y) PROVE (shows /\ y = i) \/ (shows /\ Ahead(y)')
      <4>1. i # 0 /\ (i = y \/ Before(i, y))
        BY <2>4, <3>2
      <4>2. items[i] <= items[y]
        BY <1>2, <1>6, <2>1, <4>1, Total
      <4>3. range.kind = "sorted" => items[i] <= range.end
        BY <1>2, <1>5, <1>6, <2>1, <3>2, <4>1, <4>2
      <4>4. shows
        BY <2>3, <4>1, <4>3
      <4> QED BY <1>4, <2>6, <2>7, <4>1, <4>4
    <3> QED BY <2>1, <2>2, <2>5, <2>6, <3>1, <3>2, BeginsInOrder
  <2>9. StraysComeFirst'
    <3>1. shows => Asked(items[i])
      BY <1>1, <2>2, <2>4 DEF Asked, Extrema, Counts
    <3> QED BY <1>1, <2>1, <2>2, <2>5, <2>6, <3>1, ShowsWhatWasAsked DEF AllKinds
  <2>10. Bounds'
    <3>1. Unwalked'
      BY <1>2, <2>6 DEF Unwalked
    <3>2. Based'
      BY <1>2, <2>5, <2>6 DEF Based
    <3>3. Above'
      BY <2>2, <2>4, <2>5, <2>6 DEF Above
    <3>4. Beyond' /\ Descends'
      BY <1>1, <2>6 DEF Beyond, Descends, Forth, Back
    <3> QED BY <3>1, <3>2, <3>3, <3>4 DEF Bounds
  <2> QED BY <1>3, <2>8, <2>9, <2>10 DEF Inv
<1>8. CASE StepSorted
  <2> PICK i : i = Successor(walk.at)
    OBVIOUS
  <2> PICK shows \in BOOLEAN : shows = SortedShows(i, TRUE)
    BY DEF SortedShows
  <2>1. walk.live /\ walk.at \in DOMAIN items /\ walk.at \in Nat
    BY <1>8, WalkType DEF StepSorted, Inv, Safe
  <2>2. i \in DOMAIN items \union {0}
    BY <1>2, <2>1, SuccessorIs
  <2>3. shows \in BOOLEAN /\ (shows => i # 0 /\ (range.kind = "sorted" => items[i] <= range.end))
    BY DEF SortedShows
  <2>4. ~ shows => i = 0 \/ (range.kind = "sorted" /\ ~ (items[i] <= range.end)) \/ ~ (items[i] >= range.begin)
    BY DEF SortedShows
  <2>5. /\ i # 0 => Before(walk.at, i)
        /\ \A y \in DOMAIN items : Before(walk.at, y) => i # 0 /\ (i = y \/ Before(i, y))
    BY <1>2, <2>1, SuccessorIs
  <2>6. walk' = [walk EXCEPT !.at = i, !.live = shows, !.shown = IF shows THEN Append(@, i) ELSE @]
        /\ range' = range /\ items' = items
    BY <1>8 DEF StepSorted, Show
  <2>7. /\ walk'.shown = (IF shows THEN Append(walk.shown, i) ELSE walk.shown)
        /\ (walk'.live <=> shows) /\ walk'.at = i /\ walk'.base = walk.base
    BY <2>6 DEF Inv, Safe, TypeOK
  <2>8. \A y : Before(walk.at, y)' <=> Before(i, y)
    BY <2>6, <2>7 DEF Before
  <2>9. range.kind = "sorted" => items[walk.at] > range.begin
    BY <2>1 DEF Inv, Bounds, Above
  <2>10. i # 0 => items[i] >= items[walk.at]
    BY <1>2, <1>6, <2>1, <2>2, <2>5, Total
  <2>11. i # 0 /\ range.kind = "sorted" => items[i] > range.begin
    BY <1>2, <1>6, <2>1, <2>2, <2>9, <2>10
  <2>12. InOrder' /\ Behind' /\ Covers'
    <3>1. shows => Ahead(i)
      BY <1>4, <2>3, <2>5
    <3>2. shows => \A y \in DOMAIN items : Ahead(y)' => Ahead(y) /\ y # i
      BY <1>2, <1>4, <2>1, <2>2, <2>3, <2>5, <2>6, <2>8, Total, Transitive
    <3>3. Promised => range.kind = "sorted"
      BY <1>1 DEF Promised
    <3>4. ASSUME range.kind = "sorted", NEW y \in 1 .. walk.base, Wanted(y), Ahead(y)
          PROVE  (shows /\ y = i) \/ (shows /\ Ahead(y)')
      <4>1. y \in DOMAIN items
        BY <1>2 DEF Inv, Bounds, Based, Safe, TypeOK
      <4>2. i # 0 /\ (i = y \/ Before(i, y))
        BY <1>4, <2>5, <3>4, <4>1
      <4>3. items[i] <= items[y]
        BY <1>2, <1>6, <2>2, <4>1, <4>2, Total
      <4>4. items[i] <= range.end /\ items[i] >= range.begin
        BY <1>2, <1>5, <1>6, <2>2, <2>11, <3>4, <4>1, <4>2, <4>3
      <4>5. shows
        BY <2>4, <4>2, <4>4
      <4> QED BY <1>4, <2>6, <2>8, <4>2, <4>5
    <3> QED BY <1>1, <2>1, <2>2, <2>3, <2>6, <2>7, <3>1, <3>2, <3>3, <3>4, TurnKeepsOrder DEF Same
  <2>13. StraysComeFirst'
    <3>1. shows => Asked(items[i])
      BY <1>1, <2>3, <2>11 DEF Asked, Extrema, Counts
    <3> QED BY <1>1, <2>2, <2>3, <2>6, <2>7, <3>1, ShowsWhatWasAsked DEF AllKinds
  <2>14. Bounds'
    <3>1. Unwalked'
      BY <1>1, <2>1, <2>6 DEF Inv, Bounds, Unwalked, NoWalk
    <3>2. Based'
      BY <2>6, <2>7 DEF Inv, Bounds, Based
    <3>3. Above'
      BY <2>3, <2>6, <2>7, <2>11 DEF Above
    <3>4. Beyond' /\ Descends'
      BY <1>1, <2>6 DEF Beyond, Descends, Forth, Back
    <3> QED BY <3>1, <3>2, <3>3, <3>4 DEF Bounds
  <2> QED BY <1>3, <2>12, <2>13, <2>14 DEF Inv
<1> QED BY <1>7, <1>8

\* What the two kinds of iterations over the tree have before them.
LEMMA TreeKinds ==
  ASSUME Inv, range.kind \in Trees
  PROVE  /\ Real /\ range \in RangeObject /\ items \in Seq(Keys)
         /\ range.begin \in Nat /\ range.end \in Nat /\ range.key \in Nat /\ range.walks \in Nat
         /\ Forth \/ Back \/ range.kind = "whole"
         /\ Forth => ~ Back /\ range.kind = "tree" /\ ~ IsReverse
         /\ Back => range.kind = "tree" /\ IsReverse /\ ~ IsPoint
         /\ range.kind = "whole" => ~ Forth /\ ~ Back
         /\ \A y : Ahead(y) <=> IF Back THEN Before(y, walk.at) ELSE Before(walk.at, y)
         /\ range'.kind = range.kind /\ range'.begin = range.begin /\ range'.end = range.end =>
              \A y : Ahead(y)' <=> IF Back THEN Before(y, walk.at)' ELSE Before(walk.at, y)'
<1>1. range.kind \in {"tree", "whole"} /\ Real
  BY RangeType DEF Trees, Inv, Safe, AllKinds, Real
<1>2. /\ range \in RangeObject /\ items \in Seq(Keys)
      /\ range.begin \in Nat /\ range.end \in Nat /\ range.key \in Nat /\ range.walks \in Nat
  BY <1>1, RangeType DEF Inv, Safe, Real, TypeOK
<1>3. Back => ~ IsPoint
  BY <1>2 DEF Back, IsReverse, IsPoint
<1>4. \A y : Ahead(y) <=> IF Back THEN Before(y, walk.at) ELSE Before(walk.at, y)
  BY <1>1 DEF Ahead, ShownBefore, Counts, Back
<1>5. ASSUME range'.kind = range.kind, range'.begin = range.begin, range'.end = range.end
      PROVE  \A y : Ahead(y)' <=> IF Back THEN Before(y, walk.at)' ELSE Before(walk.at, y)'
  <2>1. IsReverse' = IsReverse
    BY <1>5 DEF IsReverse
  <2> QED BY <1>1, <1>5, <2>1 DEF Ahead, ShownBefore, Counts, Back
<1> QED BY <1>1, <1>2, <1>3, <1>4, <1>5 DEF Forth, Back

LEMMA BeginTreeInv ==
  ASSUME Inv, BeginTree
  PROVE  Inv'
<1>1. range.kind \in Trees
  BY DEF BeginTree
<1>2. Safe'
  BY TreeSafe DEF Inv
<1>3. \A j \in DOMAIN items : j # 0 /\ items[j] \in Nat
  BY <1>1, TreeKinds, KeysAreNumbers
<1> PICK i : i = Placed
  OBVIOUS
<1>4. i \in DOMAIN items \union {0}
  BY <1>1, TreeMoves DEF Inv
<1>5. /\ walk' = [at |-> i, live |-> i # 0, shown |-> IF i # 0 THEN <<i>> ELSE <<>>, base |-> Len(items)]
      /\ range' = [range EXCEPT !.walks = @ + 1, !.key = IF i = 0 THEN @ ELSE items[i]]
      /\ items' = items
  BY DEF BeginTree, BeginAt, Placed
<1>6. /\ range'.kind = range.kind /\ range'.begin = range.begin /\ range'.end = range.end
      /\ range'.walks = range.walks + 1
      /\ range'.key = (IF i = 0 THEN range.key ELSE items[i])
      /\ walk'.shown = (IF i # 0 THEN <<i>> ELSE <<>>) /\ walk'.base = Len(items)
      /\ (walk'.live <=> i # 0) /\ walk'.at = i
  BY <1>1, <1>5, TreeKinds DEF RangeObject
<1>7. \A y : (Before(walk.at, y)' <=> Before(i, y)) /\ (Before(y, walk.at)' <=> Before(y, i))
  BY <1>5, <1>6 DEF Before
<1>8. Promised' /\ range.kind = "tree" => range.key = range.begin
  BY <1>1, <1>6, TreeKinds DEF Promised, Counts, Extrema, Inv, Bounds, Unwalked, Real
\* Where it is placed.
<1>9. /\ range.kind = "whole" => \A y \in DOMAIN items : i # 0 /\ (i = y \/ Before(i, y))
      /\ Forth /\ ~ IsPoint =>
           /\ i # 0 => items[i] > range.key
           /\ \A y \in DOMAIN items : items[y] > range.key => i # 0 /\ (i = y \/ Before(i, y))
      /\ Forth /\ IsPoint =>
           /\ i # 0 => items[i] = range.key
           /\ \A y \in DOMAIN items : items[y] = range.key => i # 0 /\ (i = y \/ Before(i, y))
      /\ Back =>
           /\ i # 0 => items[i] >= range.key
           /\ \A y \in DOMAIN items : items[y] >= range.key => i # 0 /\ (i = y \/ Before(i, y))
  <2>1. range.kind = "whole" => i = Least(DOMAIN items)
    BY DEF Placed
  <2>2. Forth /\ ~ IsPoint => i = UpperBound(range.key)
    BY DEF Placed, Forth
  <2>3. Forth /\ IsPoint => i = Exactly(range.key)
    BY DEF Placed, Forth
  <2>4. Back => i = AtLeast(range.key)
    BY <1>1, TreeKinds DEF Placed, Back
  <2> QED BY <1>1, <2>1, <2>2, <2>3, <2>4, TreeKinds, PlacedIs, EndsAre
<1>10. InOrder' /\ Behind' /\ Covers'
  <2>1. i # 0 => ~ Ahead(i)'
    <3>1. i # 0 => ~ Before(i, i)
      BY <1>1, <1>4, TreeKinds, Total
    <3> QED BY <1>1, <1>6, <1>7, <3>1, TreeKinds
  <2>2. ASSUME Promised', NEW y \in DOMAIN items, Wanted(y) PROVE i # 0 /\ (y = i \/ Ahead(y)')
    <3>1. CASE range.kind = "whole"
      BY <1>1, <1>6, <1>7, <1>9, <3>1, TreeKinds
    <3>2. CASE Forth
      <4>1. items[y] \in Nat /\ (IF IsPoint THEN items[y] = range.key ELSE items[y] > range.key)
        BY <1>1, <1>3, <1>8, <2>2, <3>2, TreeKinds DEF Wanted, Asked, Extrema, Counts
      <4> QED BY <1>1, <1>6, <1>7, <1>9, <3>2, <4>1, TreeKinds
    <3>3. CASE Back
      <4>1. items[y] < range.begin /\ range.key = range.begin
        BY <1>1, <1>3, <1>8, <2>2, <3>3, TreeKinds DEF Wanted, Asked, Extrema, Counts
      <4>2. \E j \in DOMAIN items : items[j] >= range.begin
        BY <1>1, <1>5, <1>6, <2>2, <3>3, TreeKinds DEF Promised, Counts, Extrema, IsReverse
      <4>3. i # 0 /\ items[i] >= range.begin
        BY <1>9, <3>3, <4>1, <4>2
      <4>4. Before(y, i)
        BY <1>1, <1>3, <1>4, <4>1, <4>3, TreeKinds, Total
      <4> QED BY <1>1, <1>6, <1>7, <3>3, <4>3, <4>4, TreeKinds
    <3> QED BY <1>1, <3>1, <3>2, <3>3, TreeKinds
  <2> QED BY <1>4, <1>5, <1>6, <2>1, <2>2, BeginsInOrder
<1>11. StraysComeFirst'
  <2>1. \A n \in DOMAIN walk'.shown : n = 1 /\ walk'.at = walk'.shown[1]
    BY <1>6
  <2>2. CASE range.kind = "tree"
    BY <1>6, <2>1, <2>2 DEF StraysComeFirst, Stray
  <2>3. CASE range.kind = "whole"
    BY <1>6, <2>1, <2>3 DEF StraysComeFirst, Asked, Extrema, Counts
  <2> QED BY <1>1, <2>2, <2>3 DEF Trees
<1>12. Bounds'
  <2>1. Unwalked'
    BY <1>1, <1>6, TreeKinds DEF Unwalked
  <2>2. Based'
    BY <1>1, <1>5, <1>6, TreeKinds DEF Based
  <2>3. Above'
    BY <1>1, <1>6 DEF Above, Trees
  <2>4. Beyond'
    <3>1. Forth => range.key >= range.begin
      BY DEF Inv, Bounds, Beyond
    <3>2. IsPoint' = IsPoint /\ Forth' = Forth
      BY <1>5, <1>6, SameBounds
    <3>3. i # 0 => items[i] \in Nat
      BY <1>3, <1>4
    <3>4. Forth /\ i # 0 => items[i] >= range.begin /\ (~ IsPoint => items[i] > range.begin)
      BY <1>1, <1>9, <3>1, <3>3, TreeKinds
    <3>5. Forth => range'.key >= range.begin
      BY <1>6, <3>1, <3>4
    <3> QED BY <1>5, <1>6, <3>2, <3>4, <3>5 DEF Beyond
  <2>5. Descends'
    <3>1. Back' = Back
      BY <1>5, <1>6, SameBounds
    <3>2. ASSUME Back, range.walks = 0, i # 0, NEW j \in DOMAIN items, Before(j, i)
          PROVE  items[j] < range.begin
      <4>1. range.key = range.begin
        BY <1>1, <3>2, TreeKinds DEF Inv, Bounds, Unwalked
      <4>2. ~ (items[j] >= range.begin)
        BY <1>1, <1>4, <1>9, <3>2, <4>1, TreeKinds, Total
      <4> QED BY <1>1, <1>3, <4>2, TreeKinds
    <3>3. 1 .. walk'.base = DOMAIN items
      BY <1>1, <1>6, TreeKinds
    <3>4. range'.walks = 1 => range.walks = 0
      BY <1>1, <1>6, TreeKinds
    <3> QED BY <1>5, <1>6, <1>7, <3>1, <3>2, <3>3, <3>4 DEF Descends
  <2> QED BY <2>1, <2>2, <2>3, <2>4, <2>5 DEF Bounds
<1> QED BY <1>2, <1>10, <1>11, <1>12 DEF Inv

LEMMA StepTreeInv ==
  ASSUME Inv, StepTree
  PROVE  Inv'
<1>1. range.kind \in Trees /\ walk.live
  BY DEF StepTree
<1>2. Safe'
  BY TreeSafe DEF Inv
<1>3. \A j \in DOMAIN items : j # 0 /\ items[j] \in Nat
  BY <1>1, TreeKinds, KeysAreNumbers
<1> PICK i : i = Moved
  OBVIOUS
<1> PICK shows \in BOOLEAN : shows = (i # 0 /\ (range.kind = "tree" => ~ PastEnd(items[i])))
  OBVIOUS
<1>4. i \in DOMAIN items \union {0} /\ walk.at \in DOMAIN items
  BY <1>1, TreeMoves, WalkType DEF Inv, Safe
<1>5. /\ walk' = [walk EXCEPT !.at = i, !.live = shows, !.shown = IF shows THEN Append(@, i) ELSE @]
      /\ range' = [range EXCEPT !.key = IF i = 0 THEN @ ELSE items[i]]
      /\ items' = items
  BY DEF StepTree, Show, Moved
<1>6. /\ walk'.shown = (IF shows THEN Append(walk.shown, i) ELSE walk.shown)
      /\ (walk'.live <=> shows) /\ walk'.at = i /\ walk'.base = walk.base
  BY <1>5 DEF Inv, Safe, TypeOK
<1>7. /\ range'.kind = range.kind /\ range'.begin = range.begin /\ range'.end = range.end
      /\ range'.walks = range.walks /\ range'.key = (IF i = 0 THEN range.key ELSE items[i])
  BY <1>1, <1>5, TreeKinds DEF RangeObject
<1>8. \A y : (Before(walk.at, y)' <=> Before(i, y)) /\ (Before(y, walk.at)' <=> Before(y, i))
  BY <1>5, <1>6 DEF Before
<1>9. /\ ~ Back => /\ i # 0 => Before(walk.at, i)
                   /\ \A y \in DOMAIN items : Before(walk.at, y) => i # 0 /\ (i = y \/ Before(i, y))
      /\ Back => /\ i # 0 => Before(i, walk.at)
                 /\ \A y \in DOMAIN items : Before(y, walk.at) => i # 0 /\ (i = y \/ Before(y, i))
  <2>1. i = IF Back THEN Predecessor(walk.at) ELSE Successor(walk.at)
    BY DEF Moved, Back
  <2> QED BY <1>1, <1>4, <2>1, TreeKinds, SuccessorIs, PredecessorIs
<1>10. i # 0 => items[i] \in Nat /\ items[walk.at] \in Nat
               /\ (IF Back THEN items[i] <= items[walk.at] ELSE items[walk.at] <= items[i])
  BY <1>1, <1>3, <1>4, <1>9, TreeKinds, Total
<1>11. /\ range.kind = "whole" => (shows <=> i # 0)
       /\ Forth => (shows <=> i # 0 /\ ~ (items[i] > range.end))
       /\ Back => (shows <=> i # 0 /\ ~ (items[i] < range.end))
  BY DEF Forth, Back, PastEnd
<1>12. InOrder' /\ Behind' /\ Covers'
  <2>1. shows => i # 0 /\ Ahead(i)
    BY <1>1, <1>9, <1>11, TreeKinds
  <2>2. shows => \A y \in DOMAIN items : Ahead(y)' => Ahead(y) /\ y # i
    <3> SUFFICES ASSUME shows, NEW y \in DOMAIN items, Ahead(y)' PROVE Ahead(y) /\ y # i
      OBVIOUS
    <3>1. i \in DOMAIN items
      BY <1>4, <2>1
    <3>2. CASE Back
      <4>1. Before(y, i) /\ Before(i, walk.at)
        BY <1>1, <1>7, <1>8, <1>9, <2>1, <3>2, TreeKinds
      <4> QED BY <1>1, <1>4, <3>1, <3>2, <4>1, TreeKinds, Total, Transitive
    <3>3. CASE ~ Back
      <4>1. Before(i, y) /\ Before(walk.at, i)
        BY <1>1, <1>7, <1>8, <1>9, <2>1, <3>3, TreeKinds
      <4> QED BY <1>1, <1>4, <3>1, <3>3, <4>1, TreeKinds, Total, Transitive
    <3> QED BY <3>2, <3>3
  <2>3. ASSUME NEW y \in 1 .. walk.base, Wanted(y), Ahead(y)
        PROVE  (shows /\ y = i) \/ (shows /\ Ahead(y)')
    <3>1. y \in DOMAIN items
      BY <1>1, TreeKinds DEF Inv, Bounds, Based, Safe, TypeOK
    <3>2. CASE ~ Back
      <4>1. i # 0 /\ (i = y \/ Before(i, y))
        BY <1>1, <1>9, <2>3, <3>1, <3>2, TreeKinds
      <4>2. items[i] <= items[y]
        BY <1>1, <1>3, <1>4, <3>1, <4>1, TreeKinds, Total
      <4>3. Forth => items[y] <= range.end
        BY <1>1, <1>3, <2>3, <3>1, TreeKinds DEF Wanted, Asked, IsPoint, Extrema, Counts
      <4>4. shows
        <5>1. items[i] \in Nat /\ items[y] \in Nat /\ range.end \in Nat
          BY <1>1, <1>10, <1>3, <3>1, <4>1, TreeKinds
        <5>2. Forth => ~ (items[i] > range.end)
          BY <5>1, <4>2, <4>3
        <5> QED BY <1>1, <1>11, <3>2, <4>1, <5>2, TreeKinds
      <4> QED BY <1>1, <1>7, <1>8, <3>2, <4>1, <4>4, TreeKinds
    <3>3. CASE Back
      <4>1. i # 0 /\ (i = y \/ Before(y, i))
        BY <1>1, <1>9, <2>3, <3>1, <3>3, TreeKinds
      <4>2. items[y] <= items[i]
        BY <1>1, <1>3, <1>4, <3>1, <4>1, TreeKinds, Total
      <4>3. items[y] >= range.end
        BY <1>1, <2>3, <3>1, <3>3, TreeKinds DEF Wanted, Asked, Extrema, Counts
      <4>4. shows
        <5>1. items[i] \in Nat /\ items[y] \in Nat /\ range.end \in Nat
          BY <1>1, <1>10, <1>3, <3>1, <4>1, TreeKinds
        <5>2. ~ (items[i] < range.end)
          BY <5>1, <4>2, <4>3
        <5> QED BY <1>11, <3>3, <4>1, <5>2
      <4> QED BY <1>1, <1>7, <1>8, <3>3, <4>1, <4>4, TreeKinds
    <3> QED BY <3>2, <3>3
  <2> QED BY <1>1, <1>4, <1>5, <1>6, <1>7, <2>1, <2>2, <2>3, TreeKinds, TurnKeepsOrder DEF Same
<1>13. Bounds'
  <2>1. IsPoint' = IsPoint /\ Forth' = Forth /\ Back' = Back
    BY <1>5, <1>7, SameBounds
  <2>2. Unwalked'
    BY <1>1, <1>7, TreeKinds DEF Inv, Bounds, Unwalked, NoWalk
  <2>3. Based'
    BY <1>5, <1>6 DEF Inv, Bounds, Based
  <2>4. Above'
    BY <1>1, <1>7 DEF Above, Trees
  <2>5. Beyond'
    <3>1. ASSUME Forth, i # 0 PROVE items[i] >= range.begin /\ (~ IsPoint => items[i] > range.begin)
      <4>1. items[walk.at] >= range.begin /\ (~ IsPoint => items[walk.at] > range.begin)
        BY <1>1, <3>1 DEF Inv, Bounds, Beyond
      <4> QED BY <1>1, <1>10, <3>1, <4>1, TreeKinds
    <3>2. Forth => range.key >= range.begin
      BY DEF Inv, Bounds, Beyond
    <3>3. Forth => range'.key >= range.begin
      BY <1>7, <3>1, <3>2
    <3> QED BY <1>5, <1>6, <1>7, <1>11, <2>1, <3>1, <3>3 DEF Beyond
  <2>6. Descends'
    <3>1. ASSUME Back, range.walks = 1, shows, NEW j \in 1 .. walk.base, Before(j, i)
          PROVE  items[j] < range.begin
      <4>1. j \in DOMAIN items /\ i \in DOMAIN items
        BY <1>1, <1>4, <1>11, <3>1, TreeKinds DEF Inv, Bounds, Based, Safe, TypeOK
      <4>2. Before(j, walk.at)
        BY <1>1, <1>4, <1>9, <3>1, <4>1, TreeKinds, Transitive
      <4> QED BY <1>1, <3>1, <4>2 DEF Inv, Bounds, Descends
    <3> QED BY <1>5, <1>6, <1>7, <1>8, <2>1, <3>1 DEF Descends
  <2> QED BY <2>2, <2>3, <2>4, <2>5, <2>6 DEF Bounds
<1>14. StraysComeFirst'
  <2>1. CASE range.kind = "whole"
    <3>1. Asked(items[i])
      BY <2>1 DEF Asked, Extrema, Counts
    <3>2. shows => i # 0
      BY <1>11, <2>1
    <3> QED BY <1>4, <1>5, <1>6, <1>7, <2>1, <3>1, <3>2, ShowsWhatWasAsked DEF AllKinds
  <2>2. CASE range.kind = "tree"
    <3>1. \A n \in DOMAIN walk.shown : Asked(items[walk.shown[n]]) \/ Stray(n)
      BY <1>1, TreeKinds DEF Inv, StraysComeFirst, Real
    <3>2. ASSUME NEW n \in DOMAIN walk.shown, walk'.shown[n] = walk.shown[n], walk'.shown[1] = walk.shown[1]
          PROVE  Asked(items[walk.shown[n]]) \/ Stray(n)'
      <4>1. CASE Asked(items[walk.shown[n]])
        BY <4>1
      <4>2. CASE Back /\ Stray(n)
        BY <1>5, <1>6, <1>7, <3>2, <4>2, SameBounds DEF Stray, Back
      <4>3. CASE Forth /\ Stray(n)
        <5>1. n = 1 /\ walk.at = walk.shown[1]
          BY <1>1, <4>3, TreeKinds DEF Stray
        <5>2. CASE ~ shows
          BY <1>6, <1>7, <2>2, <5>1, <5>2 DEF Stray
        <5>3. CASE shows
          <6>1. items[walk.at] <= range.end /\ items[walk.at] >= range.begin
            BY <1>1, <1>10, <1>11, <4>3, <5>3, TreeKinds DEF Inv, Bounds, Beyond
          <6>2. ~ IsPoint => items[walk.at] > range.begin
            BY <1>1, <4>3 DEF Inv, Bounds, Beyond
          <6>3. Asked(items[walk.at])
            BY <1>1, <1>3, <1>4, <2>2, <4>3, <6>1, <6>2, TreeKinds DEF Asked, IsPoint, Extrema, Counts
          <6> QED BY <5>1, <6>3
        <5> QED BY <5>2, <5>3
      <4> QED BY <1>1, <2>2, <3>1, <4>1, <4>2, <4>3, TreeKinds
    <3>3. ASSUME shows PROVE Asked(items[i]) \/ (Back /\ items[i] > range.begin /\ (range.walks > 1 \/ i > walk.base))
      <4>1. i # 0 /\ i \in DOMAIN items /\ items[i] \in Nat
        BY <1>3, <1>4, <1>11, <2>2, <3>3, <1>1, TreeKinds
      <4>2. CASE Forth
        <5>1. items[walk.at] >= range.begin /\ (~ IsPoint => items[walk.at] > range.begin)
          BY <1>1, <4>2 DEF Inv, Bounds, Beyond
        <5>2. items[i] <= range.end /\ items[i] >= range.begin /\ (~ IsPoint => items[i] > range.begin)
          BY <1>1, <1>10, <1>11, <3>3, <4>1, <4>2, <5>1, TreeKinds
        <5> QED BY <1>1, <2>2, <4>1, <4>2, <5>2, TreeKinds DEF Asked, IsPoint, Extrema, Counts
      <4>3. CASE Back /\ items[i] <= range.begin
        <5>1. items[i] >= range.end
          BY <1>1, <1>11, <3>3, <4>1, <4>3, TreeKinds
        <5> QED BY <1>1, <2>2, <4>1, <4>3, <5>1, TreeKinds DEF Asked, Extrema, Counts
      <4>4. CASE Back /\ ~ (items[i] <= range.begin)
        <5>1. items[i] > range.begin
          BY <1>1, <4>1, <4>4, TreeKinds
        <5>2. range.walks > 0
          BY <1>1, TreeKinds DEF Inv, Bounds, Unwalked, NoWalk
        <5>3. range.walks = 1 => i \notin 1 .. walk.base
          BY <1>1, <1>9, <4>1, <4>4, <5>1, TreeKinds DEF Inv, Bounds, Descends
        <5>4. i \in Nat /\ i > 0 /\ walk.base \in Nat
          BY <1>1, <4>1, TreeKinds, KeysAreNumbers, WalkType DEF Inv, Safe
        <5>5. range.walks > 1 \/ range.walks = 1
          BY <1>1, <5>2, TreeKinds
        <5> QED BY <4>4, <5>1, <5>3, <5>4, <5>5
      <4> QED BY <1>1, <2>2, <4>2, <4>3, <4>4, TreeKinds
    <3>4. walk.shown \in Seq(Nat \ {0})
      BY WalkType DEF Inv, Safe
    <3>5. CASE ~ shows
      <4>1. walk'.shown = walk.shown
        BY <1>6, <3>5
      <4>2. \A n \in DOMAIN walk'.shown : Asked(items[walk'.shown[n]]) \/ Stray(n)'
        BY <3>2, <4>1
      <4> QED BY <1>5, <1>7, <4>2 DEF StraysComeFirst, Asked, IsPoint, IsReverse
    <3>6. CASE shows
      <4>1. i \in Nat \ {0} /\ walk'.shown = Append(walk.shown, i)
        BY <1>1, <1>4, <1>6, <1>11, <2>2, <3>6, TreeKinds, KeysAreNumbers
      <4>2. /\ DOMAIN walk'.shown = 1 .. (Len(walk.shown) + 1) /\ walk'.shown[Len(walk.shown) + 1] = i
            /\ \A n \in DOMAIN walk.shown : walk'.shown[n] = walk.shown[n]
            /\ DOMAIN walk.shown = 1 .. Len(walk.shown) /\ Len(walk.shown) \in Nat
        BY <3>4, <4>1
      <4>3. ASSUME NEW n \in DOMAIN walk'.shown PROVE Asked(items[walk'.shown[n]]) \/ Stray(n)'
        <5>1. CASE n \in DOMAIN walk.shown
          <6>1. 1 \in DOMAIN walk.shown
            BY <4>2, <5>1
          <6> QED BY <3>2, <4>2, <5>1, <6>1
        <5>2. CASE n = Len(walk.shown) + 1
          <6>1. CASE Asked(items[i])
            BY <4>2, <5>2, <6>1
          <6>2. CASE Back /\ items[i] > range.begin /\ (range.walks > 1 \/ i > walk.base)
            BY <1>5, <1>6, <1>7, <4>2, <5>2, <6>2, SameBounds DEF Stray, Back
          <6> QED BY <3>3, <3>6, <6>1, <6>2
        <5> QED BY <4>2, <5>1, <5>2
      <4> QED BY <1>5, <1>7, <4>3 DEF StraysComeFirst, Asked, IsPoint, IsReverse
    <3> QED BY <3>5, <3>6
  <2> QED BY <1>1, <2>1, <2>2 DEF Trees
<1> QED BY <1>2, <1>12, <1>13, <1>14 DEF Inv

LEMMA LogInv ==
  ASSUME Inv, BeginLog \/ StepLog
  PROVE  Inv'
<1>1. range.kind = "log" /\ Real
  BY RangeType DEF BeginLog, StepLog, Inv, Safe, AllKinds, Real
<1>2. /\ items \in Seq(Keys) /\ range \in RangeObject /\ range.pos \in Nat /\ range.walks \in Nat
      /\ range.begin \in Nat /\ range.end \in Nat
  BY <1>1, RangeType DEF Inv, Safe, Real, TypeOK
<1>3. Safe'
  BY LogSafe DEF Inv
<1>4. \A y : (Ahead(y) <=> y > range.pos) /\ (range'.kind = range.kind => (Ahead(y)' <=> y > range'.pos))
  BY <1>1 DEF Ahead, Counts
<1>5. \A k : Asked(k) <=> Accepts(k)
  BY <1>1 DEF Asked, Accepts, Extrema, Counts
<1>6. \A y : Wanted(y) <=> Accepts(items[y])
  BY <1>1, <1>5 DEF Wanted
<1> PICK i : i = NextAccepted(range.pos)
  OBVIOUS
<1>7. i \in DOMAIN items \union {0} /\ i \in Nat
  BY <1>2, NextAcceptedIs, KeysAreNumbers
<1>8. /\ i # 0 => i > range.pos /\ Accepts(items[i])
      /\ \A y \in DOMAIN items : y > range.pos /\ Accepts(items[y]) => i # 0 /\ i <= y
  BY <1>2, NextAcceptedIs
<1>9. \A y \in DOMAIN items : y \in Nat \ {0}
  BY <1>2, KeysAreNumbers
<1>10. ASSUME range'.kind = range.kind
       PROVE  Above' /\ Beyond' /\ Descends'
  BY <1>1, <1>10 DEF Above, Beyond, Descends, Forth, Back
<1> PICK shows \in BOOLEAN : shows = (i # 0)
  OBVIOUS
<1>11. CASE BeginLog /\ BeginAt(i, i # 0) /\ range' = [ReadTo(i) EXCEPT !.walks = @ + 1]
  <2>1. /\ walk' = [at |-> i, live |-> shows, shown |-> IF shows THEN <<i>> ELSE <<>>, base |-> Len(items)]
        /\ items' = items
    BY <1>11 DEF BeginAt, BeginLog
  <2>2. /\ range'.kind = range.kind /\ range'.begin = range.begin /\ range'.end = range.end
        /\ range'.walks = range.walks + 1 /\ range'.pos = (IF i = 0 THEN Len(items) ELSE i)
        /\ walk'.shown = (IF shows THEN <<i>> ELSE <<>>) /\ walk'.base = Len(items)
        /\ (walk'.live <=> shows)
    BY <1>2, <1>11, <2>1 DEF RangeObject, ReadTo
  <2>3. InOrder' /\ Behind' /\ Covers'
    <3>1. shows => ~ Ahead(i)'
      BY <1>4, <1>7, <2>2
    <3>2. Promised' => range.pos = 0
      <4>1. Promised' => range'.walks = 1
        BY <1>1, <2>2 DEF Promised, Extrema
      <4>2. range.walks = 0 => range.pos = 0
        BY <1>1 DEF Inv, Bounds, Unwalked
      <4> QED BY <1>2, <2>2, <4>1, <4>2
    <3>3. ASSUME Promised', NEW y \in DOMAIN items, Wanted(y)
          PROVE  (shows /\ y = i) \/ (shows /\ Ahead(y)')
      <4>1. i # 0 /\ i <= y
        BY <1>6, <1>8, <1>9, <3>2, <3>3
      <4>2. y = i \/ y > i
        BY <1>7, <1>9, <4>1
      <4> QED BY <1>4, <2>2, <4>1, <4>2
    <3> QED BY <1>7, <2>1, <2>2, <3>1, <3>3, BeginsInOrder
  <2>4. StraysComeFirst'
    BY <1>1, <1>5, <1>7, <1>8, <2>1, <2>2, ShowsWhatWasAsked DEF AllKinds
  <2>5. Bounds'
    BY <1>2, <1>10, <2>1, <2>2 DEF Bounds, Unwalked, Based
  <2> QED BY <1>3, <2>3, <2>4, <2>5 DEF Inv
<1>12. CASE BeginLog /\ range.eof /\ BeginAt(0, FALSE) /\ range' = [range EXCEPT !.walks = @ + 1]
  <2>1. walk' = [at |-> 0, live |-> FALSE, shown |-> <<>>, base |-> Len(items)] /\ items' = items
    BY <1>12 DEF BeginAt, BeginLog
  <2>2. /\ range'.kind = range.kind /\ range'.begin = range.begin /\ range'.end = range.end
        /\ range'.walks = range.walks + 1
        /\ walk'.shown = <<>> /\ walk'.base = Len(items) /\ ~ walk'.live
    BY <1>2, <1>12, <2>1 DEF RangeObject
  <2>3. ~ Promised'
    <3>1. range.walks # 0
      BY <1>1, <1>12 DEF Inv, Bounds, Unwalked
    <3> QED BY <1>1, <1>2, <2>2, <3>1 DEF Promised, Extrema
  <2>4. InOrder' /\ Behind' /\ Covers' /\ StraysComeFirst'
    BY <2>2, <2>3 DEF InOrder, Behind, Covers, StraysComeFirst
  <2>5. Bounds'
    BY <1>2, <1>10, <2>1, <2>2 DEF Bounds, Unwalked, Based
  <2> QED BY <1>3, <2>4, <2>5 DEF Inv
<1>13. CASE StepLog
  <2>1. walk' = [walk EXCEPT !.at = i, !.live = shows, !.shown = IF shows THEN Append(@, i) ELSE @]
        /\ range' = ReadTo(i) /\ items' = items /\ walk.live
    BY <1>13 DEF StepLog, Show
  <2>2. /\ walk'.shown = (IF shows THEN Append(walk.shown, i) ELSE walk.shown)
        /\ (walk'.live <=> shows) /\ walk'.base = walk.base
    BY <2>1 DEF Inv, Safe, TypeOK
  <2>3. /\ range'.kind = range.kind /\ range'.begin = range.begin /\ range'.end = range.end
        /\ range'.walks = range.walks /\ range'.pos = (IF i = 0 THEN Len(items) ELSE i)
    BY <1>2, <2>1 DEF RangeObject, ReadTo
  <2>4. InOrder' /\ Behind' /\ Covers'
    <3>1. shows => Ahead(i)
      BY <1>4, <1>8
    <3>2. shows => \A y \in DOMAIN items : Ahead(y)' => Ahead(y) /\ y # i
      BY <1>2, <1>4, <1>7, <1>8, <1>9, <2>3
    <3>3. ASSUME NEW y \in 1 .. walk.base, Wanted(y), Ahead(y)
          PROVE  (shows /\ y = i) \/ (shows /\ Ahead(y)')
      <4>1. y \in DOMAIN items
        BY <1>2 DEF Inv, Bounds, Based, Safe, TypeOK
      <4>2. i # 0 /\ i <= y
        BY <1>4, <1>6, <1>8, <3>3, <4>1
      <4>3. y = i \/ y > i
        BY <1>7, <1>9, <4>1, <4>2
      <4> QED BY <1>4, <2>3, <4>2, <4>3
    <3> QED BY <1>1, <1>7, <2>1, <2>2, <2>3, <3>1, <3>2, <3>3, TurnKeepsOrder DEF Same
  <2>5. StraysComeFirst'
    BY <1>1, <1>5, <1>7, <1>8, <2>1, <2>2, <2>3, ShowsWhatWasAsked DEF AllKinds
  <2>6. Bounds'
    <3>1. Unwalked'
      BY <1>1, <2>1, <2>3 DEF Inv, Bounds, Unwalked, NoWalk
    <3>2. Based'
      BY <2>1, <2>2 DEF Inv, Bounds, Based
    <3> QED BY <1>10, <2>3, <3>1, <3>2 DEF Bounds
  <2> QED BY <1>3, <2>4, <2>5, <2>6 DEF Inv
<1> QED BY <1>11, <1>12, <1>13 DEF BeginLog

LEMMA CountInv ==
  ASSUME Inv, BeginCount \/ StepCount
  PROVE  Inv'
<1>1. range.kind \in Counts /\ Real /\ range.kind \in AllKinds \ {"tree"}
  BY RangeType DEF BeginCount, StepCount, Inv, Safe, AllKinds, Counts, Real
<1>2. /\ items \in Seq(Keys) /\ range \in RangeObject /\ range.walks \in 0 .. MaxWalks
      /\ range.begin \in Nat /\ MaxWalks \in Nat
  BY <1>1, BoundAssumption, RangeType DEF Inv, Safe, Real, TypeOK
<1>3. Safe'
  BY CountSafe DEF Inv
<1>4. \A y : (Ahead(y) <=> ~ Before(y, walk.at)) /\ (range'.kind = range.kind => (Ahead(y)' <=> ~ Before(y, walk.at)'))
  BY <1>1 DEF Ahead, Counts
<1>5. \A k : Asked(k) <=> k = range.begin
  BY <1>1 DEF Asked, Extrema, Counts
<1>6. \A y : Wanted(y) <=> items[y] = range.begin
  BY <1>1, <1>5 DEF Wanted
<1>7. \A y \in DOMAIN items : y \in Nat \ {0} /\ items[y] \in Nat
  BY <1>2, KeysAreNumbers
<1>8. ASSUME range'.kind = range.kind
      PROVE  Above' /\ Beyond' /\ Descends'
  BY <1>1, <1>8 DEF Above, Beyond, Descends, Forth, Back, Counts
<1>9. CASE BeginCount
  <2> PICK i : i = AtLeast(range.begin)
    OBVIOUS
  <2>1. walk' = [at |-> i, live |-> i # 0, shown |-> <<>>, base |-> Len(items)]
        /\ range' = [range EXCEPT !.walks = MaxWalks] /\ items' = items /\ range.walks < MaxWalks
    BY <1>9 DEF BeginCount, Fresh
  <2>2. i \in DOMAIN items \union {0}
    BY <1>2, PlacedIs
  <2>3. \A y \in DOMAIN items : items[y] = range.begin => i # 0 /\ (i = y \/ Before(i, y))
    BY <1>2, <1>7, PlacedIs
  <2>4. /\ range'.kind = range.kind /\ range'.begin = range.begin /\ range'.end = range.end
        /\ range'.walks = MaxWalks
        /\ walk'.shown = <<>> /\ walk'.base = Len(items) /\ (walk'.live <=> i # 0) /\ walk'.at = i
    BY <1>2, <2>1 DEF RangeObject
  <2>5. \A y : Before(y, walk.at)' <=> Before(y, i)
    BY <2>1, <2>4 DEF Before
  <2>6. ASSUME NEW y \in DOMAIN items, Wanted(y) PROVE i # 0 /\ Ahead(y)'
    BY <1>2, <1>4, <1>6, <2>2, <2>3, <2>4, <2>5, <2>6, Total
  <2>7. InOrder' /\ Behind' /\ StraysComeFirst'
    BY <2>4 DEF InOrder, Behind, StraysComeFirst
  <2>8. Covers'
    <3>1. \A y : Wanted(y)' = Wanted(y)
      BY <2>1, <2>4, SameBounds
    <3>2. 1 .. walk'.base = DOMAIN items
      BY <1>2, <2>4
    <3> QED BY <2>4, <2>6, <3>1, <3>2 DEF Covers
  <2>9. Bounds'
    BY <1>2, <1>8, <2>1, <2>4 DEF Bounds, Unwalked, Based
  <2> QED BY <1>3, <2>7, <2>8, <2>9 DEF Inv
<1>10. CASE StepCount
  <2> PICK i : i = Successor(walk.at)
    OBVIOUS
  <2> PICK x : x = walk.at
    OBVIOUS
  <2> PICK shows \in BOOLEAN : shows = (items[x] = range.begin)
    OBVIOUS
  <2>1. walk.live /\ x \in DOMAIN items
    BY <1>10, WalkType DEF StepCount, Inv, Safe
  <2>2. i \in DOMAIN items \union {0}
    BY <1>2, <2>1, SuccessorIs
  <2>3. /\ i # 0 => Before(x, i)
        /\ \A y \in DOMAIN items : Before(x, y) => i # 0 /\ (i = y \/ Before(i, y))
    BY <1>2, <2>1, SuccessorIs
  <2>4. walk' = [walk EXCEPT !.shown = Counted, !.at = i, !.live = CountGoesOn /\ i # 0]
        /\ range' = range /\ items' = items
    BY <1>10 DEF StepCount
  <2>5. /\ walk'.shown = (IF shows THEN Append(walk.shown, x) ELSE walk.shown)
        /\ (walk'.live <=> CountGoesOn /\ i # 0) /\ walk'.base = walk.base /\ walk'.at = i
    BY <2>4 DEF Counted, Inv, Safe, TypeOK
  <2>6. \A y : Before(y, walk.at)' <=> Before(y, i)
    BY <2>4, <2>5 DEF Before
  <2>7. Ahead(x)
    BY <1>2, <1>4, <2>1, Total
  <2>8. walk'.live => \A y \in DOMAIN items : Ahead(y)' => Ahead(y) /\ y # x
    <3> SUFFICES ASSUME walk'.live, NEW y \in DOMAIN items, Ahead(y)' PROVE Ahead(y) /\ y # x
      OBVIOUS
    <3>1. i \in DOMAIN items /\ Before(x, i) /\ ~ Before(y, i)
      BY <1>4, <2>2, <2>3, <2>4, <2>5, <2>6
    <3>2. ~ Before(y, x) /\ y # x
      BY <1>2, <2>1, <3>1, Transitive
    <3> QED BY <1>4, <3>2
  <2>9. ASSUME Promised, NEW y \in 1 .. walk.base, Wanted(y), Ahead(y)
        PROVE  (shows /\ y = x) \/ (walk'.live /\ Ahead(y)')
    <3>1. y \in DOMAIN items
      BY <1>2 DEF Inv, Bounds, Based, Safe, TypeOK
    <3>2. range.kind = "count"
      BY <1>1, <2>9 DEF Promised, Counts, Extrema
    <3>3. CASE y = x
      BY <1>6, <2>9, <3>3
    <3>4. CASE y # x
      <4>1. Before(x, y)
        BY <1>2, <1>4, <2>1, <2>9, <3>1, <3>4, Total
      <4>2. i # 0 /\ (i = y \/ Before(i, y))
        BY <2>3, <3>1, <4>1
      <4>3. items[x] <= range.begin
        BY <1>2, <1>6, <2>1, <2>9, <3>1, <4>1, Total
      <4>4. CountGoesOn
        BY <1>2, <1>7, <2>1, <3>2, <4>3 DEF CountGoesOn
      <4>5. ~ Before(y, i)
        BY <1>2, <2>2, <3>1, <4>2, Total
      <4> QED BY <1>4, <2>4, <2>5, <2>6, <4>2, <4>4, <4>5
    <3> QED BY <3>3, <3>4
  <2>10. InOrder' /\ Behind' /\ Covers'
    <3>1. Same
      BY <2>4, <2>5 DEF Same
    <3>2. x # 0
      BY <1>7, <2>1
    <3> QED BY <1>1, <2>1, <2>5, <2>7, <2>8, <2>9, <3>1, <3>2, TurnKeepsOrder
  <2>11. StraysComeFirst'
    <3>1. shows => x # 0 /\ Asked(items[x])
      BY <1>5, <1>7, <2>1
    <3> QED BY <1>1, <2>1, <2>4, <2>5, <3>1, ShowsWhatWasAsked
  <2>12. Bounds'
    <3>1. Unwalked'
      BY <1>1, <2>1, <2>4 DEF Inv, Bounds, Unwalked, NoWalk
    <3>2. Based'
      BY <2>4, <2>5 DEF Inv, Bounds, Based
    <3> QED BY <1>8, <2>4, <3>1, <3>2 DEF Bounds
  <2> QED BY <1>3, <2>10, <2>11, <2>12 DEF Inv
<1> QED BY <1>9, <1>10

LEMMA ExtremumInv ==
  ASSUME Inv, Extremum
  PROVE  Inv'
<1>1. range.kind \in Extrema /\ range.kind \in AllKinds \ {"tree"} /\ range.kind \notin Counts
  BY RangeType DEF Extremum, Inv, Safe, AllKinds, Extrema, Counts
<1>2. /\ items \in Seq(Keys) /\ range \in RangeObject /\ range.walks \in 0 .. MaxWalks /\ MaxWalks \in Nat
  BY <1>1, BoundAssumption, RangeType DEF Inv, Safe, TypeOK
<1>3. Safe'
  BY ExtremumSafe DEF Inv
<1> PICK i : i = IF range.kind = "lowest" THEN Least(DOMAIN items) ELSE Greatest(DOMAIN items)
  OBVIOUS
<1> PICK shows \in BOOLEAN : shows = (i # 0)
  OBVIOUS
<1>4. i \in DOMAIN items \union {0}
  BY <1>2, EndsAre
<1>5. /\ walk' = [at |-> i, live |-> FALSE, shown |-> IF i = 0 THEN <<>> ELSE <<i>>, base |-> Len(items)]
      /\ range' = [range EXCEPT !.walks = MaxWalks] /\ items' = items /\ range.walks < MaxWalks
  BY DEF Extremum, Fresh
<1>6. /\ range'.kind = range.kind /\ range'.begin = range.begin /\ range'.end = range.end
      /\ range'.walks = MaxWalks
      /\ walk'.shown = (IF shows THEN <<i>> ELSE <<>>) /\ walk'.base = Len(items) /\ ~ walk'.live
  BY <1>2, <1>5 DEF RangeObject
<1>7. ~ Promised'
  BY <1>1, <1>6 DEF Promised, Extrema
<1>8. InOrder' /\ Behind' /\ Covers'
  BY <1>4, <1>5, <1>6, <1>7, BeginsInOrder
<1>9. StraysComeFirst'
  <2>1. \A k : Asked(k)
    BY <1>1 DEF Asked, Extrema, Counts
  <2> QED BY <1>1, <1>4, <1>5, <1>6, <2>1, ShowsWhatWasAsked
<1>10. Bounds'
  <2>1. Unwalked' /\ Based'
    BY <1>2, <1>5, <1>6 DEF Unwalked, Based
  <2>2. Above' /\ Beyond' /\ Descends'
    BY <1>1, <1>6 DEF Above, Beyond, Descends, Forth, Back, Extrema
  <2> QED BY <2>1, <2>2 DEF Bounds
<1> QED BY <1>3, <1>8, <1>9, <1>10 DEF Inv

\* Where nothing has been shown and nothing goes on, nothing is out of order.
LEMMA NothingShown ==
  ASSUME walk' = NoWalk
  PROVE  /\ InOrder' /\ Behind' /\ Covers' /\ StraysComeFirst' /\ Above' /\ Descends'
         /\ items' \in Seq(Keys) => Based'
<1>1. walk'.shown = <<>> /\ ~ walk'.live /\ walk'.base = 0
  BY DEF NoWalk
<1>2. \A i : i \notin 1 .. walk'.base
  BY <1>1
<1> QED BY <1>1, <1>2 DEF InOrder, Behind, Covers, StraysComeFirst, Above, Descends, Based

LEMMA InitInv == Init => Inv
<1> SUFFICES ASSUME Init PROVE Inv
  OBVIOUS
<1>1. walk.shown = <<>> /\ ~ walk.live /\ walk.base = 0 /\ Len(items) = 0 /\ range = NoRange
  BY DEF Init, NoWalk
<1>2. range.kind = "none"
  BY <1>1 DEF NoRange
<1>3. Bounds
  BY <1>1, <1>2 DEF Bounds, Unwalked, Based, Beyond, Above, Descends, Forth, Back, Real
<1>4. InOrder /\ Behind /\ Covers /\ StraysComeFirst
  BY <1>1 DEF InOrder, Behind, Covers, StraysComeFirst, Real
<1> QED BY <1>3, <1>4, InitSafe DEF Inv

LEMMA OpenInv ==
  ASSUME Inv, NEW kind \in Kinds, NEW b \in Keys, NEW e \in Keys, Open(kind, b, e)
  PROVE  Inv'
<1>1. Safe'
  BY OpenSafe DEF Inv
<1>2. walk' = NoWalk /\ range'.key = b /\ range'.pos = 0 /\ ~ range'.eof
      /\ (range'.kind = "tree" => range'.begin = b) /\ b \in Nat
  BY KeysAssumption DEF Open, Inv, Safe, NoneWalks
<1>3. Unwalked' /\ Beyond' /\ ~ walk'.live
  BY <1>2 DEF Unwalked, Beyond, Forth, NoWalk
<1> QED BY <1>1, <1>2, <1>3, NothingShown DEF Inv, Bounds, Safe, TypeOK

LEMMA DropInv ==
  ASSUME Inv, Drop
  PROVE  Inv'
<1>1. Safe'
  BY DropSafe DEF Inv
<1>2. walk' = NoWalk /\ range' \in {NoRange, Dead} /\ range'.kind \in {"none", "dead"}
  BY DEF Drop, NoRange, Dead
<1>3. Unwalked' /\ Beyond'
  BY <1>2 DEF Unwalked, Real, Beyond, Forth
<1> QED BY <1>1, <1>2, <1>3, NothingShown DEF Inv, Bounds, Safe, TypeOK

LEMMA FeedInv ==
  ASSUME Inv, NEW k \in Keys, Feed(k)
  PROVE  Inv'
<1>1. Safe'
  BY FeedSafe DEF Inv
<1>2. items' = Append(items, k) /\ items \in Seq(Keys) /\ UNCHANGED <<range, walk>>
  BY DEF Feed, Inv, Safe, TypeOK
<1>3. /\ \A j \in DOMAIN items : items'[j] = items[j] /\ j \in Nat
      /\ Len(items') = Len(items) + 1 /\ Len(items) \in Nat /\ DOMAIN items = 1 .. Len(items)
  BY <1>2
<1>4. /\ walk.live => walk.at \in DOMAIN items
      /\ \A n \in DOMAIN walk.shown : walk.shown[n] \in DOMAIN items
      /\ \A j \in 1 .. walk.base : j \in DOMAIN items
  BY <1>3, WalkType DEF Inv, Bounds, Based, Safe
<1>5. IsReverse' = IsReverse /\ IsPoint' = IsPoint /\ Forth' = Forth /\ Back' = Back
  BY <1>2 DEF IsReverse, IsPoint, Forth, Back
<1>6. \A i, j \in DOMAIN items : Before(i, j)' = Before(i, j) /\ ShownBefore(i, j)' = ShownBefore(i, j)
  <2>1. \A i, j \in DOMAIN items : Before(i, j)' = Before(i, j)
    BY <1>3 DEF Before
  <2> QED BY <1>2, <1>5, <2>1 DEF ShownBefore
<1>7. walk.live => \A j \in DOMAIN items : Ahead(j)' = Ahead(j)
  BY <1>2, <1>4, <1>6 DEF Ahead
<1>8. \A j \in DOMAIN items : Wanted(j)' = Wanted(j)
  BY <1>2, <1>3, <1>5 DEF Wanted, Asked
<1>9. Promised' = Promised
  BY <1>2, <1>3, <1>4, <1>5 DEF Promised
<1>10. InOrder'
  BY <1>2, <1>4, <1>6 DEF Inv, InOrder, ShownBefore
<1>11. Behind'
  BY <1>2, <1>4, <1>7 DEF Inv, Behind, Ahead
<1>12. Covers'
  BY <1>2, <1>4, <1>7, <1>8, <1>9 DEF Inv, Covers, Real, IsShown
<1>13. StraysComeFirst'
  BY <1>2, <1>3, <1>4, <1>5 DEF Inv, StraysComeFirst, Stray, Asked
<1>14. Bounds'
  <2>1. Unwalked' /\ Based' /\ Above'
    BY <1>2, <1>3, <1>4, WalkType DEF Inv, Safe, Bounds, Unwalked, Based, Above, Real
  <2>2. Beyond'
    BY <1>2, <1>3, <1>4, <1>5 DEF Inv, Bounds, Beyond
  <2>3. Descends'
    BY <1>2, <1>3, <1>4, <1>5, <1>6 DEF Inv, Bounds, Descends, Before
  <2> QED BY <2>1, <2>2, <2>3 DEF Inv, Bounds
<1> QED BY <1>1, <1>10, <1>11, <1>12, <1>13, <1>14 DEF Inv

LEMMA StepInv == Inv /\ [Next]_vars => Inv'
<1> SUFFICES ASSUME Inv, [Next]_vars PROVE Inv'
  OBVIOUS
<1>1. CASE Finished \/ UNCHANGED vars
  <2>1. UNCHANGED <<items, range, walk>>
    BY <1>1 DEF Finished, vars
  <2>2. Safe'
    BY <1>1, StepSafe DEF Inv, Finished
  <2>3. \A i, j : Before(i, j)' = Before(i, j) /\ ShownBefore(i, j)' = ShownBefore(i, j)
    BY <2>1 DEF Before, ShownBefore, IsReverse
  <2> QED BY <2>1, <2>2, <2>3 DEF Inv, Bounds, Unwalked, Based, Beyond, Above, Descends, Forth, Back, IsReverse, IsPoint, Real,
             InOrder, Behind, Covers, StraysComeFirst, Ahead, Before, ShownBefore, Wanted, Asked, IsShown, Promised, Stray
<1> QED BY <1>1, FeedInv, OpenInv, SortedInv, BeginTreeInv, StepTreeInv, LogInv, CountInv, ExtremumInv, DropInv DEF Next

LEMMA Invariant == Spec => []Inv
  BY InitInv, StepInv, PTL DEF Spec

(* Whatever is fed meanwhile, an iteration shows records in the order of its  *)
(* container, and none of them twice (ShownInOrder).                          *)
THEOREM IterationsKeepOrder == Spec => []ShownInOrder
<1>1. Inv => ShownInOrder
  BY DEF Inv, InOrder, ShownInOrder
<1> QED BY <1>1, Invariant, PTL

(* What an iteration shows that was not asked for is what a range of the tree *)
(* shows before what was asked for (StraysComeFirst).                         *)
THEOREM StraysAreKnown == Spec => []StraysComeFirst
<1>1. Inv => StraysComeFirst
  BY DEF Inv
<1> QED BY <1>1, Invariant, PTL

(* An iteration that has ended has shown every record that was there when it  *)
(* began and was asked for, of the ranges that promise it (NothingMissed):    *)
(* what is asked for and not yet shown is always ahead of the iterator.       *)
THEOREM NothingIsMissed == Spec => []NothingMissed
<1>1. Inv => NothingMissed
  BY DEF Inv, Covers, NothingMissed, Real, Wanted, IsShown
<1> QED BY <1>1, Invariant, PTL
=============================================================================
