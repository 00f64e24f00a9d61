--------------------------- MODULE HistorySyncProofs ---------------------------
(* What holds of HistorySync for any histories, items, sources and failures:  *)
(* its types, what the exchange of the trades of two histories leaves them    *)
(* with and feeds them, and what a failure makes an index miss.               *)
EXTENDS HistorySync, LeastNumber, FiniteSetTheorems, SequenceTheorems, TLAPS

-----------------------------------------------------------------------------
(* Sequences of items.                                                       *)

LEMMA AppendIs ==
  ASSUME NEW S, NEW s \in Seq(S), NEW x \in S
  PROVE  /\ Append(s, x) \in Seq(S)
         /\ Len(s) \in Nat /\ Len(Append(s, x)) = Len(s) + 1
         /\ DOMAIN s = 1 .. Len(s) /\ DOMAIN Append(s, x) = 1 .. (Len(s) + 1)
         /\ \A i \in DOMAIN s : Append(s, x)[i] = s[i] /\ i \in DOMAIN Append(s, x)
         /\ Append(s, x)[Len(s) + 1] = x /\ Len(s) + 1 \notin DOMAIN s
         /\ \A i \in DOMAIN Append(s, x) : i \in DOMAIN s \/ i = Len(s) + 1
<1>1. PICK a : a = Append(s, x)
  OBVIOUS
<1>2. a \in Seq(S) /\ Len(a) = Len(s) + 1 /\ Len(s) \in Nat /\ DOMAIN s = 1 .. Len(s) /\ DOMAIN a = 1 .. Len(a)
  BY <1>1
<1>3. \A i \in 1 .. Len(s) : a[i] = s[i]
  BY <1>1
<1>4. a[Len(s) + 1] = x
  BY <1>1
<1> QED BY <1>1, <1>2, <1>3, <1>4

LEMMA ElemsAppend ==
  ASSUME NEW S, NEW s \in Seq(S), NEW x \in S
  PROVE  Elems(Append(s, x)) = Elems(s) \union {x}
<1>1. PICK a : a = Append(s, x)
  OBVIOUS
<1>2. /\ a[Len(s) + 1] = x /\ Len(s) + 1 \in DOMAIN a
      /\ \A i \in DOMAIN s : a[i] = s[i] /\ i \in DOMAIN a
      /\ \A i \in DOMAIN a : i \in DOMAIN s \/ i = Len(s) + 1
  BY <1>1, AppendIs
<1>3. \A y : y \in Elems(a) <=> y \in Elems(s) \/ y = x
  BY <1>2 DEF Elems
<1> QED BY <1>1, <1>3

LEMMA ElemsIn ==
  ASSUME NEW S, NEW s \in Seq(S)
  PROVE  Elems(s) \subseteq S
<1>1. \A i \in DOMAIN s : s[i] \in S
  OBVIOUS
<1> QED BY <1>1 DEF Elems

LEMMA ElemsEmpty == Elems(<<>>) = {} /\ DOMAIN <<>> = {}
<1>1. DOMAIN <<>> = {}
  OBVIOUS
<1> QED BY <1>1 DEF Elems

-----------------------------------------------------------------------------
(* Type correctness.                                                         *)

LEMMA KindsAre ==
  /\ Kinds = {"trades", "orders", "decisions"}
  /\ \A kind \in Kinds : Items[kind] \subseteq Records
<1>1. /\ Items.trades = Trades /\ Items.orders = Orders /\ Items.decisions = Decisions
      /\ Kinds = {"trades", "orders", "decisions"}
  BY DEF Kinds, Items
<1> QED BY <1>1, RecordsAssumption

LEMMA RecordIs ==
  ASSUME NEW x \in Records
  PROVE  /\ x[1] \in Halves /\ x[2] \in Halves /\ x[1] # Nothing /\ x[2] # Nothing
         /\ \A r \in Halves : <<r, x[1]>> \in Records
<1>1. PICK a \in Halves, b \in Halves : x = <<a, b>>
  BY DEF Records
<1> QED BY <1>1, RecordsAssumption DEF Records

\* A log or an index of every history: records of each kind.
Filed(l) == l \in [Histories -> [Kinds -> Seq(Records)]]

\* The half records at the end of logs, which are those of databases.
Rests ==
  /\ rest \in [Histories -> [Kinds -> Halves \union {Nothing}]]
  /\ damaged \subseteq Databases \X Kinds
  /\ \A h \in Histories, kind \in Kinds : rest[h][kind] # Nothing => <<h, kind>> \in damaged

Half == [kind : Indexed, of : Databases, item : Records]
Call == [kind : Kinds, one : Histories, two : Histories, pc : {"first", "second", "exchange"},
         first : Seq(Records), push : SUBSET Records, pull : SUBSET Records]
Announced == [todo : SUBSET Live, kind : {"trades", "orders"}, item : Records]
CallTyped == sync = Idle \/ (sync \in Call /\ sync.one # sync.two)

Typed ==
  /\ Filed(log) /\ Filed(index) /\ Rests
  /\ half \in [Threads -> Half \union {NoHalf}]
  /\ CallTyped
  /\ source = Silent \/ source \in Announced
  /\ feeds \in 0 .. MaxFeeds /\ syncs \in 0 .. MaxSyncs /\ failures \in 0 .. MaxFailures

\* What appending one record changes.
LEMMA AppendedIs ==
  ASSUME NEW l, Filed(l), NEW h \in Histories, NEW kind \in Kinds, NEW x \in Records
  PROVE  /\ Filed(Appended(l, h, kind, x))
         /\ Appended(l, h, kind, x)[h][kind] = Append(l[h][kind], x)
         /\ \A g \in Histories, k \in Kinds :
              g # h \/ k # kind => Appended(l, h, kind, x)[g][k] = l[g][k]
<1>1. PICK s : s = Append(l[h][kind], x)
  OBVIOUS
<1>2. l[h][kind] \in Seq(Records)
  BY DEF Filed
<1>3. s \in Seq(Records)
  BY <1>1, <1>2, AppendProperties
<1>4. PICK a : a = Appended(l, h, kind, x)
  OBVIOUS
<1>5. a = [l EXCEPT ![h] = [l[h] EXCEPT ![kind] = s]]
  BY <1>1, <1>4 DEF Appended
<1>6. PICK r : r = [l[h] EXCEPT ![kind] = s]
  OBVIOUS
<1>7. l[h] \in [Kinds -> Seq(Records)]
  BY DEF Filed
<1>8. r \in [Kinds -> Seq(Records)] /\ r[kind] = s /\ \A k \in Kinds : k # kind => r[k] = l[h][k]
  BY <1>3, <1>6, <1>7
<1>9. a \in [Histories -> [Kinds -> Seq(Records)]] /\ a[h] = r /\ \A g \in Histories : g # h => a[g] = l[g]
  BY <1>5, <1>6, <1>8 DEF Filed
<1>10. \A g \in Histories, k \in Kinds : g # h \/ k # kind => a[g][k] = l[g][k]
  BY <1>8, <1>9
<1>11. a[h][kind] = s
  BY <1>8, <1>9
<1> QED BY <1>1, <1>4, <1>9, <1>10, <1>11 DEF Filed

\* The half record at the end of one log is replaced.
LEMMA RestIs ==
  ASSUME Rests, NEW h \in Histories, NEW kind \in Kinds, NEW r \in Halves \union {Nothing},
         rest' = [rest EXCEPT ![h][kind] = r]
  PROVE  /\ rest' \in [Histories -> [Kinds -> Halves \union {Nothing}]]
         /\ rest'[h][kind] = r
         /\ \A g \in Histories, k \in Kinds : g # h \/ k # kind => rest'[g][k] = rest[g][k]
<1>1. PICK f : f = [rest[h] EXCEPT ![kind] = r]
  OBVIOUS
<1>2. rest' = [rest EXCEPT ![h] = f]
  BY <1>1
<1>3. rest[h] \in [Kinds -> Halves \union {Nothing}]
  BY DEF Rests
<1>4. f \in [Kinds -> Halves \union {Nothing}] /\ f[kind] = r /\ \A k \in Kinds : k # kind => f[k] = rest[h][k]
  BY <1>1, <1>3
<1>5. /\ rest' \in [Histories -> [Kinds -> Halves \union {Nothing}]]
      /\ rest'[h] = f /\ \A g \in Histories : g # h => rest'[g] = rest[g]
  BY <1>2, <1>4 DEF Rests
<1> QED BY <1>4, <1>5

LEMMA FoundIs ==
  ASSUME Rests, NEW h \in Histories, NEW kind \in Kinds, NEW x \in Records
  PROVE  /\ Found(h, kind, x) \in Records
         /\ rest[h][kind] = Nothing => Found(h, kind, x) = x
         /\ <<h, kind>> \notin damaged => Found(h, kind, x) = x
<1>1. rest[h][kind] \in Halves \union {Nothing}
  BY DEF Rests
<1>2. CASE rest[h][kind] = Nothing
  BY <1>2 DEF Found
<1>3. CASE rest[h][kind] # Nothing
  BY <1>1, <1>3, RecordIs DEF Found, Rests
<1> QED BY <1>2, <1>3

\* A log ends with a whole record after an append if it did before.
LEMMA WritesIs ==
  ASSUME Filed(log), Rests, NEW h \in Histories, NEW kind \in Kinds, NEW x \in Records, Writes(h, kind, x)
  PROVE  /\ Filed(log') /\ Rests' /\ damaged' = damaged
         /\ log'[h][kind] = Append(log[h][kind], Found(h, kind, x))
         /\ \A g \in Histories, k \in Kinds : g # h \/ k # kind => log'[g][k] = log[g][k]
         /\ \A g \in Histories, k \in Kinds : rest'[g][k] = Nothing <=> rest[g][k] = Nothing
<1>1. log' = Appended(log, h, kind, Found(h, kind, x)) /\ damaged' = damaged
  BY DEF Writes
<1>2. Found(h, kind, x) \in Records
  BY FoundIs
<1>3. PICK r \in Halves \union {Nothing} : /\ r = IF rest[h][kind] = Nothing THEN Nothing ELSE x[2]
                                           /\ r = Nothing <=> rest[h][kind] = Nothing
  BY RecordIs
<1>4. rest' = [rest EXCEPT ![h][kind] = r]
  BY <1>3 DEF Writes
<1>5. /\ rest' \in [Histories -> [Kinds -> Halves \union {Nothing}]]
      /\ \A g \in Histories, k \in Kinds : rest'[g][k] = Nothing <=> rest[g][k] = Nothing
  <2>1. /\ rest' \in [Histories -> [Kinds -> Halves \union {Nothing}]] /\ rest'[h][kind] = r
        /\ \A g \in Histories, k \in Kinds : g # h \/ k # kind => rest'[g][k] = rest[g][k]
    BY <1>4, RestIs
  <2>2. ASSUME NEW g \in Histories, NEW k \in Kinds
        PROVE  rest'[g][k] = Nothing <=> rest[g][k] = Nothing
    <3>1. CASE g = h /\ k = kind
      BY <1>3, <2>1, <3>1
    <3>2. CASE ~ (g = h /\ k = kind)
      BY <2>1, <3>2
    <3> QED BY <3>1, <3>2
  <2> QED BY <2>1, <2>2
<1>6. Rests'
  BY <1>1, <1>5 DEF Rests
<1> QED BY <1>1, <1>2, <1>5, <1>6, AppendedIs

\* feed(), of an item by a thread.
LEMMA FeedItemIs ==
  ASSUME Typed, NEW thread \in Threads, NEW h \in Histories, NEW kind \in Kinds, NEW x \in Records,
         FeedItem(thread, h, kind, x)
  PROVE  /\ Filed(log') /\ Filed(index') /\ Rests' /\ damaged' = damaged
         /\ \A g \in Histories, k \in Kinds : rest'[g][k] = Nothing <=> rest[g][k] = Nothing
         /\ log'[h][kind] = IF h \in Printed THEN log[h][kind] ELSE Append(log[h][kind], Found(h, kind, x))
         /\ \A g \in Histories, k \in Kinds : g # h \/ k # kind => log'[g][k] = log[g][k]
         /\ index'[h][kind] =
              IF h \in Memory /\ kind \in Indexed THEN Append(index[h][kind], x) ELSE index[h][kind]
         /\ \A g \in Histories, k \in Kinds : g # h \/ k # kind => index'[g][k] = index[g][k]
         /\ half[thread] = NoHalf
         /\ IF h \in Databases /\ kind \in Indexed
            THEN half' = [half EXCEPT ![thread] = [kind |-> kind, of |-> h, item |-> x]]
            ELSE half' = half
<1>1. Filed(log) /\ Filed(index) /\ Rests
  BY DEF Typed
<1>2. /\ Filed(log') /\ Rests' /\ damaged' = damaged
      /\ \A g \in Histories, k \in Kinds : rest'[g][k] = Nothing <=> rest[g][k] = Nothing
      /\ log'[h][kind] = IF h \in Printed THEN log[h][kind] ELSE Append(log[h][kind], Found(h, kind, x))
      /\ \A g \in Histories, k \in Kinds : g # h \/ k # kind => log'[g][k] = log[g][k]
  <2>1. CASE h \in Printed
    <3>1. log' = log /\ rest' = rest /\ damaged' = damaged
      BY <2>1 DEF FeedItem, Kept, logs
    <3> QED BY <1>1, <2>1, <3>1 DEF Rests
  <2>2. CASE h \notin Printed
    <3>1. Writes(h, kind, x)
      BY <2>2 DEF FeedItem, Kept
    <3> QED BY <1>1, <2>2, <3>1, WritesIs
  <2> QED BY <2>1, <2>2
<1>3. /\ Filed(index')
      /\ index'[h][kind] =
           IF h \in Memory /\ kind \in Indexed THEN Append(index[h][kind], x) ELSE index[h][kind]
      /\ \A g \in Histories, k \in Kinds : g # h \/ k # kind => index'[g][k] = index[g][k]
  <2>1. CASE h \in Memory /\ kind \in Indexed
    <3>1. index' = Appended(index, h, kind, x)
      BY <2>1 DEF FeedItem
    <3> QED BY <1>1, <2>1, <3>1, AppendedIs
  <2>2. CASE ~ (h \in Memory /\ kind \in Indexed)
    <3>1. index' = index
      BY <2>2 DEF FeedItem
    <3> QED BY <1>1, <2>2, <3>1
  <2> QED BY <2>1, <2>2
<1> QED BY <1>2, <1>3 DEF FeedItem

LEMMA FeedTyped ==
  ASSUME Typed, NEW thread \in Threads, NEW h \in Histories, NEW kind \in Kinds, NEW x \in Records,
         FeedItem(thread, h, kind, x)
  PROVE  Filed(log') /\ Filed(index') /\ Rests' /\ half' \in [Threads -> Half \union {NoHalf}]
<1>1. Filed(log') /\ Filed(index') /\ Rests'
  BY FeedItemIs
<1>2. CASE h \in Databases /\ kind \in Indexed
  <2>1. PICK it : it = [kind |-> kind, of |-> h, item |-> x]
    OBVIOUS
  <2>2. it \in Half
    BY <1>2, <2>1 DEF Half
  <2>3. half' = [half EXCEPT ![thread] = it]
    BY <1>2, <2>1, FeedItemIs
  <2> QED BY <1>1, <2>2, <2>3 DEF Typed
<1>3. CASE ~ (h \in Databases /\ kind \in Indexed)
  <2>1. half' = half
    BY <1>3, FeedItemIs
  <2> QED BY <1>1, <2>1 DEF Typed
<1> QED BY <1>2, <1>3

\* The second half of a feed, whether it returns or throws.
LEMMA IndexedIs ==
  ASSUME Typed, NEW thread \in Threads, half[thread] # NoHalf,
         index' = Appended(index, half[thread].of, half[thread].kind, half[thread].item)
  PROVE  /\ Filed(index')
         /\ half[thread].of \in Databases /\ half[thread].of \in Histories
         /\ half[thread].kind \in Kinds /\ half[thread].kind \in Indexed
         /\ half[thread].item \in Records
         /\ index'[half[thread].of][half[thread].kind] =
              Append(index[half[thread].of][half[thread].kind], half[thread].item)
         /\ \A g \in Histories, k \in Kinds :
              g # half[thread].of \/ k # half[thread].kind => index'[g][k] = index[g][k]
<1> DEFINE it == half[thread]
<1>1. it \in Half /\ Filed(index)
  BY DEF Typed
<1>2. index' = Appended(index, it.of, it.kind, it.item)
  OBVIOUS
<1> HIDE DEF it
<1>3. it.of \in Databases /\ it.kind \in Indexed /\ it.item \in Records
  BY <1>1 DEF Half
<1>4. it.of \in Histories /\ it.kind \in Kinds
  BY <1>3, KindsAre DEF Databases, Indexed
<1>5. /\ Filed(index')
      /\ index'[it.of][it.kind] = Append(index[it.of][it.kind], it.item)
      /\ \A g \in Histories, k \in Kinds : g # it.of \/ k # it.kind => index'[g][k] = index[g][k]
  <2>1. PICK h \in Histories, kind \in Kinds, x \in Records :
          h = it.of /\ kind = it.kind /\ x = it.item
    BY <1>3, <1>4
  <2>2. index' = Appended(index, h, kind, x)
    BY <1>2, <2>1
  <2>3. /\ Filed(index') /\ index'[h][kind] = Append(index[h][kind], x)
        /\ \A g \in Histories, k \in Kinds : g # h \/ k # kind => index'[g][k] = index[g][k]
    BY <1>1, <2>2, AppendedIs
  <2> QED BY <2>1, <2>3
<1> QED BY <1>3, <1>4, <1>5 DEF it

\* A thread has nothing half fed any more.
LEMMA HalfDropped ==
  ASSUME Typed, NEW thread \in Threads, half' = [half EXCEPT ![thread] = NoHalf]
  PROVE  /\ half' \in [Threads -> Half \union {NoHalf}]
         /\ half'[thread] = NoHalf /\ \A t \in Threads : t # thread => half'[t] = half[t]
  BY DEF Typed

\* What a history shows.
LEMMA ReadableIs ==
  ASSUME Filed(log), NEW h \in Histories, NEW kind \in Kinds
  PROVE  /\ Readable(h, kind) \in Seq(Records)
         /\ h \in Printed => Readable(h, kind) = <<>>
         /\ h \notin Printed /\ kind # "orders" => Readable(h, kind) = log[h][kind]
<1>1. log[h][kind] \in Seq(Records) /\ <<>> \in Seq(Records)
  BY DEF Filed
<1>2. ~ (h \in Memory /\ h \in Printed)
  BY HistoriesAssumption
<1>3. CASE h \in Memory
  BY <1>1, <1>2, <1>3 DEF Readable, ReadableInMemory
<1>4. CASE h \in Printed
  BY <1>1, <1>2, <1>4 DEF Readable, ReadableOnStdout
<1>5. CASE h \notin Memory /\ h \notin Printed
  BY <1>1, <1>5 DEF Readable
<1> QED BY <1>3, <1>4, <1>5

LEMMA SpecificTyped ==
  ASSUME NEW S, NEW kind, NEW s1 \in Seq(S), NEW s2 \in Seq(S)
  PROVE  Specific1(kind, s1, s2) \subseteq S /\ Specific2(kind, s1, s2) \subseteq S
<1>1. /\ \A i \in DOMAIN s1 : s1[i] \in S
      /\ \A i \in DOMAIN s2 : s2[i] \in S
  OBVIOUS
<1>2. Firsts(kind, s1, DOMAIN s1) \subseteq S
  BY <1>1 DEF Firsts
<1>3. Firsts(kind, s2, NotFound(kind, s1, s2)) \subseteq S
  BY <1>1 DEF Firsts, NotFound
<1> QED BY <1>2, <1>3 DEF Specific1, Specific2

LEMMA IdleIsNoCall == Idle \notin Call /\ Idle.kind = "none" /\ \A c \in Call : c.kind \in Kinds
<1>1. Idle.kind = "none"
  BY DEF Idle
<1>2. \A c \in Call : c.kind \in Kinds
  BY DEF Call
<1> QED BY <1>1, <1>2, KindsAre

LEMMA InitTyped == Init => Typed
<1> SUFFICES ASSUME Init PROVE Typed
  OBVIOUS
<1>1. Filed(Empty)
  BY DEF Filed, Empty
<1>2. NobodyHalf \in [Threads -> Half \union {NoHalf}]
  BY DEF NobodyHalf
<1>3. feeds \in 0 .. MaxFeeds /\ syncs \in 0 .. MaxSyncs /\ failures \in 0 .. MaxFailures
  BY BoundsAssumption DEF Init
<1>4. Rests
  BY DEF Init, Rests, Aligned
<1>5. Filed(log) /\ Filed(index)
  BY <1>1 DEF Init
<1>6. half \in [Threads -> Half \union {NoHalf}]
  BY <1>2 DEF Init
<1>7. CallTyped /\ source = Silent
  BY DEF Init, CallTyped
<1> QED BY <1>3, <1>4, <1>5, <1>6, <1>7 DEF Typed

LEMMA StageTyped ==
  ASSUME NEW one \in Histories, NEW two \in Histories, NEW kind \in Kinds
  PROVE  /\ Stage(one, two, kind) \in Call
         /\ Stage(one, two, kind).kind = kind /\ Stage(one, two, kind).one = one
         /\ Stage(one, two, kind).two = two /\ Stage(one, two, kind).pc = "first"
  BY DEF Stage, Call

LEMMA BeginStageTyped ==
  ASSUME NEW one \in Histories, NEW two \in Histories, one # two, NEW kind \in Kinds,
         BeginStage(one, two, kind)
  PROVE  CallTyped'
  BY StageTyped DEF BeginStage, CallTyped

LEMMA FeedStepTyped ==
  ASSUME Typed, NEW h \in Histories, NEW kind \in Kinds, NEW x \in Records, Feed(h, kind, x)
  PROVE  Typed'
<1>1. "main" \in Threads /\ FeedItem("main", h, kind, x)
  BY DEF Threads, Feed
<1>2. feeds' \in 0 .. MaxFeeds
  BY BoundsAssumption DEF Feed, Typed
<1> QED BY <1>1, <1>2, FeedTyped DEF Feed, Typed, CallTyped

LEMMA SourceFeedsTyped ==
  ASSUME Typed, NEW h \in Live, SourceFeeds(h)
  PROVE  /\ Typed' /\ source \in Announced /\ source.kind \in Kinds /\ source.item \in Records
         /\ h \in Histories /\ h \notin Memory
<1>1. h \in Histories /\ h \notin Memory
  BY LiveAssumption
<1>2. source \in Announced
  BY DEF SourceFeeds, Typed, Silent
<1>3. source.kind \in Kinds /\ source.kind \in {"trades", "orders"} /\ source.item \in Records
  BY <1>2, KindsAre DEF Announced
<1>4. PICK kind \in Kinds, x \in Records : kind = source.kind /\ x = source.item
  BY <1>3
<1>5. "source" \in Threads /\ FeedItem("source", h, kind, x)
  BY <1>4 DEF Threads, SourceFeeds
<1>6. source' = Silent \/ source' \in Announced
  <2>1. CASE source.todo = {h}
    BY <2>1 DEF SourceFeeds
  <2>2. CASE source.todo # {h}
    <3>1. source' = [source EXCEPT !.todo = @ \ {h}]
      BY <2>2 DEF SourceFeeds
    <3>2. source.todo \ {h} \in SUBSET Live
      BY <1>2 DEF Announced
    <3> QED BY <1>2, <3>1, <3>2 DEF Announced
  <2> QED BY <2>1, <2>2
<1>7. Filed(log') /\ Filed(index') /\ Rests' /\ half' \in [Threads -> Half \union {NoHalf}]
  BY <1>1, <1>5, FeedTyped
<1>8. sync' = sync /\ feeds' = feeds /\ syncs' = syncs /\ failures' = failures
  BY DEF SourceFeeds, counts
<1>9. Typed'
  BY <1>6, <1>7, <1>8 DEF Typed, CallTyped
<1> QED BY <1>1, <1>2, <1>3, <1>9

LEMMA AnnounceTyped ==
  ASSUME Typed, NEW kind \in {"trades", "orders"}, NEW x \in Records, Announce(kind, x)
  PROVE  Typed'
<1>1. Live \in SUBSET Live
  OBVIOUS
<1>2. [todo |-> Live, kind |-> kind, item |-> x] \in Announced
  BY <1>1 DEF Announced
<1>3. source' \in Announced
  BY <1>2 DEF Announce
<1>4. feeds' \in 0 .. MaxFeeds
  BY BoundsAssumption DEF Announce, Typed
<1> QED BY <1>3, <1>4 DEF Announce, Typed, CallTyped, logs, Rests

\* The reads of a stage.
LEMMA ReadsTyped ==
  ASSUME Typed, ReadFirst \/ ReadSecond
  PROVE  /\ CallTyped'
         /\ sync \in Call /\ sync' \in Call
         /\ sync'.kind = sync.kind /\ sync'.one = sync.one /\ sync'.two = sync.two
         /\ ReadFirst => /\ sync'.pc = "second" /\ sync'.first = Readable(sync.one, sync.kind)
                         /\ sync'.push = sync.push /\ sync'.pull = sync.pull
         /\ ReadSecond => /\ sync'.pc = "exchange"
                          /\ sync'.push = Specific1(sync.kind, sync.first, Readable(sync.two, sync.kind))
                          /\ sync'.pull = Specific2(sync.kind, sync.first, Readable(sync.two, sync.kind))
<1>1. sync \in Call /\ sync.one # sync.two
  BY DEF ReadFirst, ReadSecond, Typed, CallTyped
<1>2. PICK kind \in Kinds, one \in Histories, two \in Histories, s \in Seq(Records) :
        kind = sync.kind /\ one = sync.one /\ two = sync.two /\ s = sync.first
  BY <1>1 DEF Call
<1>3. PICK s1, s2 \in Seq(Records) : s1 = Readable(one, kind) /\ s2 = Readable(two, kind)
  BY ReadableIs DEF Typed
<1>4. ASSUME ReadFirst
      PROVE  /\ sync' \in Call /\ sync'.kind = kind /\ sync'.one = one /\ sync'.two = two
             /\ sync'.pc = "second" /\ sync'.first = s1
             /\ sync'.push = sync.push /\ sync'.pull = sync.pull
  <2>1. sync' = [sync EXCEPT !.pc = "second", !.first = s1]
    BY <1>2, <1>3, <1>4 DEF ReadFirst
  <2> QED BY <1>1, <1>2, <1>3, <2>1 DEF Call
<1>5. ASSUME ReadSecond
      PROVE  /\ sync' \in Call /\ sync'.kind = kind /\ sync'.one = one /\ sync'.two = two
             /\ sync'.pc = "exchange"
             /\ sync'.push = Specific1(kind, s, s2) /\ sync'.pull = Specific2(kind, s, s2)
  <2>1. PICK push, pull : push = Specific1(kind, s, s2) /\ pull = Specific2(kind, s, s2)
    OBVIOUS
  <2>2. sync' = [sync EXCEPT !.pc = "exchange", !.first = <<>>, !.push = push, !.pull = pull]
    BY <1>2, <1>3, <1>5, <2>1 DEF ReadSecond
  <2>3. push \in SUBSET Records /\ pull \in SUBSET Records /\ <<>> \in Seq(Records)
    <3>1. Specific1(kind, s, s2) \subseteq Records /\ Specific2(kind, s, s2) \subseteq Records
      BY SpecificTyped
    <3>2. <<>> \in Seq(Records)
      OBVIOUS
    <3> QED BY <2>1, <3>1, <3>2
  <2> QED BY <1>1, <1>2, <2>1, <2>2, <2>3 DEF Call
<1>6. CallTyped'
  BY <1>1, <1>2, <1>4, <1>5 DEF CallTyped
<1>7. ReadFirst => sync'.pc = "second" /\ sync'.first = Readable(sync.one, sync.kind)
                   /\ sync'.push = sync.push /\ sync'.pull = sync.pull
  BY <1>2, <1>3, <1>4
<1>8. ReadSecond => /\ sync'.pc = "exchange"
                    /\ sync'.push = Specific1(sync.kind, sync.first, Readable(sync.two, sync.kind))
                    /\ sync'.pull = Specific2(sync.kind, sync.first, Readable(sync.two, sync.kind))
  BY <1>2, <1>3, <1>5
<1> QED BY <1>1, <1>2, <1>4, <1>5, <1>6, <1>7, <1>8

\* A turn of the loops that exchange.
LEMMA ExchangeTyped ==
  ASSUME Typed, NEW x, Push(x) \/ Pull(x)
  PROVE  /\ Typed'
         /\ sync \in Call /\ sync' \in Call /\ sync.pc = "exchange" /\ sync'.pc = "exchange"
         /\ sync'.kind = sync.kind /\ sync'.one = sync.one /\ sync'.two = sync.two
         /\ x \in Records
         /\ Push(x) => /\ x \in sync.push /\ sync'.push = sync.push \ {x} /\ sync'.pull = sync.pull
                       /\ FeedItem("main", sync.two, sync.kind, x)
         /\ Pull(x) => /\ x \in sync.pull /\ sync'.push = sync.push /\ sync'.pull = sync.pull \ {x}
                       /\ FeedItem("main", sync.one, sync.kind, x)
<1>1. sync \in Call /\ sync.one # sync.two /\ sync.pc = "exchange"
  BY DEF Push, Pull, Exchanging, Typed, CallTyped
<1>2. PICK kind \in Kinds, one \in Histories, two \in Histories :
        kind = sync.kind /\ one = sync.one /\ two = sync.two
  BY <1>1 DEF Call
<1>3. x \in Records /\ "main" \in Threads
  <2>1. sync.push \subseteq Records /\ sync.pull \subseteq Records
    BY <1>1 DEF Call
  <2> QED BY <2>1 DEF Push, Pull, Threads
<1>4. ASSUME Push(x)
      PROVE  /\ x \in sync.push /\ FeedItem("main", two, kind, x)
             /\ sync' \in Call /\ sync'.kind = kind /\ sync'.one = one /\ sync'.two = two
             /\ sync'.pc = "exchange"
             /\ sync'.push = sync.push \ {x} /\ sync'.pull = sync.pull
  <2>1. sync' = [sync EXCEPT !.push = @ \ {x}] /\ x \in sync.push /\ FeedItem("main", two, kind, x)
    BY <1>2, <1>4 DEF Push
  <2>2. sync.push \ {x} \in SUBSET Records
    BY <1>1 DEF Call
  <2> QED BY <1>1, <1>2, <2>1, <2>2 DEF Call
<1>5. ASSUME Pull(x)
      PROVE  /\ x \in sync.pull /\ FeedItem("main", one, kind, x)
             /\ sync' \in Call /\ sync'.kind = kind /\ sync'.one = one /\ sync'.two = two
             /\ sync'.pc = "exchange"
             /\ sync'.push = sync.push /\ sync'.pull = sync.pull \ {x}
  <2>1. sync' = [sync EXCEPT !.pull = @ \ {x}] /\ x \in sync.pull /\ FeedItem("main", one, kind, x)
    BY <1>2, <1>5 DEF Pull
  <2>2. sync.pull \ {x} \in SUBSET Records
    BY <1>1 DEF Call
  <2> QED BY <1>1, <1>2, <2>1, <2>2 DEF Call
<1>6. CallTyped'
  BY <1>1, <1>2, <1>4, <1>5 DEF CallTyped
<1>7. Filed(log') /\ Filed(index') /\ Rests' /\ half' \in [Threads -> Half \union {NoHalf}]
  BY <1>3, <1>4, <1>5, FeedTyped
<1>8. source' = source /\ feeds' = feeds /\ syncs' = syncs /\ failures' = failures
  BY DEF Push, Pull, counts
<1>9. Typed'
  BY <1>6, <1>7, <1>8 DEF Typed
<1>10. Push(x) => FeedItem("main", sync.two, sync.kind, x)
  BY DEF Push
<1>11. Pull(x) => FeedItem("main", sync.one, sync.kind, x)
  BY DEF Pull
<1> QED BY <1>1, <1>2, <1>3, <1>4, <1>5, <1>9, <1>10, <1>11

LEMMA NextStageTyped ==
  ASSUME Typed, NextStage
  PROVE  CallTyped' /\ sync'.kind # "trades"
<1>1. sync \in Call /\ sync.one # sync.two
  BY DEF NextStage, Exchanging, Typed, CallTyped
<1>2. PICK kind \in Kinds, one \in Histories, two \in Histories :
        kind = sync.kind /\ one = sync.one /\ two = sync.two /\ one # two
  BY <1>1 DEF Call
<1>3. ASSUME kind = "trades" PROVE CallTyped' /\ sync'.kind # "trades"
  <2>1. BeginStage(one, two, "orders")
    BY <1>2, <1>3 DEF NextStage
  <2>2. sync'.kind = "orders"
    BY <2>1, KindsAre, StageTyped DEF BeginStage
  <2> QED BY <1>2, <2>1, <2>2, KindsAre, BeginStageTyped
<1>4. ASSUME kind = "orders" PROVE CallTyped' /\ sync'.kind # "trades"
  <2>1. BeginStage(one, two, "decisions")
    BY <1>2, <1>4 DEF NextStage
  <2>2. sync'.kind = "decisions"
    BY <2>1, KindsAre, StageTyped DEF BeginStage
  <2> QED BY <1>2, <2>1, <2>2, KindsAre, BeginStageTyped
<1>5. ASSUME kind = "decisions" PROVE CallTyped' /\ sync'.kind # "trades"
  <2>1. sync' = Idle
    BY <1>2, <1>5 DEF NextStage
  <2>2. CallTyped'
    BY <2>1 DEF CallTyped
  <2>3. Idle.kind # "trades"
    BY DEF Idle
  <2> QED BY <2>1, <2>2, <2>3
<1> QED BY <1>2, <1>3, <1>4, <1>5, KindsAre

LEMMA WipedIs ==
  ASSUME NEW l, Filed(l)
  PROVE  /\ Filed(Wiped(l))
         /\ \A h \in Histories, kind \in Kinds :
              Wiped(l)[h][kind] = IF h \in Memory THEN <<>> ELSE l[h][kind]
<1>1. PICK w : w = Wiped(l)
  OBVIOUS
<1>2. \A h \in Histories : w[h] = IF h \in Memory THEN [kind \in Kinds |-> <<>>] ELSE l[h]
  BY <1>1 DEF Wiped, Empty
<1>3. \A h \in Histories, kind \in Kinds : w[h][kind] = IF h \in Memory THEN <<>> ELSE l[h][kind]
  BY <1>2
<1>4. \A h \in Histories : w[h] \in [Kinds -> Seq(Records)]
  <2>1. <<>> \in Seq(Records)
    OBVIOUS
  <2>2. [kind \in Kinds |-> <<>>] \in [Kinds -> Seq(Records)]
    BY <2>1
  <2> QED BY <1>2, <2>2 DEF Filed
<1>5. w \in [Histories -> [Kinds -> Seq(Records)]]
  BY <1>1, <1>4 DEF Wiped
<1> QED BY <1>1, <1>3, <1>5 DEF Filed

\* An append that fails half-way.
LEMMA TornIs ==
  ASSUME Typed, NEW h \in Databases, NEW kind \in Kinds, NEW x \in Records, Tears(h, kind, x)
  PROVE  /\ Filed(Torn(h, kind, x)) /\ Rests' /\ h \in Histories
         /\ damaged' = damaged \union {<<h, kind>>}
         /\ \A g \in Histories, k \in Kinds :
              g # h \/ k # kind => Torn(h, kind, x)[g][k] = log[g][k] /\ rest'[g][k] = rest[g][k]
<1>1. h \in Histories /\ Filed(log) /\ Rests
  BY DEF Databases, Typed
<1>2. damaged' = damaged \union {<<h, kind>>}
  BY DEF Tears
<1>3. PICK r \in Halves \union {Nothing} : r = IF rest[h][kind] = Nothing THEN x[1] ELSE Nothing
  BY RecordIs
<1>4. rest' = [rest EXCEPT ![h][kind] = r]
  BY <1>3 DEF Tears
<1>5. /\ rest' \in [Histories -> [Kinds -> Halves \union {Nothing}]]
      /\ \A g \in Histories, k \in Kinds : g # h \/ k # kind => rest'[g][k] = rest[g][k]
  BY <1>1, <1>4, RestIs
<1>6. Rests'
  <2>1. damaged' \subseteq Databases \X Kinds
    BY <1>1, <1>2 DEF Rests
  <2>2. \A g \in Histories, k \in Kinds : rest'[g][k] # Nothing => <<g, k>> \in damaged'
    BY <1>1, <1>2, <1>5 DEF Rests
  <2> QED BY <1>5, <2>1, <2>2 DEF Rests
<1>7. Found(h, kind, x) \in Records
  BY <1>1, FoundIs
<1>8. /\ Filed(Torn(h, kind, x))
      /\ \A g \in Histories, k \in Kinds : g # h \/ k # kind => Torn(h, kind, x)[g][k] = log[g][k]
  BY <1>1, <1>7, AppendedIs DEF Torn
<1> QED BY <1>1, <1>2, <1>5, <1>6, <1>8

\* What the item is that a death or an exception cuts.
LEMMA ThrownHalfway ==
  ASSUME Typed, NEW h \in Databases, NEW kind, NEW x, ThrowHalfway(h, kind, x),
         sync = Idle => kind \in Kinds /\ x \in Items[kind]
  PROVE  kind \in Kinds /\ x \in Records
<1>1. CASE sync = Idle
  BY <1>1, KindsAre
<1>2. CASE sync # Idle
  <2>1. sync \in Call
    BY <1>2 DEF Typed, CallTyped
  <2>2. kind = sync.kind /\ (x \in sync.push \/ x \in sync.pull)
    BY <1>2 DEF ThrowHalfway
  <2> QED BY <2>1, <2>2 DEF Call
<1> QED BY <1>1, <1>2

LEMMA DyingHalfway ==
  ASSUME Typed, NEW h, DieHalfway(h)
  PROVE  h \in Databases /\ source.kind \in Kinds /\ source.item \in Records
<1>1. source \in Announced /\ h \in Databases
  BY DEF DieHalfway, Typed, Silent
<1> QED BY <1>1, KindsAre DEF Announced

LEMMA DiesTyped ==
  ASSUME Typed, Dies, Filed(log'), Rests'
  PROVE  Typed'
<1>1. NobodyHalf \in [Threads -> Half \union {NoHalf}]
  BY DEF NobodyHalf
<1>2. failures' \in 0 .. MaxFailures
  BY BoundsAssumption DEF Dies, Typed
<1>3. Filed(index')
  BY WipedIs DEF Dies, Typed
<1>4. half' \in [Threads -> Half \union {NoHalf}]
  BY <1>1 DEF Dies
<1>5. CallTyped' /\ source' = Silent
  BY DEF Dies, CallTyped
<1>6. feeds' \in 0 .. MaxFeeds /\ syncs' \in 0 .. MaxSyncs
  BY DEF Dies, Typed
<1> QED BY <1>2, <1>3, <1>4, <1>5, <1>6 DEF Typed

LEMMA ThrownTyped ==
  ASSUME Typed, Thrown, Filed(log'), Filed(index'), Rests'
  PROVE  Typed'
<1>1. half' \in [Threads -> Half \union {NoHalf}]
  BY HalfDropped DEF Thrown, Threads
<1>2. failures' \in 0 .. MaxFailures
  BY BoundsAssumption DEF Thrown, Typed
<1>3. CallTyped'
  BY DEF Thrown, CallTyped
<1>4. /\ feeds' \in 0 .. MaxFeeds /\ syncs' \in 0 .. MaxSyncs
      /\ source' = Silent \/ source' \in Announced
  BY DEF Thrown, Typed
<1> QED BY <1>1, <1>2, <1>3, <1>4 DEF Typed

LEMMA StepTyped == Typed /\ [Next]_vars => Typed'
<1> SUFFICES ASSUME Typed, [Next]_vars PROVE Typed'
  OBVIOUS
<1>1. ASSUME UNCHANGED logs PROVE Filed(log') /\ Rests'
  BY <1>1 DEF logs, Typed, Rests
<1>2. ASSUME NEW thread \in Threads, Index(thread) PROVE Typed'
  <2>1. half[thread] # NoHalf /\ half' = [half EXCEPT ![thread] = NoHalf]
    BY <1>2 DEF Index
  <2>2. index' = Appended(index, half[thread].of, half[thread].kind, half[thread].item)
    BY <1>2 DEF Index
  <2> QED BY <1>1, <1>2, <2>1, <2>2, IndexedIs, HalfDropped DEF Index, counts, Typed, CallTyped
<1>3. ASSUME NEW one \in Histories, NEW two \in Histories, one # two, BeginSync(one, two)
      PROVE  Typed'
  <2>1. CallTyped'
    BY <1>3, KindsAre, BeginStageTyped DEF BeginSync
  <2>2. syncs' \in 0 .. MaxSyncs
    BY <1>3, BoundsAssumption DEF BeginSync, Typed
  <2> QED BY <1>1, <1>3, <2>1, <2>2 DEF BeginSync, Typed
<1>4. ASSUME ReadFirst \/ ReadSecond PROVE Typed'
  <2>1. CallTyped'
    BY <1>4, ReadsTyped
  <2> QED BY <1>1, <1>4, <2>1 DEF ReadFirst, ReadSecond, counts, Typed
<1>5. ASSUME NextStage PROVE Typed'
  <2>1. CallTyped'
    BY <1>5, NextStageTyped
  <2> QED BY <1>1, <1>5, <2>1 DEF NextStage, counts, Typed
<1>6. ASSUME Throw PROVE Typed'
  BY <1>1, <1>6, ThrownTyped DEF Throw, Typed
<1>7. ASSUME CommitThrows PROVE Typed'
  <2>1. half["main"] # NoHalf /\ "main" \in Threads
    BY <1>7 DEF CommitThrows, Threads
  <2>2. index' = Appended(index, half["main"].of, half["main"].kind, half["main"].item)
    BY <1>7 DEF CommitThrows
  <2> QED BY <1>1, <1>7, <2>1, <2>2, IndexedIs, ThrownTyped DEF CommitThrows
<1>8. ASSUME NEW h \in Databases, NEW kind \in Kinds, NEW x \in Records, ThrowHalfway(h, kind, x)
      PROVE  Typed'
  <2>1. log' = Torn(h, kind, x) /\ Tears(h, kind, x) /\ index' = index /\ Thrown
    BY <1>8 DEF ThrowHalfway
  <2>2. Filed(log') /\ Rests'
    BY <2>1, TornIs
  <2> QED BY <2>1, <2>2, ThrownTyped DEF Typed
<1>9. ASSUME Crash PROVE Typed'
  <2>1. Filed(log') /\ Rests'
    BY <1>9, WipedIs DEF Crash, Typed, Rests
  <2> QED BY <1>9, <2>1, DiesTyped DEF Crash
<1>10. ASSUME NEW h \in Live, DieHalfway(h) PROVE Typed'
  <2>1. PICK kind \in Kinds, x \in Records : kind = source.kind /\ x = source.item /\ h \in Databases
    BY <1>10, DyingHalfway
  <2>2. log' = Wiped(Torn(h, kind, x)) /\ Tears(h, kind, x) /\ Dies
    BY <1>10, <2>1 DEF DieHalfway
  <2>3. Filed(log') /\ Rests'
    BY <2>1, <2>2, TornIs, WipedIs
  <2> QED BY <2>2, <2>3, DiesTyped
<1>11. CASE Finished \/ UNCHANGED vars
  BY <1>1, <1>11 DEF Finished, vars, counts, Typed, CallTyped
<1>12. ASSUME NEW h \in Histories, NEW kind \in Kinds, NEW x \in Items[kind], Feed(h, kind, x) PROVE Typed'
  BY <1>12, KindsAre, FeedStepTyped
<1>13. ASSUME NEW kind \in {"trades", "orders"}, NEW x \in Items[kind], Announce(kind, x) PROVE Typed'
  BY <1>13, KindsAre, AnnounceTyped
<1>14. ASSUME NEW h \in Databases, NEW kind \in Kinds, NEW x \in Items[kind], ThrowHalfway(h, kind, x)
       PROVE  Typed'
  BY <1>8, <1>14, KindsAre
<1>15. ASSUME sync # Idle, NEW h \in Databases, NEW x, ThrowHalfway(h, sync.kind, x) PROVE Typed'
  <2>1. sync.kind \in Kinds /\ x \in Records
    BY <1>15, ThrownHalfway
  <2> QED BY <1>8, <1>15, <2>1
<1>16. ASSUME NEW h \in Live, SourceFeeds(h) PROVE Typed'
  BY <1>16, SourceFeedsTyped
<1>17. ASSUME NEW x, Push(x) \/ Pull(x) PROVE Typed'
  BY <1>17, ExchangeTyped
<1> QED BY <1>2, <1>3, <1>4, <1>5, <1>6, <1>7, <1>9, <1>10, <1>11, <1>12, <1>13, <1>14, <1>15, <1>16, <1>17
           DEF Next

LEMMA TypedHolds == Spec => []Typed
  BY InitTyped, StepTyped, PTL DEF Spec

-----------------------------------------------------------------------------
(* Nothing of one kind comes among what is of another.                       *)

FiledOfKind(l) == \A h \in Histories, kind \in Kinds : Elems(l[h][kind]) \subseteq Readings[kind]
RestOfKind == \A h \in Histories, kind \in Kinds : rest[h][kind] # Nothing => rest[h][kind] \in Pieces[kind]
HalfOfKind ==
  \A thread \in Threads : half[thread] # NoHalf => half[thread].item \in Readings[half[thread].kind]
SourceOfKind == source # Silent => source.item \in Readings[source.kind]
CallOfKind == sync # Idle => Elems(sync.first) \union sync.push \union sync.pull \subseteq Readings[sync.kind]

OfKind ==
  FiledOfKind(log) /\ FiledOfKind(index) /\ RestOfKind /\ HalfOfKind /\ SourceOfKind /\ CallOfKind

LEMMA TypedIs == Typed /\ OfKind => TypeOK
<1> SUFFICES ASSUME Typed, OfKind PROVE TypeOK
  OBVIOUS
<1>1. \A thread \in Threads : half[thread] # NoHalf =>
        /\ half[thread].of \in Databases /\ half[thread].kind \in Indexed
        /\ half[thread].item \in Readings[half[thread].kind]
  BY DEF Typed, Half, OfKind, HalfOfKind
<1>2. sync # Idle => /\ {sync.one, sync.two} \subseteq Histories
                     /\ sync.push \union sync.pull \subseteq Readings[sync.kind]
  <2>1. sync # Idle => {sync.one, sync.two} \subseteq Histories
    BY DEF Typed, CallTyped, Call
  <2>2. sync # Idle => sync.push \union sync.pull \subseteq Readings[sync.kind]
    BY DEF OfKind, CallOfKind
  <2> QED BY <2>1, <2>2
<1>3. source.todo \subseteq Live
  BY DEF Typed, Silent, Announced
<1>4. \A h \in Histories, kind \in Kinds :
        /\ Elems(log[h][kind]) \union Elems(index[h][kind]) \subseteq Readings[kind]
        /\ rest[h][kind] # Nothing => rest[h][kind] \in Pieces[kind] /\ <<h, kind>> \in damaged
  <2>1. Rests /\ FiledOfKind(log) /\ FiledOfKind(index) /\ RestOfKind
    BY DEF Typed, OfKind
  <2>2. ASSUME NEW h \in Histories, NEW kind \in Kinds, rest[h][kind] # Nothing
        PROVE  rest[h][kind] \in Pieces[kind] /\ <<h, kind>> \in damaged
    BY <2>1, <2>2 DEF Rests, RestOfKind
  <2>3. ASSUME NEW h \in Histories, NEW kind \in Kinds
        PROVE  Elems(log[h][kind]) \union Elems(index[h][kind]) \subseteq Readings[kind]
    BY <2>1 DEF FiledOfKind
  <2> QED BY <2>2, <2>3, Zenon
<1> QED BY <1>1, <1>2, <1>3, <1>4 DEF Typed, TypeOK, Filed, Rests

LEMMA ReadingIs ==
  ASSUME NEW kind \in Kinds
  PROVE  /\ Readings[kind] \subseteq Records /\ Items[kind] \subseteq Readings[kind]
         /\ \A x \in Readings[kind] : x[1] \in Pieces[kind] /\ x[2] \in Pieces[kind]
         /\ \A r \in Pieces[kind], x \in Readings[kind] : <<r, x[1]>> \in Readings[kind]
<1>1. PICK P : P = Pieces[kind]
  OBVIOUS
<1>2. P = {x[i] : x \in Items[kind], i \in {1, 2}} /\ Readings[kind] = P \X P
  BY <1>1 DEF Pieces, Readings
<1>3. \A x \in Items[kind] : x \in Halves \X Halves /\ x[1] \in P /\ x[2] \in P
  BY <1>2, KindsAre DEF Records
<1>4. P \subseteq Halves
  BY <1>2, <1>3
<1>5. Items[kind] \subseteq P \X P
  BY <1>3
<1>6. \A x \in P \X P : x[1] \in P /\ x[2] \in P
  OBVIOUS
<1>7. \A r \in P, x \in P \X P : <<r, x[1]>> \in P \X P
  OBVIOUS
<1> QED BY <1>1, <1>2, <1>4, <1>5, <1>6, <1>7 DEF Records

LEMMA AppendedOfKind ==
  ASSUME NEW l, Filed(l), FiledOfKind(l),
         NEW h \in Histories, NEW kind \in Kinds, NEW x \in Readings[kind]
  PROVE  FiledOfKind(Appended(l, h, kind, x))
<1>1. x \in Records /\ l[h][kind] \in Seq(Records)
  BY ReadingIs DEF Filed
<1>2. PICK a : a = Appended(l, h, kind, x)
  OBVIOUS
<1>3. /\ a[h][kind] = Append(l[h][kind], x)
      /\ \A g \in Histories, k \in Kinds : g # h \/ k # kind => a[g][k] = l[g][k]
  BY <1>1, <1>2, AppendedIs
<1>4. Elems(a[h][kind]) = Elems(l[h][kind]) \union {x}
  BY <1>1, <1>3, ElemsAppend
<1>5. ASSUME NEW g \in Histories, NEW k \in Kinds
      PROVE  Elems(a[g][k]) \subseteq Readings[k]
  <2>1. CASE g = h /\ k = kind
    BY <1>4, <2>1 DEF FiledOfKind
  <2>2. CASE g # h \/ k # kind
    BY <1>3, <2>2 DEF FiledOfKind
  <2> QED BY <2>1, <2>2
<1> QED BY <1>2, <1>5 DEF FiledOfKind

LEMMA WipedOfKind ==
  ASSUME NEW l, Filed(l), FiledOfKind(l)
  PROVE  FiledOfKind(Wiped(l))
<1>1. PICK w : w = Wiped(l)
  OBVIOUS
<1>2. \A h \in Histories, kind \in Kinds : w[h][kind] = IF h \in Memory THEN <<>> ELSE l[h][kind]
  BY <1>1, WipedIs
<1> QED BY <1>1, <1>2, ElemsEmpty DEF FiledOfKind

\* Two halves that meet are of one kind.
LEMMA FoundOfKind ==
  ASSUME Typed, RestOfKind, NEW h \in Histories, NEW kind \in Kinds, NEW x \in Readings[kind]
  PROVE  Found(h, kind, x) \in Readings[kind]
<1>1. CASE rest[h][kind] = Nothing
  BY <1>1 DEF Found
<1>2. CASE rest[h][kind] # Nothing
  BY <1>2, ReadingIs DEF Found, RestOfKind
<1> QED BY <1>1, <1>2

LEMMA RestReplaced ==
  ASSUME RestOfKind, NEW h \in Histories, NEW kind \in Kinds,
         rest'[h][kind] # Nothing => rest'[h][kind] \in Pieces[kind],
         \A g \in Histories, k \in Kinds : g # h \/ k # kind => rest'[g][k] = rest[g][k]
  PROVE  RestOfKind'
<1>1. ASSUME NEW g \in Histories, NEW k \in Kinds, rest'[g][k] # Nothing
      PROVE  rest'[g][k] \in Pieces[k]
  <2>1. CASE g = h /\ k = kind
    BY <1>1, <2>1
  <2>2. CASE g # h \/ k # kind
    BY <1>1, <2>2 DEF RestOfKind
  <2> QED BY <2>1, <2>2
<1> QED BY <1>1 DEF RestOfKind

LEMMA FeedOfKind ==
  ASSUME Typed, OfKind, NEW thread \in Threads, NEW h \in Histories, NEW kind \in Kinds,
         NEW x \in Readings[kind], FeedItem(thread, h, kind, x)
  PROVE  FiledOfKind(log') /\ FiledOfKind(index') /\ RestOfKind' /\ HalfOfKind'
<1>1. x \in Records /\ x[2] \in Pieces[kind] /\ x[2] \in Halves
  BY ReadingIs, RecordIs
<1>2. FiledOfKind(log') /\ RestOfKind'
  <2>1. CASE h \in Printed
    <3>1. log' = log /\ rest' = rest
      BY <2>1 DEF FeedItem, Kept, logs
    <3> QED BY <3>1 DEF OfKind, FiledOfKind, RestOfKind
  <2>2. CASE h \notin Printed
    <3>1. Writes(h, kind, x)
      BY <2>2 DEF FeedItem, Kept
    <3>2. FiledOfKind(log')
      BY <3>1, FoundOfKind, AppendedOfKind DEF Writes, Typed, OfKind
    <3>3. PICK r \in Halves \union {Nothing} : r = IF rest[h][kind] = Nothing THEN Nothing ELSE x[2]
      BY <1>1
    <3>4. rest' = [rest EXCEPT ![h][kind] = r]
      BY <3>1, <3>3 DEF Writes
    <3>5. Rests
      BY DEF Typed
    <3>6. /\ rest'[h][kind] = r
          /\ \A g \in Histories, k \in Kinds : g # h \/ k # kind => rest'[g][k] = rest[g][k]
      BY <3>4, <3>5, RestIs, Zenon
    <3>7. rest'[h][kind] # Nothing => rest'[h][kind] \in Pieces[kind]
      BY <1>1, <3>3, <3>6
    <3> QED BY <3>2, <3>6, <3>7, RestReplaced DEF OfKind
  <2> QED BY <2>1, <2>2
<1>3. FiledOfKind(index')
  <2>1. index' = Appended(index, h, kind, x) \/ index' = index
    BY DEF FeedItem
  <2> QED BY <2>1, AppendedOfKind DEF Typed, OfKind
<1>4. HalfOfKind'
  <2>1. CASE half' = half
    BY <2>1 DEF OfKind, HalfOfKind
  <2>2. CASE half' # half
    <3>1. half' = [half EXCEPT ![thread] = [kind |-> kind, of |-> h, item |-> x]]
      BY <2>2, <1>1, FeedItemIs
    <3>2. \A t \in Threads : half'[t] = IF t = thread THEN [kind |-> kind, of |-> h, item |-> x] ELSE half[t]
      BY <3>1 DEF Typed
    <3> QED BY <3>2 DEF OfKind, HalfOfKind
  <2> QED BY <2>1, <2>2
<1> QED BY <1>2, <1>3, <1>4

LEMMA TornOfKind ==
  ASSUME Typed, OfKind, NEW h \in Databases, NEW kind \in Kinds, NEW x \in Readings[kind], Tears(h, kind, x)
  PROVE  FiledOfKind(Torn(h, kind, x)) /\ RestOfKind'
<1>1. h \in Histories
  BY DEF Databases
<1>2. x \in Records /\ x[1] \in Pieces[kind] /\ x[1] \in Halves
  BY ReadingIs, RecordIs
<1>3. FiledOfKind(Torn(h, kind, x))
  BY <1>1, FoundOfKind, AppendedOfKind DEF Torn, Typed, OfKind
<1>4. PICK r \in Halves \union {Nothing} : r = IF rest[h][kind] = Nothing THEN x[1] ELSE Nothing
  BY <1>2
<1>5. rest' = [rest EXCEPT ![h][kind] = r]
  BY <1>4 DEF Tears
<1>6. Rests
  BY DEF Typed
<1>7. /\ rest'[h][kind] = r
      /\ \A g \in Histories, k \in Kinds : g # h \/ k # kind => rest'[g][k] = rest[g][k]
  BY <1>1, <1>5, <1>6, RestIs, Zenon
<1>8. rest'[h][kind] # Nothing => rest'[h][kind] \in Pieces[kind]
  BY <1>2, <1>4, <1>7
<1> QED BY <1>1, <1>3, <1>7, <1>8, RestReplaced DEF OfKind

LEMMA IndexedOfKind ==
  ASSUME Typed, OfKind, NEW thread \in Threads, half[thread] # NoHalf,
         index' = Appended(index, half[thread].of, half[thread].kind, half[thread].item)
  PROVE  FiledOfKind(index')
<1>1. /\ half[thread].of \in Histories /\ half[thread].kind \in Kinds /\ half[thread].item \in Records
      /\ half[thread].item \in Readings[half[thread].kind]
  BY IndexedIs DEF OfKind, HalfOfKind
<1>2. PICK h \in Histories, kind \in Kinds, x \in Records :
        h = half[thread].of /\ kind = half[thread].kind /\ x = half[thread].item /\ x \in Readings[kind]
  BY <1>1
<1>3. index' = Appended(index, h, kind, x)
  BY <1>2
<1>4. Filed(index) /\ FiledOfKind(index)
  BY DEF Typed, OfKind
<1> QED BY <1>2, <1>3, <1>4, AppendedOfKind

LEMMA HalfDroppedOfKind ==
  ASSUME Typed, OfKind, NEW thread \in Threads, half' = [half EXCEPT ![thread] = NoHalf]
  PROVE  HalfOfKind'
<1>1. half'[thread] = NoHalf /\ \A t \in Threads : t # thread => half'[t] = half[t]
  BY HalfDropped
<1> QED BY <1>1 DEF OfKind, HalfOfKind

LEMMA ReadableOfKind ==
  ASSUME Typed, OfKind, NEW h \in Histories, NEW kind \in Kinds
  PROVE  Elems(Readable(h, kind)) \subseteq Readings[kind]
<1>1. Readable(h, kind) = log[h][kind] \/ Readable(h, kind) = <<>>
  <2>1. CASE h \in Memory
    <3>1. Readable(h, kind) = ReadableInMemory(h, kind)
      BY <2>1, HistoriesAssumption DEF Readable
    <3> QED BY <3>1 DEF ReadableInMemory
  <2>2. CASE h \in Printed /\ h \notin Memory
    BY <2>2 DEF Readable, ReadableOnStdout
  <2>3. CASE h \notin Memory /\ h \notin Printed
    BY <2>3 DEF Readable
  <2> QED BY <2>1, <2>2, <2>3
<1> QED BY <1>1, ElemsEmpty DEF OfKind, FiledOfKind

LEMMA SpecificOfKind ==
  ASSUME NEW kind, NEW s1, NEW s2
  PROVE  Specific1(kind, s1, s2) \subseteq Elems(s1) /\ Specific2(kind, s1, s2) \subseteq Elems(s2)
<1>1. Firsts(kind, s1, DOMAIN s1) \subseteq Elems(s1)
  BY DEF Firsts, Elems
<1>2. Firsts(kind, s2, NotFound(kind, s1, s2)) \subseteq Elems(s2)
  BY DEF Firsts, NotFound, Elems
<1> QED BY <1>1, <1>2 DEF Specific1, Specific2

LEMMA ReadsOfKind ==
  ASSUME Typed, OfKind, ReadFirst \/ ReadSecond
  PROVE  CallOfKind'
<1>1. sync \in Call /\ sync'.kind = sync.kind
  BY ReadsTyped
<1>2. PICK kind \in Kinds, one \in Histories, two \in Histories,
           first \in Seq(Records), push \in SUBSET Records, pull \in SUBSET Records :
        /\ kind = sync.kind /\ one = sync.one /\ two = sync.two
        /\ first = sync.first /\ push = sync.push /\ pull = sync.pull
  BY <1>1 DEF Call
<1>3. Elems(first) \union push \union pull \subseteq Readings[kind]
  BY <1>2 DEF ReadFirst, ReadSecond, OfKind, CallOfKind
<1>4. PICK s1, s2 : /\ s1 = Readable(one, kind) /\ s2 = Readable(two, kind)
                    /\ Elems(s1) \subseteq Readings[kind] /\ Elems(s2) \subseteq Readings[kind]
  BY ReadableOfKind
<1>5. CASE ReadFirst
  <2>1. sync'.first = s1 /\ sync'.push = push /\ sync'.pull = pull
    BY <1>2, <1>4, <1>5, ReadsTyped
  <2> QED BY <1>1, <1>2, <1>3, <1>4, <2>1 DEF CallOfKind
<1>6. CASE ReadSecond
  <2>1. sync'.push = Specific1(kind, first, s2) /\ sync'.pull = Specific2(kind, first, s2)
    BY <1>2, <1>4, <1>6, ReadsTyped
  <2>2. sync'.first = <<>>
    BY <1>1, <1>6 DEF ReadSecond, Call
  <2>3. sync'.push \union sync'.pull \subseteq Readings[kind]
    BY <1>3, <1>4, <2>1, SpecificOfKind
  <2> QED BY <1>1, <1>2, <2>2, <2>3, ElemsEmpty DEF CallOfKind
<1> QED BY <1>5, <1>6

LEMMA StageOfKind ==
  ASSUME NEW one, NEW two, NEW kind, BeginStage(one, two, kind)
  PROVE  CallOfKind'
<1>1. sync'.first = <<>> /\ sync'.push = {} /\ sync'.pull = {}
  BY DEF BeginStage, Stage
<1> QED BY <1>1, ElemsEmpty DEF CallOfKind

LEMMA ExchangeOfKind ==
  ASSUME Typed, OfKind, NEW x, Push(x) \/ Pull(x)
  PROVE  OfKind'
<1>1. /\ sync \in Call /\ sync'.kind = sync.kind /\ "main" \in Threads
      /\ x \in Readings[sync.kind]
  BY ExchangeTyped DEF OfKind, CallOfKind, Push, Pull, Exchanging, Threads
<1>2. PICK h \in Histories, kind \in Kinds : kind = sync.kind /\ FeedItem("main", h, kind, x)
  BY <1>1, ExchangeTyped DEF Call
<1>3. FiledOfKind(log') /\ FiledOfKind(index') /\ RestOfKind' /\ HalfOfKind'
  BY <1>1, <1>2, FeedOfKind
<1>4. sync'.first = sync.first
  BY <1>1 DEF Push, Pull, Call
<1>5. sync'.push \subseteq sync.push /\ sync'.pull \subseteq sync.pull
  BY ExchangeTyped
<1>6. sync # Idle
  BY DEF Push, Pull, Exchanging
<1>7. CallOfKind'
  BY <1>1, <1>4, <1>5, <1>6 DEF OfKind, CallOfKind
<1>8. SourceOfKind'
  BY DEF Push, Pull, OfKind, SourceOfKind
<1> QED BY <1>3, <1>7, <1>8 DEF OfKind, FiledOfKind

LEMMA InitOfKind == Init => OfKind
<1> SUFFICES ASSUME Init PROVE OfKind
  OBVIOUS
<1>1. \A h \in Histories, kind \in Kinds : Empty[h][kind] = <<>> /\ Aligned[h][kind] = Nothing
  BY DEF Empty, Aligned
<1>2. FiledOfKind(log) /\ FiledOfKind(index) /\ RestOfKind
  BY <1>1, ElemsEmpty DEF Init, FiledOfKind, RestOfKind
<1>3. HalfOfKind
  BY DEF Init, HalfOfKind, NobodyHalf
<1>4. SourceOfKind /\ CallOfKind
  BY DEF Init, SourceOfKind, CallOfKind
<1> QED BY <1>2, <1>3, <1>4 DEF OfKind

LEMMA StepOfKind == Typed /\ OfKind /\ [Next]_vars => OfKind'
<1> SUFFICES ASSUME Typed, OfKind, [Next]_vars PROVE OfKind'
  OBVIOUS
<1>1. ASSUME UNCHANGED logs PROVE FiledOfKind(log') /\ RestOfKind'
  BY <1>1 DEF logs, OfKind, FiledOfKind, RestOfKind
<1>2. ASSUME UNCHANGED index PROVE FiledOfKind(index')
  BY <1>2 DEF OfKind, FiledOfKind
<1>3. ASSUME UNCHANGED half PROVE HalfOfKind'
  BY <1>3 DEF OfKind, HalfOfKind
<1>4. ASSUME UNCHANGED source PROVE SourceOfKind'
  BY <1>4 DEF OfKind, SourceOfKind
<1>5. ASSUME UNCHANGED sync PROVE CallOfKind'
  BY <1>5 DEF OfKind, CallOfKind
<1>6. ASSUME Thrown PROVE HalfOfKind' /\ SourceOfKind' /\ CallOfKind'
  BY <1>4, <1>6, HalfDroppedOfKind DEF Thrown, Threads, CallOfKind
<1>7. ASSUME Dies PROVE FiledOfKind(index') /\ HalfOfKind' /\ SourceOfKind' /\ CallOfKind'
  <2>1. FiledOfKind(index')
    BY <1>7, WipedOfKind DEF Dies, Typed, OfKind
  <2>2. HalfOfKind'
    BY <1>7 DEF Dies, HalfOfKind, NobodyHalf
  <2> QED BY <1>7, <2>1, <2>2 DEF Dies, SourceOfKind, CallOfKind
<1>8. ASSUME NEW h \in Databases, NEW kind \in Kinds, NEW x \in Readings[kind], ThrowHalfway(h, kind, x)
      PROVE  OfKind'
  <2>1. log' = Torn(h, kind, x) /\ Tears(h, kind, x) /\ index' = index /\ Thrown
    BY <1>8 DEF ThrowHalfway
  <2>2. FiledOfKind(log') /\ RestOfKind'
    BY <2>1, TornOfKind
  <2> QED BY <1>2, <1>6, <2>1, <2>2 DEF OfKind
<1>9. ASSUME NEW h \in Histories, NEW kind \in Kinds, NEW x \in Items[kind], Feed(h, kind, x) PROVE OfKind'
  <2>1. "main" \in Threads /\ FeedItem("main", h, kind, x) /\ x \in Readings[kind]
    BY <1>9, ReadingIs DEF Threads, Feed
  <2>2. FiledOfKind(log') /\ FiledOfKind(index') /\ RestOfKind' /\ HalfOfKind'
    BY <2>1, FeedOfKind
  <2> QED BY <1>4, <1>5, <1>9, <2>2 DEF Feed, OfKind
<1>10. ASSUME NEW thread \in Threads, Index(thread) PROVE OfKind'
  <2>1. FiledOfKind(index')
    BY <1>10, IndexedOfKind DEF Index
  <2>2. HalfOfKind'
    BY <1>10, HalfDroppedOfKind DEF Index
  <2> QED BY <1>1, <1>4, <1>5, <1>10, <2>1, <2>2 DEF Index, OfKind
<1>11. ASSUME NEW kind \in {"trades", "orders"}, NEW x \in Items[kind], Announce(kind, x) PROVE OfKind'
  <2>1. kind \in Kinds
    BY KindsAre
  <2>2. x \in Readings[kind]
    BY <2>1, ReadingIs
  <2>3. SourceOfKind'
    BY <1>11, <2>2 DEF Announce, SourceOfKind
  <2> QED BY <1>1, <1>2, <1>3, <1>5, <1>11, <2>3 DEF Announce, OfKind
<1>12. ASSUME NEW h \in Live, SourceFeeds(h) PROVE OfKind'
  <2>1. h \in Histories /\ source \in Announced /\ source.kind \in Kinds /\ source.item \in Records /\ "source" \in Threads
    BY <1>12, SourceFeedsTyped DEF Threads
  <2>2. source # Silent
    BY <1>12 DEF SourceFeeds, Silent
  <2>3. PICK kind \in Kinds, x \in Records : kind = source.kind /\ x = source.item /\ x \in Readings[kind]
    BY <2>1, <2>2 DEF OfKind, SourceOfKind
  <2>4. FiledOfKind(log') /\ FiledOfKind(index') /\ RestOfKind' /\ HalfOfKind'
    BY <1>12, <2>1, <2>3, FeedOfKind DEF SourceFeeds
  <2>5. source' = Silent \/ (source'.kind = source.kind /\ source'.item = source.item)
    BY <1>12, <2>1 DEF SourceFeeds, Announced
  <2>6. SourceOfKind'
    BY <2>2, <2>5 DEF OfKind, SourceOfKind
  <2>7. CallOfKind'
    BY <1>5, <1>12 DEF SourceFeeds
  <2> QED BY <2>4, <2>6, <2>7 DEF OfKind
<1>13. ASSUME NEW one, NEW two, BeginSync(one, two) PROVE OfKind'
  BY <1>1, <1>2, <1>3, <1>4, <1>13, StageOfKind DEF BeginSync, OfKind
<1>14. CASE ReadFirst \/ ReadSecond
  <2>1. CallOfKind'
    BY <1>14, ReadsOfKind
  <2>2. UNCHANGED <<logs, index, half, source>>
    BY <1>14 DEF ReadFirst, ReadSecond
  <2> QED BY <1>1, <1>2, <1>3, <1>4, <2>1, <2>2 DEF OfKind
<1>15. CASE NextStage
  <2>1. \/ \E kind : BeginStage(sync.one, sync.two, kind)
        \/ sync' = Idle
    BY <1>15 DEF NextStage
  <2>2. CallOfKind'
    BY <2>1, StageOfKind DEF CallOfKind
  <2> QED BY <1>1, <1>2, <1>3, <1>4, <1>15, <2>2 DEF NextStage, OfKind
<1>16. CASE Throw
  BY <1>1, <1>2, <1>6, <1>16 DEF Throw, OfKind
<1>17. CASE CommitThrows
  <2>1. FiledOfKind(index')
    BY <1>17, IndexedOfKind DEF CommitThrows, Threads
  <2> QED BY <1>1, <1>6, <1>17, <2>1 DEF CommitThrows, OfKind
<1>18. ASSUME NEW h \in Databases, NEW kind \in Kinds, NEW x \in Items[kind], ThrowHalfway(h, kind, x)
       PROVE  OfKind'
  BY <1>8, <1>18, ReadingIs
<1>19. ASSUME sync # Idle, NEW h \in Databases, NEW x \in sync.push \union sync.pull,
              ThrowHalfway(h, sync.kind, x)
       PROVE  OfKind'
  <2>1. sync.kind \in Kinds
    BY <1>19 DEF Typed, CallTyped, Call
  <2>2. x \in Readings[sync.kind]
    BY <1>19 DEF OfKind, CallOfKind
  <2> QED BY <1>8, <1>19, <2>1, <2>2
<1>20. CASE Crash
  <2>1. FiledOfKind(log') /\ RestOfKind'
    BY <1>20, WipedOfKind DEF Crash, Typed, OfKind, RestOfKind
  <2> QED BY <1>7, <1>20, <2>1 DEF Crash, OfKind
<1>21. ASSUME NEW h \in Live, DieHalfway(h) PROVE OfKind'
  <2>1. source # Silent
    BY <1>21 DEF DieHalfway, Silent
  <2>2. PICK kind \in Kinds, x \in Records :
          kind = source.kind /\ x = source.item /\ h \in Databases /\ x \in Readings[kind]
    BY <1>21, <2>1, DyingHalfway DEF OfKind, SourceOfKind
  <2>3. log' = Wiped(Torn(h, kind, x)) /\ Tears(h, kind, x) /\ Dies
    BY <1>21, <2>2 DEF DieHalfway
  <2>4. FiledOfKind(log') /\ RestOfKind'
    BY <2>2, <2>3, TornIs, TornOfKind, WipedOfKind
  <2> QED BY <1>7, <2>3, <2>4 DEF OfKind
<1>22. CASE Finished \/ UNCHANGED vars
  BY <1>1, <1>2, <1>3, <1>4, <1>5, <1>22 DEF Finished, vars, OfKind
<1>23. ASSUME NEW x, Push(x) \/ Pull(x) PROVE OfKind'
  BY <1>23, ExchangeOfKind
<1> QED BY <1>9, <1>10, <1>11, <1>12, <1>13, <1>14, <1>15, <1>16, <1>17, <1>18, <1>19, <1>20, <1>21, <1>22, <1>23
           DEF Next

LEMMA OfKindHolds == Spec => []OfKind
<1>1. Typed /\ Typed' /\ OfKind /\ [Next]_vars => OfKind'
  BY StepOfKind
<1> QED BY <1>1, TypedHolds, InitOfKind, PTL DEF Spec

(* Every history, what the threads have half fed, what appends that failed    *)
(* have left and the call under way keep their types, and nothing of one kind *)
(* comes among what is of another, however many halves of records are left    *)
(* and exchanged (TypeOK).                                                    *)
THEOREM TypeCorrect == Spec => []TypeOK
  BY TypedHolds, OfKindHolds, TypedIs, PTL

-----------------------------------------------------------------------------
(* How often an item is in a sequence.                                       *)

LEMMA TimesAppend ==
  ASSUME NEW S, NEW s \in Seq(S), NEW y \in S, NEW x
  PROVE  /\ Times(s, x) \in Nat /\ Times(Append(s, y), x) \in Nat
         /\ x = y => Times(Append(s, y), x) = Times(s, x) + 1
         /\ x # y => Times(Append(s, y), x) = Times(s, x)
<1> DEFINE P == {i \in DOMAIN s : s[i] = x}
<1>1. PICK a : a = Append(s, y)
  OBVIOUS
<1>2. /\ Len(s) \in Nat /\ DOMAIN s = 1 .. Len(s) /\ Len(s) + 1 \notin DOMAIN s
      /\ Len(s) + 1 \in DOMAIN a /\ a[Len(s) + 1] = y
      /\ \A i \in DOMAIN s : a[i] = s[i] /\ i \in DOMAIN a
      /\ \A i \in DOMAIN a : i \in DOMAIN s \/ i = Len(s) + 1
  <2>1. Len(s) + 1 \in 1 .. (Len(s) + 1)
    BY AppendIs
  <2> QED BY <1>1, <2>1, AppendIs
<1>3. IsFiniteSet(DOMAIN s)
  BY <1>2, FS_Interval
<1>4. IsFiniteSet(P)
  BY <1>3, FS_Subset
<1>5. CASE x = y
  <2>1. {i \in DOMAIN a : a[i] = x} = P \union {Len(s) + 1}
    BY <1>2, <1>5
  <2>2. Len(s) + 1 \notin P
    BY <1>2
  <2>3. Cardinality(P \union {Len(s) + 1}) = Cardinality(P) + 1
    BY <1>4, <2>2, FS_AddElement
  <2>4. PICK n \in Nat : n = Cardinality(P)
    BY <1>4, FS_CardinalityType
  <2>5. Times(s, x) = n /\ Times(a, x) = n + 1
    BY <2>1, <2>3, <2>4 DEF Times
  <2> QED BY <1>1, <1>5, <2>4, <2>5
<1>6. CASE x # y
  <2>1. {i \in DOMAIN a : a[i] = x} = P
    BY <1>2, <1>6
  <2>2. PICK n \in Nat : n = Cardinality(P)
    BY <1>4, FS_CardinalityType
  <2>3. Times(a, x) = n /\ Times(s, x) = n
    BY <2>1, <2>2 DEF Times
  <2> QED BY <1>1, <1>6, <2>2, <2>3
<1> QED BY <1>5, <1>6

LEMMA TimesNone ==
  ASSUME NEW s, NEW x, x \notin Elems(s)
  PROVE  Times(s, x) = 0
<1>1. {i \in DOMAIN s : s[i] = x} = {}
  BY DEF Elems
<1> QED BY <1>1, FS_EmptySet DEF Times

LEMMA TwoElements ==
  ASSUME NEW i, NEW j, i # j
  PROVE  Cardinality({i} \union {j}) = 2
<1>1. IsFiniteSet({i}) /\ Cardinality({i}) = 1
  BY FS_Singleton
<1>2. j \notin {i}
  OBVIOUS
<1>3. PICK T : T = {i}
  OBVIOUS
<1>4. Cardinality(T \union {j}) = Cardinality(T) + 1
  BY <1>1, <1>2, <1>3, FS_AddElement
<1> QED BY <1>1, <1>3, <1>4

LEMMA TimesTwice ==
  ASSUME NEW S, NEW s \in Seq(S), NEW i \in DOMAIN s, NEW j \in DOMAIN s, i # j, s[i] = s[j]
  PROVE  Times(s, s[i]) > 1
<1> DEFINE P == {k \in DOMAIN s : s[k] = s[i]}
<1>1. DOMAIN s = 1 .. Len(s) /\ Len(s) \in Nat
  OBVIOUS
<1>2. IsFiniteSet(P)
  <2>1. IsFiniteSet(DOMAIN s)
    BY <1>1, FS_Interval
  <2> QED BY <2>1, FS_Subset
<1>3. {i, j} \in SUBSET P
  OBVIOUS
<1>4. Cardinality({i} \union {j}) = 2
  BY TwoElements
<1>5. {i} \union {j} \in SUBSET P
  BY <1>3
<1>6. Cardinality({i} \union {j}) <= Cardinality(P) /\ Cardinality(P) \in Nat
  BY <1>2, <1>5, FS_Subset, FS_CardinalityType
<1>7. PICK n \in Nat : n = Cardinality(P)
  BY <1>6
<1>8. n > 1
  BY <1>4, <1>6, <1>7
<1> QED BY <1>7, <1>8 DEF Times

-----------------------------------------------------------------------------
(* What synchronize_with computes, of trades.                                *)

LEMMA FirstsAre ==
  ASSUME NEW S, NEW s \in Seq(S), NEW among \in SUBSET (DOMAIN s)
  PROVE  Firsts("trades", s, among) = {s[i] : i \in among}
<1>1. ASSUME NEW i \in among
      PROVE  s[i] \in Firsts("trades", s, among)
  <2> DEFINE Same == {j \in among : s[j] = s[i]}
  <2>1. Same \in SUBSET Nat /\ Same # {}
    BY DEF Same
  <2> HIDE DEF Same
  <2>2. PICK j \in Same : \A k \in Same : j <= k
    BY <2>1, LeastNatural
  <2>3. j \in among /\ s[j] = s[i] /\ j \in Nat /\ \A k \in among : s[k] = s[i] => j <= k
    BY <2>1, <2>2 DEF Same
  <2>4. \A k \in among : k < j => ~ Equivalent("trades", s[k], s[j])
    <3>1. \A k \in among : k \in Nat
      OBVIOUS
    <3>2. \A k \in among : k < j => ~ (j <= k)
      BY <2>3, <3>1
    <3> QED BY <2>3, <3>2 DEF Equivalent
  <2>5. s[j] \in Firsts("trades", s, among)
    BY <2>3, <2>4 DEF Firsts
  <2> QED BY <2>3, <2>5
<1>2. Firsts("trades", s, among) \subseteq {s[i] : i \in among}
  BY DEF Firsts
<1> QED BY <1>1, <1>2

LEMMA Specific1Is ==
  ASSUME NEW S, NEW s1 \in Seq(S), NEW s2 \in Seq(S)
  PROVE  Specific1("trades", s1, s2) = Elems(s1) \ Elems(s2)
<1>1. Firsts("trades", s1, DOMAIN s1) = Elems(s1)
  BY FirstsAre DEF Elems
<1> QED BY <1>1 DEF Specific1, Equivalent

LEMMA Specific2Is ==
  ASSUME NEW S, NEW s1 \in Seq(S), NEW s2 \in Seq(S)
  PROVE  /\ Specific2("trades", s1, s2) \subseteq Elems(s2)
         /\ Elems(s2) \ Elems(s1) \subseteq Specific2("trades", s1, s2)
         /\ \A x \in Specific2("trades", s1, s2) : x \notin Elems(s1) \/ Times(s2, x) > 1
<1> DEFINE N == NotFound("trades", s1, s2)
<1>1. N \in SUBSET (DOMAIN s2)
  BY DEF NotFound
<1>2. Specific2("trades", s1, s2) = {s2[i] : i \in N}
  BY <1>1, FirstsAre DEF Specific2
<1>3. ASSUME NEW i \in DOMAIN s2, s2[i] \notin Elems(s1)
      PROVE  i \in N
  BY <1>3 DEF NotFound, Equivalent
<1>4. ASSUME NEW i \in N
      PROVE  s2[i] \notin Elems(s1) \/ Times(s2, s2[i]) > 1
  <2>1. CASE \A x \in Elems(s1) : ~ Equivalent("trades", x, s2[i])
    BY <2>1 DEF Equivalent
  <2>2. CASE \E j \in DOMAIN s2 : j < i /\ Equivalent("trades", s2[j], s2[i])
    <3>1. PICK j \in DOMAIN s2 : j < i /\ s2[j] = s2[i]
      BY <2>2 DEF Equivalent
    <3>2. i \in DOMAIN s2 /\ DOMAIN s2 \subseteq Nat
      BY <1>1
    <3>3. j # i
      BY <3>1, <3>2
    <3> QED BY <3>1, <3>2, <3>3, TimesTwice
  <2> QED BY <1>4, <2>1, <2>2 DEF NotFound
<1> HIDE DEF N
<1> QED BY <1>1, <1>2, <1>3, <1>4 DEF Elems

-----------------------------------------------------------------------------
(* What the exchange of the trades of two histories stands on.               *)

Held(h) == Shows(h, "trades")
Twice(h) == {x \in Records : Times(log[h]["trades"], x) > 1}

\* What is fed to a history is what it shows next.
Straight(h) == h \notin Printed /\ rest[h]["trades"] = Nothing

(* c is the call, one and two what its two histories show, twice what the     *)
(* second holds more than once, seen what both showed at the beginning and    *)
(* fed what they have shown since for a source has fed them; straight1 and    *)
(* straight2 say whether each of them shows what it is fed.                   *)
Stands(c, one, two, straight1, straight2, twice, seen, fed) ==
  /\ c.pc = "first" => seen \subseteq one \union two /\ one \union two \subseteq seen \union fed
  /\ c.pc = "second" =>
       /\ Elems(c.first) \subseteq one /\ one \subseteq Elems(c.first) \union fed
       /\ seen \subseteq Elems(c.first) \union two
       /\ one \union two \subseteq seen \union fed
  /\ c.pc = "exchange" =>
       /\ c.push \union c.pull \subseteq seen \union fed
       /\ straight2 => /\ \A x \in c.push : x \notin two \/ x \in fed
                       /\ seen \subseteq two \union c.push /\ two \subseteq seen \union fed
       /\ straight1 => /\ \A x \in c.pull : x \notin one \/ x \in fed \/ x \in twice
                       /\ seen \subseteq one \union c.pull /\ one \subseteq seen \union fed

Exchange ==
  sync.kind = "trades" =>
    Stands(sync, Held(sync.one), Held(sync.two), Straight(sync.one), Straight(sync.two),
           Twice(sync.two), shown, since)

\* A source feeds the two histories.
LEMMA StandsGrows ==
  ASSUME NEW c, NEW one, NEW two, NEW s1, NEW s2, NEW twice, NEW seen, NEW fed,
         Stands(c, one, two, s1, s2, twice, seen, fed),
         NEW one_, NEW two_, NEW twice_, NEW fed_,
         one \subseteq one_, one_ \subseteq one \union fed_,
         two \subseteq two_, two_ \subseteq two \union fed_,
         twice \subseteq twice_, fed \subseteq fed_
  PROVE  Stands(c, one_, two_, s1, s2, twice_, seen, fed_)
<1>1. c.pc = "first" => seen \subseteq one_ \union two_ /\ one_ \union two_ \subseteq seen \union fed_
  BY DEF Stands
<1>2. c.pc = "second" =>
        /\ Elems(c.first) \subseteq one_ /\ one_ \subseteq Elems(c.first) \union fed_
        /\ seen \subseteq Elems(c.first) \union two_
        /\ one_ \union two_ \subseteq seen \union fed_
  BY DEF Stands
<1>3. c.pc = "exchange" => c.push \union c.pull \subseteq seen \union fed_
  BY DEF Stands
<1>4. c.pc = "exchange" /\ s2 => /\ \A x \in c.push : x \notin two_ \/ x \in fed_
                                 /\ seen \subseteq two_ \union c.push /\ two_ \subseteq seen \union fed_
  BY DEF Stands
<1>5. c.pc = "exchange" /\ s1 => /\ \A x \in c.pull : x \notin one_ \/ x \in fed_ \/ x \in twice_
                                 /\ seen \subseteq one_ \union c.pull /\ one_ \subseteq seen \union fed_
  BY DEF Stands
<1> QED BY <1>1, <1>2, <1>3, <1>4, <1>5 DEF Stands

LEMMA StandsPush ==
  ASSUME NEW c, NEW one, NEW two, NEW s1, NEW s2, NEW twice, NEW seen, NEW fed,
         Stands(c, one, two, s1, s2, twice, seen, fed),
         NEW d, NEW two_, NEW twice_, NEW x \in c.push,
         c.pc = "exchange", d.pc = "exchange", d.push = c.push \ {x}, d.pull = c.pull,
         s2 => two_ = two \union {x},
         twice \subseteq twice_
  PROVE  Stands(d, one, two_, s1, s2, twice_, seen, fed)
<1>1. d.push \union d.pull \subseteq seen \union fed
  BY DEF Stands
<1>2. ASSUME s2
      PROVE  /\ \A y \in d.push : y \notin two_ \/ y \in fed
             /\ seen \subseteq two_ \union d.push /\ two_ \subseteq seen \union fed
  BY <1>2 DEF Stands
<1>3. ASSUME s1
      PROVE  /\ \A y \in d.pull : y \notin one \/ y \in fed \/ y \in twice_
             /\ seen \subseteq one \union d.pull /\ one \subseteq seen \union fed
  BY <1>3 DEF Stands
<1> QED BY <1>1, <1>2, <1>3 DEF Stands

LEMMA StandsPull ==
  ASSUME NEW c, NEW one, NEW two, NEW s1, NEW s2, NEW twice, NEW seen, NEW fed,
         Stands(c, one, two, s1, s2, twice, seen, fed),
         NEW d, NEW one_, NEW x \in c.pull,
         c.pc = "exchange", d.pc = "exchange", d.push = c.push, d.pull = c.pull \ {x},
         s1 => one_ = one \union {x}
  PROVE  Stands(d, one_, two, s1, s2, twice, seen, fed)
<1>1. d.push \union d.pull \subseteq seen \union fed
  BY DEF Stands
<1>2. ASSUME s2
      PROVE  /\ \A y \in d.push : y \notin two \/ y \in fed
             /\ seen \subseteq two \union d.push /\ two \subseteq seen \union fed
  BY <1>2 DEF Stands
<1>3. ASSUME s1
      PROVE  /\ \A y \in d.pull : y \notin one_ \/ y \in fed \/ y \in twice
             /\ seen \subseteq one_ \union d.pull /\ one_ \subseteq seen \union fed
  BY <1>3 DEF Stands
<1> QED BY <1>1, <1>2, <1>3 DEF Stands

\* The second history is read, and the two sets are computed.
LEMMA StandsCompare ==
  ASSUME NEW c, NEW one, NEW two, NEW s1, NEW s2, NEW twice, NEW seen, NEW fed,
         Stands(c, one, two, s1, s2, twice, seen, fed),
         c.pc = "second", NEW S, NEW r1 \in Seq(S), NEW r2 \in Seq(S), r1 = c.first, two = Elems(r2),
         NEW d, d.pc = "exchange",
         d.push = Specific1("trades", r1, r2), d.pull = Specific2("trades", r1, r2),
         \A x \in two : Times(r2, x) > 1 => x \in twice
  PROVE  Stands(d, one, two, s1, s2, twice, seen, fed)
<1>1. /\ Elems(r1) \subseteq one /\ one \subseteq Elems(r1) \union fed /\ seen \subseteq Elems(r1) \union two
      /\ one \union two \subseteq seen \union fed
  BY DEF Stands
<1>2. d.push = Elems(r1) \ two
  BY Specific1Is
<1>3. /\ d.pull \subseteq two /\ two \ Elems(r1) \subseteq d.pull
      /\ \A x \in d.pull : x \notin Elems(r1) \/ Times(r2, x) > 1
  BY Specific2Is
<1>4. \A x \in d.pull : x \notin one \/ x \in fed \/ x \in twice
  BY <1>1, <1>3
<1>5. d.push \union d.pull \subseteq seen \union fed
  BY <1>1, <1>2, <1>3
<1>6. \A x \in d.push : x \notin two \/ x \in fed
  BY <1>2
<1>7. seen \subseteq one \union d.pull /\ seen \subseteq two \union d.push
  BY <1>1, <1>2, <1>3
<1> QED BY <1>1, <1>4, <1>5, <1>6, <1>7 DEF Stands

LEMMA HeldIs ==
  ASSUME Filed(log), NEW h \in Histories
  PROVE  /\ log[h]["trades"] \in Seq(Records)
         /\ Readable(h, "trades") \in Seq(Records) /\ Held(h) = Elems(Readable(h, "trades"))
         /\ Held(h) = IF h \in Printed THEN {} ELSE Elems(log[h]["trades"])
         /\ h \notin Printed => Readable(h, "trades") = log[h]["trades"]
<1>1. "trades" \in Kinds
  BY KindsAre
<1>2. log[h]["trades"] \in Seq(Records)
  BY <1>1 DEF Filed
<1>3. CASE h \in Printed
  BY <1>1, <1>2, <1>3, ReadableIs, ElemsEmpty DEF Held, Shows
<1>4. CASE h \notin Printed
  BY <1>1, <1>2, <1>4, ReadableIs DEF Held, Shows
<1> QED BY <1>3, <1>4

LEMMA HeldNext ==
  ASSUME NEW h \in Histories
  PROVE  Held(h)' = IF h \in Printed THEN {} ELSE Elems(log'[h]["trades"])
<1>1. ~ (h \in Memory /\ h \in Printed)
  BY HistoriesAssumption
<1> QED BY <1>1, ElemsEmpty DEF Held, Shows, Readable, ReadableInMemory, ReadableOnStdout

\* A feed makes a history show an item, when it is a trade and not printed.
LEMMA HeldAfterFeed ==
  ASSUME Typed, NEW thread \in Threads, NEW h \in Histories, NEW kind \in Kinds, NEW x \in Records,
         FeedItem(thread, h, kind, x), NEW g \in Histories
  PROVE  /\ ~ (g = h /\ kind = "trades" /\ h \notin Printed) =>
              log'[g]["trades"] = log[g]["trades"] /\ Held(g)' = Held(g) /\ Twice(g)' = Twice(g)
         /\ g = h /\ kind = "trades" /\ h \notin Printed =>
              /\ Held(g)' = Held(g) \union {Found(h, kind, x)} /\ Twice(g) \subseteq Twice(g)'
         /\ Straight(g)' <=> Straight(g)
         /\ g = h /\ kind = "trades" /\ Straight(g) => Found(h, kind, x) = x
<1>1. "trades" \in Kinds /\ Filed(log) /\ Filed(log') /\ Rests
  BY KindsAre, FeedItemIs DEF Typed
<1>2. ASSUME ~ (g = h /\ kind = "trades" /\ h \notin Printed)
      PROVE  log'[g]["trades"] = log[g]["trades"] /\ Held(g)' = Held(g) /\ Twice(g)' = Twice(g)
  <2>1. log'[g]["trades"] = log[g]["trades"]
    BY <1>1, <1>2, FeedItemIs
  <2>2. Held(g)' = Held(g)
    <3>1. Held(g) = IF g \in Printed THEN {} ELSE Elems(log[g]["trades"])
      BY <1>1, HeldIs
    <3>2. Held(g)' = IF g \in Printed THEN {} ELSE Elems(log'[g]["trades"])
      BY HeldNext
    <3> QED BY <2>1, <3>1, <3>2
  <2> QED BY <2>1, <2>2 DEF Twice
<1>3. ASSUME g = h, kind = "trades", h \notin Printed
      PROVE  Held(g)' = Held(g) \union {Found(h, kind, x)} /\ Twice(g) \subseteq Twice(g)'
  <2>1. PICK s : s = log[g]["trades"]
    OBVIOUS
  <2>2. s \in Seq(Records)
    BY <1>1, <2>1, HeldIs
  <2>3. PICK y \in Records : y = Found(h, kind, x)
    BY <1>1, FoundIs
  <2>4. log'[g]["trades"] = Append(s, y)
    <3>1. log'[h][kind] = IF h \in Printed THEN log[h][kind] ELSE Append(log[h][kind], Found(h, kind, x))
      BY FeedItemIs
    <3> QED BY <1>3, <2>1, <2>3, <3>1
  <2>5. Held(g)' = Held(g) \union {y}
    <3>1. Held(g) = Elems(s)
      BY <1>1, <1>3, <2>1, HeldIs
    <3>2. Held(g)' = Elems(Append(s, y))
      BY <1>3, <2>4, HeldNext
    <3> QED BY <2>2, <3>1, <3>2, ElemsAppend
  <2>6. \A z : Times(s, z) > 1 => Times(Append(s, y), z) > 1
    <3>1. TAKE z
    <3>2. Times(s, z) \in Nat /\ (Times(Append(s, y), z) = Times(s, z) \/ Times(Append(s, y), z) = Times(s, z) + 1)
      BY <2>2, TimesAppend
    <3> QED BY <3>2
  <2>7. Twice(g) \subseteq Twice(g)'
    BY <2>1, <2>4, <2>6 DEF Twice
  <2> QED BY <2>5, <2>7, <2>3
<1>4. Straight(g)' <=> Straight(g)
  BY <1>1, FeedItemIs DEF Straight
<1>5. g = h /\ kind = "trades" /\ Straight(g) => Found(h, kind, x) = x
  BY <1>1, FoundIs DEF Straight
<1> QED BY <1>2, <1>3, <1>4, <1>5

LEMMA SourceFeedsStands ==
  ASSUME Typed, Exchange, NEW h \in Live, SourceFeeds(h)
  PROVE  Exchange'
<1> SUFFICES ASSUME sync'.kind = "trades" PROVE Exchange'
  BY DEF Exchange
<1>1. sync' = sync /\ shown' = shown
  BY DEF SourceFeeds
<1>2. sync \in Call /\ sync # Idle
  BY <1>1, IdleIsNoCall DEF Typed, CallTyped
<1>3. PICK one \in Histories, two \in Histories : one = sync.one /\ two = sync.two
  BY <1>2 DEF Call
<1>4. h \in Histories
  BY SourceFeedsTyped
<1>5. PICK kind \in Kinds, x \in Records : kind = source.kind /\ x = source.item
  BY SourceFeedsTyped
<1>6. "source" \in Threads /\ FeedItem("source", h, kind, x)
  BY <1>5 DEF Threads, SourceFeeds
<1>7. since' = IF kind = "trades" /\ h \in {one, two} THEN since \union {Found(h, kind, x)} ELSE since
  BY <1>1, <1>2, <1>3, <1>5 DEF SourceFeeds
<1>8. ASSUME NEW g \in {one, two}
      PROVE  /\ Held(g) \subseteq Held(g)' /\ Held(g)' \subseteq Held(g) \union since'
             /\ Twice(g) \subseteq Twice(g)' /\ (Straight(g)' <=> Straight(g))
  <2>1. Straight(g)' <=> Straight(g)
    BY <1>4, <1>6, <1>8, HeldAfterFeed
  <2>2. CASE g = h /\ kind = "trades" /\ h \notin Printed
    <3>1. Held(g)' = Held(g) \union {Found(h, kind, x)} /\ Twice(g) \subseteq Twice(g)'
      BY <1>4, <1>6, <1>8, <2>2, HeldAfterFeed
    <3> QED BY <1>7, <1>8, <2>1, <2>2, <3>1
  <2>3. CASE ~ (g = h /\ kind = "trades" /\ h \notin Printed)
    <3>1. Held(g)' = Held(g) /\ Twice(g)' = Twice(g)
      BY <1>4, <1>6, <1>8, <2>3, HeldAfterFeed
    <3> QED BY <2>1, <3>1
  <2> QED BY <2>2, <2>3
<1>9. since \subseteq since'
  BY <1>7
<1>10. Stands(sync, Held(one), Held(two), Straight(one), Straight(two), Twice(two), shown, since)
  BY <1>1, <1>3 DEF Exchange
<1>11. PICK V1, V2, T, W1, W2, U, fed, fed_ :
         /\ V1 = Held(one) /\ V2 = Held(two) /\ T = Twice(two) /\ fed = since
         /\ W1 = Held(one)' /\ W2 = Held(two)' /\ U = Twice(two)' /\ fed_ = since'
  OBVIOUS
<1>12. PICK s1, s2 : s1 = Straight(one) /\ s2 = Straight(two) /\ (Straight(one)' = s1) /\ (Straight(two)' = s2)
  BY <1>8 DEF Straight
<1>13. Stands(sync, V1, V2, s1, s2, T, shown, fed)
  BY <1>10, <1>11, <1>12
<1>14. Stands(sync, W1, W2, s1, s2, U, shown, fed_)
  BY <1>8, <1>9, <1>11, <1>13, StandsGrows
<1>15. Stands(sync', Held(one)', Held(two)', Straight(one)', Straight(two)', Twice(two)', shown', since')
  BY <1>1, <1>11, <1>12, <1>14
<1> QED BY <1>1, <1>3, <1>15 DEF Exchange, Held, Straight, Twice

LEMMA PushPullStands ==
  ASSUME Typed, Exchange, NEW x, Push(x) \/ Pull(x)
  PROVE  Exchange'
<1> SUFFICES ASSUME sync'.kind = "trades" PROVE Exchange'
  BY DEF Exchange
<1>1. /\ sync \in Call /\ sync' \in Call /\ sync.pc = "exchange" /\ sync'.pc = "exchange"
      /\ sync.kind = "trades" /\ sync'.one = sync.one /\ sync'.two = sync.two
      /\ x \in Records /\ sync.one # sync.two
  <2>1. sync.one # sync.two
    BY DEF Push, Pull, Exchanging, Typed, CallTyped
  <2> QED BY <2>1, ExchangeTyped
<1>2. PICK one \in Histories, two \in Histories : one = sync.one /\ two = sync.two /\ one # two
  BY <1>1 DEF Call
<1>3. "trades" \in Kinds /\ "main" \in Threads
  BY KindsAre DEF Threads
<1>4. shown' = shown /\ since' = since
  BY DEF Push, Pull, ghosts
<1>5. Stands(sync, Held(one), Held(two), Straight(one), Straight(two), Twice(two), shown, since)
  BY <1>1, <1>2 DEF Exchange
<1>6. PICK c, d, V1, V2, T, W1, W2, U :
         /\ c = sync /\ d = sync'
         /\ V1 = Held(one) /\ V2 = Held(two) /\ T = Twice(two)
         /\ W1 = Held(one)' /\ W2 = Held(two)' /\ U = Twice(two)'
  OBVIOUS
<1>7. PICK to \in {one, two} : FeedItem("main", to, "trades", x)
  BY <1>1, <1>2, ExchangeTyped
<1>8. PICK s1, s2 : s1 = Straight(one) /\ s2 = Straight(two) /\ (Straight(one)' = s1) /\ (Straight(two)' = s2)
  BY <1>1, <1>3, <1>7, HeldAfterFeed DEF Straight
<1>9. Stands(c, V1, V2, s1, s2, T, shown, since)
  BY <1>5, <1>6, <1>8
<1>10. CASE Push(x)
  <2>1. FeedItem("main", two, "trades", x)
    BY <1>1, <1>2, <1>10, ExchangeTyped
  <2>2. W1 = V1
    BY <1>1, <1>2, <1>3, <1>6, <2>1, HeldAfterFeed
  <2>3. s2 => W2 = V2 \union {x}
    <3>1. Straight(two) => Held(two)' = Held(two) \union {Found(two, "trades", x)} /\ Found(two, "trades", x) = x
      BY <1>1, <1>3, <2>1, HeldAfterFeed DEF Straight
    <3> QED BY <1>6, <1>8, <3>1
  <2>4. T \subseteq U
    BY <1>1, <1>2, <1>3, <1>6, <2>1, HeldAfterFeed
  <2>5. x \in c.push /\ d.push = c.push \ {x} /\ d.pull = c.pull
    BY <1>6, <1>10, ExchangeTyped
  <2>6. Stands(d, V1, W2, s1, s2, U, shown, since)
    BY <1>1, <1>6, <1>9, <2>3, <2>4, <2>5, StandsPush
  <2>7. Stands(sync', Held(one)', Held(two)', Straight(one)', Straight(two)', Twice(two)', shown', since')
    BY <1>4, <1>6, <1>8, <2>2, <2>6
  <2> QED BY <1>1, <1>2, <2>7 DEF Exchange, Held, Straight, Twice
<1>11. CASE Pull(x)
  <2>1. FeedItem("main", one, "trades", x)
    BY <1>1, <1>2, <1>11, ExchangeTyped
  <2>2. W2 = V2 /\ U = T
    BY <1>1, <1>2, <1>3, <1>6, <2>1, HeldAfterFeed
  <2>3. s1 => W1 = V1 \union {x}
    <3>1. Straight(one) => Held(one)' = Held(one) \union {Found(one, "trades", x)} /\ Found(one, "trades", x) = x
      BY <1>1, <1>3, <2>1, HeldAfterFeed DEF Straight
    <3> QED BY <1>6, <1>8, <3>1
  <2>4. x \in c.pull /\ d.pull = c.pull \ {x} /\ d.push = c.push
    BY <1>6, <1>11, ExchangeTyped
  <2>5. Stands(d, W1, V2, s1, s2, T, shown, since)
    BY <1>1, <1>6, <1>9, <2>3, <2>4, StandsPull
  <2>6. Stands(sync', Held(one)', Held(two)', Straight(one)', Straight(two)', Twice(two)', shown', since')
    BY <1>4, <1>6, <1>8, <2>2, <2>5
  <2> QED BY <1>1, <1>2, <2>6 DEF Exchange, Held, Straight, Twice
<1> QED BY <1>10, <1>11

LEMMA HeldSame ==
  ASSUME NEW h, log' = log, rest' = rest
  PROVE  Held(h)' = Held(h) /\ Twice(h)' = Twice(h) /\ Straight(h)' = Straight(h)
  BY DEF Held, Shows, Readable, ReadableInMemory, ReadableOnStdout, Twice, Straight

LEMMA ReadsStand ==
  ASSUME Typed, Exchange, ReadFirst \/ ReadSecond
  PROVE  Exchange'
<1> SUFFICES ASSUME sync'.kind = "trades" PROVE Exchange'
  BY DEF Exchange
<1>1. /\ sync \in Call /\ sync' \in Call /\ sync.kind = "trades"
      /\ sync'.one = sync.one /\ sync'.two = sync.two
  BY ReadsTyped
<1>2. PICK one \in Histories, two \in Histories : one = sync.one /\ two = sync.two
  BY <1>1 DEF Call
<1>3. log' = log /\ rest' = rest /\ shown' = shown /\ since' = since
  BY DEF ReadFirst, ReadSecond, logs, ghosts
<1>4. PICK c, d, V1, V2, s1, s2, T :
        /\ c = sync /\ d = sync' /\ V1 = Held(one) /\ V2 = Held(two) /\ T = Twice(two)
        /\ s1 = Straight(one) /\ s2 = Straight(two)
  OBVIOUS
<1>5. Stands(c, V1, V2, s1, s2, T, shown, since)
  BY <1>1, <1>2, <1>4 DEF Exchange
<1>6. Stands(d, V1, V2, s1, s2, T, shown, since)
  <2>1. CASE ReadFirst
    <3>1. c.pc = "first" /\ d.pc = "second" /\ d.first = Readable(one, "trades")
      BY <1>1, <1>2, <1>4, <2>1, ReadsTyped DEF ReadFirst
    <3>2. Elems(d.first) = V1
      BY <1>4, <3>1, HeldIs DEF Typed
    <3> QED BY <1>5, <3>1, <3>2 DEF Stands
  <2>2. CASE ReadSecond
    <3>1. PICK r1, r2 : r1 = sync.first /\ r2 = Readable(two, "trades")
      OBVIOUS
    <3>2. /\ c.pc = "second" /\ d.pc = "exchange" /\ r1 = c.first
          /\ d.push = Specific1("trades", r1, r2) /\ d.pull = Specific2("trades", r1, r2)
      BY <1>1, <1>2, <1>4, <2>2, <3>1, ReadsTyped DEF ReadSecond
    <3>3. r1 \in Seq(Records)
      BY <1>1, <3>1 DEF Call
    <3>4. r2 \in Seq(Records) /\ V2 = Elems(r2)
      BY <1>4, <3>1, HeldIs DEF Typed
    <3>5. \A x \in V2 : Times(r2, x) > 1 => x \in T
      <4>1. CASE two \in Printed
        BY <1>4, <4>1, HeldIs DEF Typed
      <4>2. CASE two \notin Printed
        <5>1. r2 = log[two]["trades"]
          BY <3>1, <4>2, HeldIs DEF Typed
        <5>2. V2 \subseteq Records
          BY <3>4, ElemsIn
        <5> QED BY <1>4, <5>1, <5>2 DEF Twice
      <4> QED BY <4>1, <4>2
    <3> QED BY <1>5, <3>2, <3>3, <3>4, <3>5, StandsCompare
  <2> QED BY <2>1, <2>2
<1>7. Stands(sync', Held(one)', Held(two)', Straight(one)', Straight(two)', Twice(two)', shown', since')
  BY <1>3, <1>4, <1>6, HeldSame
<1> QED BY <1>1, <1>2, <1>7 DEF Exchange, Held, Straight, Twice

LEMMA ExchangeHeld == Exchange /\ UNCHANGED <<logs, sync, shown, since>> => Exchange'
<1> SUFFICES ASSUME Exchange, UNCHANGED <<logs, sync, shown, since>>, sync'.kind = "trades" PROVE Exchange'
  BY DEF Exchange
<1>1. \A h : Held(h)' = Held(h) /\ Twice(h)' = Twice(h) /\ Straight(h)' = Straight(h)
  BY HeldSame DEF logs
<1>2. PICK one, two : one = sync.one /\ two = sync.two
  OBVIOUS
<1>3. Stands(sync, Held(one), Held(two), Straight(one), Straight(two), Twice(two), shown, since)
  BY <1>2 DEF Exchange
<1>4. Stands(sync', Held(one)', Held(two)', Straight(one)', Straight(two)', Twice(two)', shown', since')
  BY <1>1, <1>3
<1> QED BY <1>2, <1>4 DEF Exchange, Held, Straight, Twice

LEMMA BeginStands ==
  ASSUME Typed, NEW one \in Histories, NEW two \in Histories, one # two, BeginSync(one, two)
  PROVE  Exchange'
<1>1. PICK c : c = Stage(one, two, "trades")
  OBVIOUS
<1>2. c.pc = "first" /\ c.one = one /\ c.two = two
  BY <1>1, KindsAre, StageTyped
<1>3. /\ sync' = c /\ log' = log /\ rest' = rest /\ since' = {}
      /\ shown' = Held(one) \union Held(two)
  BY <1>1 DEF BeginSync, BeginStage, logs, Held, Shows
<1>4. Held(one)' = Held(one) /\ Held(two)' = Held(two)
  BY <1>3, HeldSame
<1>5. Stands(sync', Held(one)', Held(two)', Straight(one)', Straight(two)', Twice(two)', shown', since')
  BY <1>2, <1>3, <1>4 DEF Stands
<1> QED BY <1>2, <1>3, <1>5 DEF Exchange, Held, Straight, Twice

\* What fails on either thread ends the call under way.
Fails ==
  \/ Throw \/ CommitThrows \/ Crash
  \/ \E h, kind, x : ThrowHalfway(h, kind, x)
  \/ \E h : DieHalfway(h)

LEMMA GivenUp ==
  ASSUME Fails
  PROVE  sync' = Idle /\ failures' = failures + 1
  BY DEF Fails, Throw, ThrowHalfway, CommitThrows, Crash, DieHalfway, Thrown, Dies

LEMMA Failing ==
  /\ Throw \/ CommitThrows \/ Crash => Fails
  /\ \A h, kind, x : ThrowHalfway(h, kind, x) => Fails
  /\ \A h : DieHalfway(h) => Fails
  BY DEF Fails

LEMMA StepStands == Typed /\ Exchange /\ [Next]_vars => Exchange'
<1> SUFFICES ASSUME Typed, Exchange, [Next]_vars PROVE Exchange'
  OBVIOUS
<1>1. ASSUME sync' = Idle PROVE Exchange'
  <2>1. sync'.kind # "trades"
    BY <1>1, IdleIsNoCall
  <2> QED BY <2>1 DEF Exchange
<1>2. ASSUME NEW h, NEW kind, NEW x, Feed(h, kind, x) PROVE Exchange'
  BY <1>1, <1>2 DEF Feed
<1>3. ASSUME NEW thread, Index(thread) PROVE Exchange'
  BY <1>3, ExchangeHeld DEF Index, ghosts
<1>4. ASSUME NEW kind, NEW x, Announce(kind, x) PROVE Exchange'
  BY <1>4, ExchangeHeld DEF Announce, ghosts
<1>5. ASSUME NEW h \in Live, SourceFeeds(h) PROVE Exchange'
  BY <1>5, SourceFeedsStands
<1>6. ASSUME NEW one \in Histories, NEW two \in Histories, one # two, BeginSync(one, two) PROVE Exchange'
  BY <1>6, BeginStands
<1>7. ASSUME ReadFirst \/ ReadSecond PROVE Exchange'
  BY <1>7, ReadsStand
<1>8. ASSUME NEW x, Push(x) \/ Pull(x) PROVE Exchange'
  BY <1>8, PushPullStands
<1>9. ASSUME NextStage PROVE Exchange'
  BY <1>9, NextStageTyped DEF Exchange
<1>10. ASSUME Fails PROVE Exchange'
  BY <1>1, <1>10, GivenUp
<1>11. CASE Finished \/ UNCHANGED vars
  BY <1>11, ExchangeHeld DEF Finished, vars, ghosts
<1> QED BY <1>2, <1>3, <1>4, <1>5, <1>6, <1>7, <1>8, <1>9, <1>10, <1>11, Failing DEF Next

LEMMA ExchangeHolds == Spec => [](Typed /\ Exchange)
<1>1. Init => Exchange
  <2>1. Init => sync.kind # "trades"
    BY IdleIsNoCall DEF Init
  <2> QED BY <2>1 DEF Exchange
<1> QED BY <1>1, InitTyped, StepTyped, StepStands, PTL DEF Spec

(* When the trades of two histories that can be read have been exchanged,     *)
(* each of them shows what either showed when the exchange began, and nothing *)
(* else but what a source fed them meanwhile, for any histories, duplicates   *)
(* and earlier failures, if no append has left half a record at its end       *)
(* (History.hpp, lines 157-183).                                              *)
THEOREM TheTradesConverge == Spec => TradesConverge
<1> DEFINE Wanted ==
      Completes("trades") /\ {sync.one, sync.two} \intersect Printed = {} =>
        \A h \in {sync.one, sync.two} : rest[h].trades = Nothing =>
          /\ shown \subseteq Shows(h, "trades")
          /\ Shows(h, "trades") \subseteq shown \union since
<1>1. Typed /\ Exchange /\ [Next]_vars => [Wanted]_vars
  <2> SUFFICES ASSUME Typed, Exchange, Next, Completes("trades"),
                      {sync.one, sync.two} \intersect Printed = {},
                      NEW h \in {sync.one, sync.two}, rest[h]["trades"] = Nothing
               PROVE  /\ shown \subseteq Shows(h, "trades")
                      /\ Shows(h, "trades") \subseteq shown \union since
    OBVIOUS
  <2>1. sync.kind = "trades" /\ sync'.kind # "trades" /\ failures' = failures
    BY DEF Completes
  <2>2. sync # Idle /\ sync' # sync
    BY <2>1, IdleIsNoCall
  <2>3. NextStage
    <3>1. ASSUME ReadFirst \/ ReadSecond PROVE FALSE
      BY <2>1, <3>1, ReadsTyped
    <3>2. ASSUME NEW x, Push(x) \/ Pull(x) PROVE FALSE
      BY <2>1, <3>2, ExchangeTyped
    <3>3. ASSUME Fails PROVE FALSE
      <4>1. failures \in Nat
        BY DEF Typed
      <4> QED BY <2>1, <3>3, <4>1, GivenUp
    <3>4. ASSUME NEW one, NEW two, BeginSync(one, two) PROVE FALSE
      BY <2>2, <3>4 DEF BeginSync
    <3>5. ASSUME NEW g, NEW kind, NEW x, Feed(g, kind, x) PROVE FALSE
      BY <2>2, <3>5 DEF Feed
    <3>6. ASSUME sync' = sync PROVE FALSE
      BY <2>2, <3>6
    <3>7. ASSUME NEW thread, Index(thread) PROVE FALSE
      BY <3>6, <3>7 DEF Index
    <3>8. ASSUME NEW kind, NEW x, Announce(kind, x) PROVE FALSE
      BY <3>6, <3>8 DEF Announce
    <3>9. ASSUME NEW g, SourceFeeds(g) PROVE FALSE
      BY <3>6, <3>9 DEF SourceFeeds
    <3>10. ASSUME Finished PROVE FALSE
      BY <3>6, <3>10 DEF Finished, vars
    <3> QED BY <3>1, <3>2, <3>3, <3>4, <3>5, <3>7, <3>8, <3>9, <3>10, Failing DEF Next
  <2>4. sync.pc = "exchange" /\ sync.push = {} /\ sync.pull = {}
    BY <2>3 DEF NextStage, Exchanging
  <2>5. PICK one, two : one = sync.one /\ two = sync.two
    OBVIOUS
  <2>6. Stands(sync, Held(one), Held(two), Straight(one), Straight(two), Twice(two), shown, since)
    BY <2>1, <2>5 DEF Exchange
  <2>7. Straight(h) /\ (h = one \/ h = two)
    BY <2>5 DEF Straight
  <2>8. shown \subseteq Held(h) /\ Held(h) \subseteq shown \union since
    <3>1. CASE h = one
      BY <2>4, <2>6, <2>7, <3>1 DEF Stands
    <3>2. CASE h = two
      BY <2>4, <2>6, <2>7, <3>2 DEF Stands
    <3> QED BY <2>7, <3>1, <3>2
  <2> QED BY <2>8 DEF Held
<1> QED BY <1>1, ExchangeHolds, PTL DEF Spec, TradesConverge

(* synchronize_with only feeds a history a trade it does not show, unless the *)
(* other one holds it twice, a source has just fed it (line 171) or an append *)
(* has left half a record, for any histories, duplicates and earlier          *)
(* failures.                                                                  *)
THEOREM MissingTradesMove == Spec => OnlyMissingMoves
<1> DEFINE Wanted ==
      sync.kind = "trades" /\ sync'.kind = "trades" =>
        \A h \in Histories, x \in (sync.push \ sync'.push) \union (sync.pull \ sync'.pull) :
          log'[h].trades # log[h].trades
            => \/ Times(Readable(h, "trades"), x) = 0
               \/ Times(log[sync.two].trades, x) > 1
               \/ x \in since
               \/ rest[h].trades # Nothing
<1>1. Typed /\ Exchange /\ [Next]_vars => [Wanted]_vars
  <2> SUFFICES ASSUME Typed, Exchange, Next, sync.kind = "trades", sync'.kind = "trades",
                      NEW h \in Histories,
                      NEW x \in (sync.push \ sync'.push) \union (sync.pull \ sync'.pull),
                      log'[h]["trades"] # log[h]["trades"], rest[h]["trades"] = Nothing
               PROVE  \/ Times(Readable(h, "trades"), x) = 0
                      \/ Times(log[sync.two]["trades"], x) > 1
                      \/ x \in since
    OBVIOUS
  <2>1. sync # Idle /\ sync' # Idle
    BY IdleIsNoCall
  <2>2. sync' # sync
    OBVIOUS
  <2>3. PICK y : Push(y) \/ Pull(y)
    <3>1. ASSUME log' = log PROVE FALSE
      BY <3>1
    <3>2. ASSUME ReadFirst \/ ReadSecond \/ NextStage PROVE FALSE
      BY <3>1, <3>2 DEF ReadFirst, ReadSecond, NextStage, logs
    <3>3. ASSUME Fails PROVE FALSE
      BY <2>1, <3>3, GivenUp
    <3>4. ASSUME NEW one, NEW two, BeginSync(one, two) PROVE FALSE
      BY <2>1, <3>4 DEF BeginSync
    <3>5. ASSUME NEW g, NEW kind, NEW z, Feed(g, kind, z) PROVE FALSE
      BY <2>1, <3>5 DEF Feed
    <3>6. ASSUME NEW thread, Index(thread) PROVE FALSE
      BY <2>2, <3>6 DEF Index
    <3>7. ASSUME NEW kind, NEW z, Announce(kind, z) PROVE FALSE
      BY <2>2, <3>7 DEF Announce
    <3>8. ASSUME NEW g, SourceFeeds(g) PROVE FALSE
      BY <2>2, <3>8 DEF SourceFeeds
    <3>9. ASSUME Finished PROVE FALSE
      BY <2>2, <3>9 DEF Finished, vars
    <3> QED BY <3>2, <3>3, <3>4, <3>5, <3>6, <3>7, <3>8, <3>9, Failing DEF Next
  <2>4. sync \in Call /\ sync.pc = "exchange" /\ y \in Records
    BY <2>3, ExchangeTyped
  <2>5. PICK one \in Histories, two \in Histories : one = sync.one /\ two = sync.two
    BY <2>4 DEF Call
  <2>6. PICK to \in {one, two} : /\ FeedItem("main", to, "trades", y)
                                 /\ to = two => y \in sync.push
                                 /\ to = one => y \in sync.pull
                                 /\ x = y
    <3>1. one # two
      BY <2>1, <2>5 DEF Typed, CallTyped
    <3>2. CASE Push(y)
      BY <2>5, <3>1, <3>2, ExchangeTyped
    <3>3. CASE Pull(y)
      BY <2>5, <3>1, <3>3, ExchangeTyped
    <3> QED BY <2>3, <3>2, <3>3
  <2>7. h = to /\ Straight(h)
    <3>1. "main" \in Threads /\ "trades" \in Kinds /\ to \in Histories
      BY <2>5, <2>6, KindsAre DEF Threads
    <3> QED BY <2>4, <2>6, <3>1, HeldAfterFeed DEF Straight
  <2>8. Stands(sync, Held(one), Held(two), Straight(one), Straight(two), Twice(two), shown, since)
    BY <2>5 DEF Exchange
  <2>9. x \notin Held(h) \/ x \in since \/ x \in Twice(two)
    <3>1. CASE h = two
      BY <2>4, <2>6, <2>7, <2>8, <3>1 DEF Stands
    <3>2. CASE h = one
      BY <2>4, <2>6, <2>7, <2>8, <3>2 DEF Stands
    <3> QED BY <2>6, <2>7, <3>1, <3>2
  <2>10. x \notin Held(h) => Times(Readable(h, "trades"), x) = 0
    BY TimesNone DEF Held, Shows
  <2> QED BY <2>5, <2>9, <2>10 DEF Twice
<1> QED BY <1>1, ExchangeHolds, PTL DEF Spec, OnlyMissingMoves

-----------------------------------------------------------------------------
(* The positions of a log that its index lacks.                              *)

Prefix(s, i, x) == {j \in 1 .. i : s[j] = x}
Holes(s, t) == {i \in DOMAIN s : Times(SubSeq(s, 1, i), s[i]) > Times(t, s[i])}

LEMMA MissingIs ==
  ASSUME NEW h, NEW kind
  PROVE  /\ Missing(h, kind) =
              IF <<h, kind>> \in damaged THEN {} ELSE Holes(log[h][kind], index[h][kind])
         /\ Missing(h, kind)' =
              IF <<h, kind>> \in damaged' THEN {} ELSE Holes(log'[h][kind], index'[h][kind])
  BY DEF Missing, Holes

LEMMA PrefixIs ==
  ASSUME NEW S, NEW s \in Seq(S), NEW i \in DOMAIN s, NEW x
  PROVE  /\ IsFiniteSet(Prefix(s, i, x)) /\ Cardinality(Prefix(s, i, x)) \in Nat
         /\ Times(SubSeq(s, 1, i), x) = Cardinality(Prefix(s, i, x))
<1>1. i \in Nat /\ i >= 1 /\ i <= Len(s) /\ Len(s) \in Nat /\ DOMAIN s = 1 .. Len(s)
  OBVIOUS
<1>2. \A j \in 1 .. i : s[j] \in S
  BY <1>1
<1>3. PICK p : p = SubSeq(s, 1, i)
  OBVIOUS
<1>4. p \in Seq(S) /\ Len(p) = i /\ \A j \in 1 .. i : p[j] = s[j]
  <2>1. /\ p \in Seq(S) /\ Len(p) = (IF 1 <= i THEN i - 1 + 1 ELSE 0)
        /\ \A j \in 1 .. (i - 1 + 1) : p[j] = s[1 + j - 1]
    BY <1>1, <1>2, <1>3, SubSeqProperties
  <2>2. i - 1 + 1 = i /\ \A j \in 1 .. i : 1 + j - 1 = j
    BY <1>1
  <2> QED BY <1>1, <2>1, <2>2
<1>5. DOMAIN p = 1 .. i
  BY <1>4
<1>6. {j \in DOMAIN p : p[j] = x} = Prefix(s, i, x)
  BY <1>4, <1>5 DEF Prefix
<1>7. IsFiniteSet(1 .. i)
  BY <1>1, FS_Interval
<1>8. IsFiniteSet(Prefix(s, i, x)) /\ Cardinality(Prefix(s, i, x)) \in Nat
  <2>1. Prefix(s, i, x) \in SUBSET (1 .. i)
    BY DEF Prefix
  <2> QED BY <1>7, <2>1, FS_Subset, FS_CardinalityType
<1> QED BY <1>3, <1>6, <1>8 DEF Times

LEMMA PrefixNext ==
  ASSUME NEW s, NEW i \in Nat, NEW x, IsFiniteSet(Prefix(s, i, x))
  PROVE  Cardinality(Prefix(s, i + 1, x)) =
           IF s[i + 1] = x THEN Cardinality(Prefix(s, i, x)) + 1 ELSE Cardinality(Prefix(s, i, x))
<1>1. i + 1 \notin 1 .. i /\ \A j : j \in 1 .. (i + 1) <=> j \in 1 .. i \/ j = i + 1
  OBVIOUS
<1>2. CASE s[i + 1] = x
  <2>1. Prefix(s, i + 1, x) = Prefix(s, i, x) \union {i + 1}
    BY <1>1, <1>2 DEF Prefix
  <2>2. i + 1 \notin Prefix(s, i, x)
    BY <1>1 DEF Prefix
  <2>3. Cardinality(Prefix(s, i, x) \union {i + 1}) = Cardinality(Prefix(s, i, x)) + 1
    BY <2>2, FS_AddElement
  <2> QED BY <1>2, <2>1, <2>3
<1>3. CASE s[i + 1] # x
  <2>1. Prefix(s, i + 1, x) = Prefix(s, i, x)
    BY <1>1, <1>3 DEF Prefix
  <2> QED BY <1>3, <2>1
<1> QED BY <1>2, <1>3

LEMMA HolesFinite ==
  ASSUME NEW S, NEW s \in Seq(S), NEW t
  PROVE  IsFiniteSet(Holes(s, t)) /\ Cardinality(Holes(s, t)) \in Nat
<1>1. IsFiniteSet(DOMAIN s)
  <2>1. DOMAIN s = 1 .. Len(s) /\ Len(s) \in Nat
    OBVIOUS
  <2> QED BY <2>1, FS_Interval
<1>2. Holes(s, t) \in SUBSET (DOMAIN s)
  BY DEF Holes
<1> QED BY <1>1, <1>2, FS_Subset, FS_CardinalityType

LEMMA HolesNone ==
  ASSUME NEW S, NEW s \in Seq(S)
  PROVE  Holes(s, s) = {}
<1> SUFFICES ASSUME NEW i \in DOMAIN s
             PROVE  ~ (Times(SubSeq(s, 1, i), s[i]) > Times(s, s[i]))
  BY DEF Holes
<1> DEFINE P == {j \in DOMAIN s : s[j] = s[i]}
<1>1. DOMAIN s = 1 .. Len(s) /\ Len(s) \in Nat /\ i \in Nat /\ i <= Len(s)
  OBVIOUS
<1>2. IsFiniteSet(P)
  <2>1. IsFiniteSet(DOMAIN s)
    BY <1>1, FS_Interval
  <2> QED BY <2>1, FS_Subset
<1>3. Prefix(s, i, s[i]) \in SUBSET P
  BY <1>1 DEF Prefix
<1>4. PICK m \in Nat, n \in Nat : m = Cardinality(Prefix(s, i, s[i])) /\ n = Cardinality(P) /\ m <= n
  <2>1. PICK Q : Q = Prefix(s, i, s[i])
    OBVIOUS
  <2>2. IsFiniteSet(Q) /\ Cardinality(Q) <= Cardinality(P)
    BY <1>2, <1>3, <2>1, FS_Subset
  <2>3. Cardinality(Q) \in Nat /\ Cardinality(P) \in Nat
    BY <1>2, <2>2, FS_CardinalityType
  <2> QED BY <2>1, <2>2, <2>3
<1>5. Times(SubSeq(s, 1, i), s[i]) = m
  BY <1>4, PrefixIs
<1>6. Times(s, s[i]) = n
  BY <1>4 DEF Times
<1> QED BY <1>4, <1>5, <1>6

\* An item appended to the log is the only one its index may miss more.
LEMMA HolesOfAppend ==
  ASSUME NEW S, NEW s \in Seq(S), NEW t, NEW x \in S
  PROVE  Cardinality(Holes(Append(s, x), t)) <= Cardinality(Holes(s, t)) + 1
<1>1. PICK a : a = Append(s, x)
  OBVIOUS
<1>2. /\ a \in Seq(S) /\ Len(s) \in Nat /\ DOMAIN s = 1 .. Len(s)
      /\ \A i \in DOMAIN s : a[i] = s[i] /\ i \in DOMAIN a
      /\ \A i \in DOMAIN a : i \in DOMAIN s \/ i = Len(s) + 1
  BY <1>1, AppendIs
<1>3. ASSUME NEW i \in DOMAIN s
      PROVE  Times(SubSeq(a, 1, i), a[i]) = Times(SubSeq(s, 1, i), s[i])
  <2>1. Prefix(a, i, a[i]) = Prefix(s, i, s[i])
    <3>1. \A j \in 1 .. i : j \in DOMAIN s
      BY <1>2
    <3> QED BY <1>2, <3>1 DEF Prefix
  <2>2. i \in DOMAIN a
    BY <1>2
  <2>3. Times(SubSeq(a, 1, i), a[i]) = Cardinality(Prefix(a, i, a[i]))
    BY <1>2, <2>2, PrefixIs
  <2>4. Times(SubSeq(s, 1, i), s[i]) = Cardinality(Prefix(s, i, s[i]))
    BY PrefixIs
  <2> QED BY <2>1, <2>3, <2>4
<1>4. PICK H : H = Holes(s, t)
  OBVIOUS
<1>5. Holes(a, t) \in SUBSET (H \union {Len(s) + 1})
  BY <1>2, <1>3, <1>4 DEF Holes
<1>6. IsFiniteSet(H) /\ Cardinality(H) \in Nat
  BY <1>4, HolesFinite
<1>7. IsFiniteSet(H \union {Len(s) + 1}) /\ Cardinality(H \union {Len(s) + 1}) <= Cardinality(H) + 1
  <2>1. PICK e : e = Len(s) + 1
    OBVIOUS
  <2>2. /\ IsFiniteSet(H \union {e})
        /\ Cardinality(H \union {e}) = IF e \in H THEN Cardinality(H) ELSE Cardinality(H) + 1
    BY <1>6, FS_AddElement
  <2> QED BY <1>6, <2>1, <2>2
<1>8. Cardinality(Holes(a, t)) <= Cardinality(H \union {Len(s) + 1})
  BY <1>5, <1>7, FS_Subset
<1>9. PICK m \in Nat, n \in Nat, k \in Nat :
        m = Cardinality(Holes(a, t)) /\ n = Cardinality(H \union {Len(s) + 1}) /\ k = Cardinality(H)
  BY <1>2, <1>6, <1>7, HolesFinite, FS_CardinalityType
<1>10. m <= k + 1
  BY <1>7, <1>8, <1>9
<1> QED BY <1>1, <1>4, <1>9, <1>10

\* An item indexed later is one the index lacked.
LEMMA HolesOfIndexed ==
  ASSUME NEW S, NEW s \in Seq(S), NEW t \in Seq(S), NEW x \in S, Times(t, x) < Times(s, x)
  PROVE  Cardinality(Holes(s, Append(t, x))) + 1 <= Cardinality(Holes(s, t))
<1>1. PICK n \in Nat : n = Times(t, x) /\ n + 1 = Times(Append(t, x), x)
  BY TimesAppend
<1>2. DOMAIN s = 1 .. Len(s) /\ Len(s) \in Nat
  OBVIOUS
<1>3. \A i \in DOMAIN s : /\ Cardinality(Prefix(s, i, x)) \in Nat /\ IsFiniteSet(Prefix(s, i, x))
                          /\ Times(SubSeq(s, 1, i), x) = Cardinality(Prefix(s, i, x))
  BY PrefixIs
<1>4. PICK i \in DOMAIN s : s[i] = x /\ Times(SubSeq(s, 1, i), x) = n + 1
  <2> DEFINE T == {i \in DOMAIN s : Cardinality(Prefix(s, i, x)) > n}
  <2>1. Times(s, x) = Cardinality(Prefix(s, Len(s), x))
    BY <1>2 DEF Times, Prefix
  <2>2. Len(s) # 0
    <3>1. SUFFICES ASSUME Len(s) = 0 PROVE FALSE
      OBVIOUS
    <3>2. Prefix(s, Len(s), x) = {}
      BY <3>1 DEF Prefix
    <3>3. Times(s, x) = 0
      BY <2>1, <3>2, FS_EmptySet
    <3> QED BY <1>1, <3>3
  <2>3. Len(s) \in T
    <3>1. Len(s) \in DOMAIN s
      BY <1>2, <2>2
    <3> QED BY <1>1, <2>1, <3>1
  <2>4. T \in SUBSET Nat
    BY <1>2
  <2>5. PICK i \in T : \A j \in T : i <= j
    BY <2>3, <2>4, LeastNatural
  <2>6. PICK k \in Nat : i = k + 1 /\ k < Len(s)
    <3>1. i \in Nat /\ i >= 1 /\ i <= Len(s)
      BY <1>2
    <3>2. i - 1 \in Nat /\ i = (i - 1) + 1 /\ i - 1 < Len(s)
      BY <1>2, <3>1
    <3> QED BY <3>2
  <2>7. IsFiniteSet(Prefix(s, k, x)) /\ Cardinality(Prefix(s, k, x)) \in Nat /\ Cardinality(Prefix(s, k, x)) <= n
    <3>1. CASE k = 0
      <4>1. Prefix(s, k, x) = {}
        BY <3>1 DEF Prefix
      <4> QED BY <4>1, FS_EmptySet
    <3>2. CASE k # 0
      <4>1. k \in DOMAIN s
        BY <1>2, <2>6, <3>2
      <4>2. k \notin T
        <5>1. ~ (i <= k)
          BY <2>6
        <5> QED BY <2>5, <5>1
      <4> QED BY <1>3, <4>1, <4>2
    <3> QED BY <3>1, <3>2
  <2>8. PICK m \in Nat : m = Cardinality(Prefix(s, k, x)) /\ m <= n
    BY <2>7
  <2>9. Cardinality(Prefix(s, i, x)) = IF s[i] = x THEN m + 1 ELSE m
    BY <2>6, <2>7, <2>8, PrefixNext
  <2>10. Cardinality(Prefix(s, i, x)) > n /\ i \in DOMAIN s
    OBVIOUS
  <2>11. s[i] = x /\ Cardinality(Prefix(s, i, x)) = n + 1
    BY <2>8, <2>9, <2>10
  <2>12. Times(SubSeq(s, 1, i), x) = n + 1
    BY <1>3, <2>10, <2>11
  <2> QED BY <2>10, <2>11, <2>12
<1>5. PICK H, G : H = Holes(s, t) /\ G = Holes(s, Append(t, x))
  OBVIOUS
<1>6. i \in H
  BY <1>1, <1>4, <1>5 DEF Holes
<1>7. i \notin G
  BY <1>1, <1>4, <1>5 DEF Holes
<1>8. ASSUME NEW k \in G
      PROVE  k \in H
  <2>1. k \in DOMAIN s /\ Times(SubSeq(s, 1, k), s[k]) > Times(Append(t, x), s[k])
    BY <1>5 DEF Holes
  <2>2. PICK p \in Nat, q \in Nat :
          p = Times(SubSeq(s, 1, k), s[k]) /\ q = Times(t, s[k])
    BY <2>1, PrefixIs, TimesAppend
  <2>3. Times(Append(t, x), s[k]) = q \/ Times(Append(t, x), s[k]) = q + 1
    BY <2>2, TimesAppend
  <2>4. p > q
    BY <2>1, <2>2, <2>3
  <2> QED BY <1>5, <2>1, <2>2, <2>4 DEF Holes
<1>9. IsFiniteSet(H) /\ IsFiniteSet(G)
  BY <1>5, HolesFinite
<1>10. G \in SUBSET (H \ {i})
  BY <1>7, <1>8
<1>11. PICK h \in Nat, g \in Nat : h = Cardinality(H) /\ g = Cardinality(G)
  BY <1>9, FS_CardinalityType
<1>12. IsFiniteSet(H \ {i}) /\ Cardinality(H \ {i}) = h - 1
  BY <1>6, <1>9, <1>11, FS_RemoveElement
<1>13. g <= h - 1
  BY <1>10, <1>11, <1>12, FS_Subset
<1>14. g + 1 <= h
  BY <1>13
<1> QED BY <1>5, <1>11, <1>14

-----------------------------------------------------------------------------
(* What the indexes of the databases lack.                                   *)

\* What a thread has appended to a history, where no append failed, and not indexed.
Owes(thread, h) ==
  IF half[thread] # NoHalf /\ half[thread].of = h /\ <<h, half[thread].kind>> \notin damaged THEN 1 ELSE 0
OwesItem(thread, h, kind, x) ==
  IF half[thread] # NoHalf /\ half[thread].of = h /\ half[thread].kind = kind /\ half[thread].item = x
  THEN 1 ELSE 0
Lacks(h) == Cardinality(Missing(h, "trades")) + Cardinality(Missing(h, "decisions"))

Backlog ==
  /\ \A h \in Histories \ Databases, kind \in Indexed : index[h][kind] = log[h][kind]
  /\ \A h \in Databases, kind \in Indexed, x \in Records : <<h, kind>> \notin damaged =>
       Times(index[h][kind], x) + OwesItem("main", h, kind, x) + OwesItem("source", h, kind, x)
         <= Times(log[h][kind], x)
  /\ \A h \in Databases : Lacks(h) <= 2 * failures + Owes("main", h) + Owes("source", h)

LEMMA ThreadsAre == Threads = {"main", "source"} /\ "main" \in Threads /\ "source" \in Threads /\ "main" # "source"
  BY DEF Threads

LEMMA DatabasesAre == Databases \subseteq Histories /\ \A h \in Databases : h \notin Memory /\ h \notin Printed
  BY DEF Databases

LEMMA IndexedAre == Indexed \subseteq Kinds /\ Indexed = {"trades", "decisions"}
  BY KindsAre DEF Indexed

LEMMA FiledIn ==
  ASSUME NEW l, Filed(l), NEW h \in Histories, NEW kind \in Kinds
  PROVE  l[h][kind] \in Seq(Records) /\ \A x : Times(l[h][kind], x) \in Nat
<1>1. l[h][kind] \in Seq(Records)
  BY DEF Filed
<1>2. ASSUME NEW x PROVE Times(l[h][kind], x) \in Nat
  <2>1. PICK s : s = l[h][kind]
    OBVIOUS
  <2>2. CASE s = <<>>
    <3>1. x \notin Elems(s)
      BY <2>2, ElemsEmpty
    <3> QED BY <2>1, <3>1, TimesNone
  <2>3. CASE s # <<>>
    <3>1. s[1] \in Records
      BY <1>1, <2>1, <2>3
    <3> QED BY <1>1, <2>1, <3>1, TimesAppend
  <2> QED BY <2>2, <2>3
<1> QED BY <1>1, <1>2

LEMMA MissingNumber ==
  ASSUME Filed(log), NEW h \in Histories, NEW kind \in Kinds
  PROVE  Cardinality(Missing(h, kind)) \in Nat
<1>1. log[h][kind] \in Seq(Records)
  BY FiledIn
<1>2. CASE <<h, kind>> \in damaged
  <2>1. Missing(h, kind) = {}
    BY <1>2, MissingIs
  <2> QED BY <2>1, FS_EmptySet
<1>3. CASE <<h, kind>> \notin damaged
  <2>1. Missing(h, kind) = Holes(log[h][kind], index[h][kind])
    BY <1>3, MissingIs
  <2> QED BY <1>1, <2>1, HolesFinite
<1> QED BY <1>2, <1>3

LEMMA MissingNext ==
  ASSUME Filed(log'), NEW h \in Histories, NEW kind \in Kinds
  PROVE  Cardinality(Missing(h, kind)') \in Nat
<1>1. log'[h][kind] \in Seq(Records)
  BY FiledIn
<1>2. CASE <<h, kind>> \in damaged'
  BY <1>2, MissingIs, FS_EmptySet
<1>3. CASE <<h, kind>> \notin damaged'
  BY <1>1, <1>3, MissingIs, HolesFinite
<1> QED BY <1>2, <1>3

LEMMA BacklogHeld ==
  ASSUME Typed, Backlog, UNCHANGED <<logs, index, half, failures>>
  PROVE  Backlog'
<1>1. UNCHANGED <<log, rest, damaged>>
  BY DEF logs
<1>2. \A h : Lacks(h)' = Lacks(h)
  BY <1>1 DEF Lacks, Missing
<1>3. \A h, thread : Owes(thread, h)' = Owes(thread, h)
  BY <1>1 DEF Owes
<1>4. \A h, thread, kind, x : OwesItem(thread, h, kind, x)' = OwesItem(thread, h, kind, x)
  BY DEF OwesItem
<1> QED BY <1>1, <1>2, <1>3, <1>4 DEF Backlog

(* The logs in which no append has failed and their indexes stay as they are, *)
(* and no thread owes them more.                                              *)
LEMMA LessOwed ==
  ASSUME Typed, Backlog, damaged \subseteq damaged',
         failures' \in Nat, NEW f \in {0, 1}, failures' = failures + f,
         \A g \in Histories \ Databases, k \in Indexed : index'[g][k] = log'[g][k],
         \A g \in Databases, k \in Indexed :
           <<g, k>> \notin damaged' => log'[g][k] = log[g][k] /\ index'[g][k] = index[g][k],
         \A t \in Threads, g \in Databases, k \in Indexed, y \in Records :
           <<g, k>> \notin damaged' => OwesItem(t, g, k, y)' \in {0, OwesItem(t, g, k, y)},
         \A t \in Threads, g \in Databases : Owes(t, g)' = Owes(t, g) \/ f = 1
  PROVE  Backlog'
<1>1. ASSUME NEW g \in Databases, NEW k \in Indexed, NEW y \in Records, <<g, k>> \notin damaged'
      PROVE  Times(index'[g][k], y) + OwesItem("main", g, k, y)' + OwesItem("source", g, k, y)'
               <= Times(log'[g][k], y)
  <2>1. PICK m \in Nat, n \in Nat, p \in Nat, q \in Nat :
          /\ m = Times(index[g][k], y) /\ n = Times(log[g][k], y)
          /\ p = OwesItem("main", g, k, y) /\ q = OwesItem("source", g, k, y)
    <3>1. OwesItem("main", g, k, y) \in Nat /\ OwesItem("source", g, k, y) \in Nat
      BY DEF OwesItem
    <3> QED BY <3>1, DatabasesAre, IndexedAre, FiledIn DEF Typed
  <2>2. m + p + q <= n
    BY <1>1, <2>1 DEF Backlog
  <2>3. PICK p_ \in {0, p}, q_ \in {0, q} : p_ = OwesItem("main", g, k, y)' /\ q_ = OwesItem("source", g, k, y)'
    BY <1>1, <2>1, ThreadsAre
  <2>4. Times(index'[g][k], y) = m /\ Times(log'[g][k], y) = n
    BY <1>1, <2>1
  <2>5. m + p_ + q_ <= n
    BY <2>2
  <2> QED BY <2>3, <2>4, <2>5
<1>2. ASSUME NEW g \in Databases
      PROVE  Lacks(g)' <= 2 * failures' + Owes("main", g)' + Owes("source", g)'
  <2>1. PICK a \in Nat, b \in Nat, e \in Nat :
          /\ a = Cardinality(Missing(g, "trades")) /\ b = Cardinality(Missing(g, "decisions"))
          /\ e = failures
    BY DatabasesAre, KindsAre, MissingNumber DEF Typed
  <2>2. \A k \in Indexed : Missing(g, k)' = Missing(g, k) \/ Missing(g, k)' = {}
    BY DEF Missing
  <2>3. PICK a_ \in {0, a}, b_ \in {0, b} :
          a_ = Cardinality(Missing(g, "trades")') /\ b_ = Cardinality(Missing(g, "decisions")')
    BY <2>1, <2>2, IndexedAre, FS_EmptySet
  <2>4. PICK p \in {0, 1}, q \in {0, 1}, p_ \in {0, 1}, q_ \in {0, 1} :
          /\ p = Owes("main", g) /\ q = Owes("source", g)
          /\ p_ = Owes("main", g)' /\ q_ = Owes("source", g)'
    BY DEF Owes
  <2>5. a + b <= 2 * e + p + q
    BY <2>1, <2>4 DEF Backlog, Lacks
  <2>6. f = 1 \/ (p_ = p /\ q_ = q)
    BY <2>4, ThreadsAre
  <2>7. a_ + b_ <= 2 * (e + f) + p_ + q_
    <3>1. a_ + b_ <= a + b
      OBVIOUS
    <3>2. CASE f = 1
      BY <2>5, <3>1, <3>2
    <3>3. CASE f = 0
      BY <2>5, <2>6, <3>1, <3>3
    <3> QED BY <3>2, <3>3
  <2>8. Lacks(g)' = a_ + b_
    BY <2>3 DEF Lacks
  <2> QED BY <2>1, <2>4, <2>7, <2>8
<1> QED BY <1>1, <1>2 DEF Backlog

LEMMA FeedBacklog ==
  ASSUME Typed, Backlog, NEW thread \in Threads, NEW h \in Histories, NEW kind \in Kinds,
         NEW x \in Records, FeedItem(thread, h, kind, x), failures' = failures
  PROVE  Backlog'
<1>1. Filed(log) /\ Filed(index) /\ Rests /\ half \in [Threads -> Half \union {NoHalf}]
  BY DEF Typed
<1>2. x \in Records /\ half[thread] = NoHalf /\ damaged' = damaged
  BY FeedItemIs
<1>3. \A g \in Histories, k \in Kinds : g # h \/ k # kind =>
        log'[g][k] = log[g][k] /\ index'[g][k] = index[g][k]
  BY FeedItemIs
<1>4. <<h, kind>> \notin damaged =>
        log'[h][kind] = IF h \in Printed THEN log[h][kind] ELSE Append(log[h][kind], x)
  <2>1. log'[h][kind] = IF h \in Printed THEN log[h][kind] ELSE Append(log[h][kind], Found(h, kind, x))
    BY FeedItemIs
  <2> QED BY <1>1, <2>1, FoundIs
<1>5. index'[h][kind] = IF h \in Memory /\ kind \in Indexed THEN Append(index[h][kind], x) ELSE index[h][kind]
  BY FeedItemIs
<1>6. ASSUME NEW g \in Histories \ Databases, NEW k \in Indexed
      PROVE  index'[g][k] = log'[g][k]
  <2>1. k \in Kinds /\ index[g][k] = log[g][k]
    BY IndexedAre DEF Backlog
  <2>2. CASE g = h /\ k = kind
    <3>1. (g \in Memory /\ g \notin Printed) \/ (g \in Printed /\ g \notin Memory)
      BY HistoriesAssumption DEF Databases
    <3>2. <<h, kind>> \notin damaged
      BY <1>1, <2>2 DEF Rests
    <3> QED BY <1>4, <1>5, <2>1, <2>2, <3>1, <3>2
  <2>3. CASE ~ (g = h /\ k = kind)
    BY <1>3, <2>1, <2>3
  <2> QED BY <2>2, <2>3
<1>7. CASE h \in Databases /\ kind \in Indexed /\ <<h, kind>> \notin damaged
  <2>1. PICK it : it = [kind |-> kind, of |-> h, item |-> x]
    OBVIOUS
  <2>2. it.kind = kind /\ it.of = h /\ it.item = x /\ it # NoHalf
    <3>1. it.kind = kind /\ it.of = h /\ it.item = x /\ kind # "none"
      BY <1>7, <2>1, IndexedAre
    <3>2. NoHalf.kind = "none"
      BY DEF NoHalf
    <3> QED BY <3>1, <3>2
  <2>3. half'[thread] = it /\ \A t \in Threads : t # thread => half'[t] = half[t]
    <3>1. half' = [half EXCEPT ![thread] = it]
      BY <1>7, <2>1, FeedItemIs
    <3> QED BY <1>1, <3>1
  <2>4. PICK other \in Threads : Threads = {thread, other} /\ other # thread
    BY ThreadsAre
  <2>5. log'[h][kind] = Append(log[h][kind], x) /\ index'[h][kind] = index[h][kind]
    BY <1>4, <1>5, <1>7, DatabasesAre
  <2>6. \A g : /\ Owes(other, g)' = Owes(other, g) /\ Owes(thread, g) = 0
               /\ Owes(thread, g)' = IF g = h THEN 1 ELSE 0
    BY <1>2, <1>7, <2>2, <2>3, <2>4 DEF Owes
  <2>7. \A g, k, y : /\ OwesItem(other, g, k, y)' = OwesItem(other, g, k, y) /\ OwesItem(thread, g, k, y) = 0
                     /\ OwesItem(thread, g, k, y)' = IF g = h /\ k = kind /\ y = x THEN 1 ELSE 0
    BY <1>2, <2>2, <2>3, <2>4 DEF OwesItem
  <2>8. ASSUME NEW g \in Databases, NEW k \in Indexed, NEW y \in Records, <<g, k>> \notin damaged
        PROVE  Times(index'[g][k], y) + OwesItem("main", g, k, y)' + OwesItem("source", g, k, y)'
                 <= Times(log'[g][k], y)
    <3>1. g \in Histories /\ k \in Kinds
      BY DatabasesAre, IndexedAre
    <3>2. PICK m \in Nat, n \in Nat, p \in Nat, q \in Nat :
            /\ m = Times(index[g][k], y) /\ n = Times(log[g][k], y)
            /\ p = OwesItem(other, g, k, y) /\ q = OwesItem(thread, g, k, y)
      <4>1. OwesItem(other, g, k, y) \in Nat /\ OwesItem(thread, g, k, y) \in Nat
        BY DEF OwesItem
      <4> QED BY <1>1, <3>1, <4>1, FiledIn
    <3>3. m + p + q <= n /\ q = 0
      <4>1. Times(index[g][k], y) + OwesItem("main", g, k, y) + OwesItem("source", g, k, y) <= Times(log[g][k], y)
        BY <2>8 DEF Backlog
      <4>2. CASE thread = "main" /\ other = "source"
        BY <2>7, <3>2, <4>1, <4>2
      <4>3. CASE thread = "source" /\ other = "main"
        BY <2>7, <3>2, <4>1, <4>3
      <4> QED BY <2>4, <4>2, <4>3, ThreadsAre
    <3>4. Times(index'[g][k], y) = m
      BY <1>3, <2>5, <3>1, <3>2
    <3>5. PICK d \in {0, 1} : OwesItem(thread, g, k, y)' = d /\ Times(log'[g][k], y) = n + d
      <4>1. CASE g = h /\ k = kind /\ y = x
        <5>1. log[h][kind] \in Seq(Records)
          BY <1>1, FiledIn
        <5>2. Times(Append(log[h][kind], x), x) = Times(log[h][kind], x) + 1
          BY <1>2, <5>1, TimesAppend
        <5>3. Times(log'[g][k], y) = n + 1
          BY <2>5, <3>2, <4>1, <5>2
        <5> QED BY <2>7, <4>1, <5>3
      <4>2. CASE g = h /\ k = kind /\ y # x
        <5>1. log[h][kind] \in Seq(Records)
          BY <1>1, FiledIn
        <5>2. Times(Append(log[h][kind], x), y) = Times(log[h][kind], y)
          BY <1>2, <4>2, <5>1, TimesAppend
        <5>3. Times(log'[g][k], y) = n
          BY <2>5, <3>2, <4>2, <5>2
        <5>4. n = n + 0
          BY <3>2
        <5>5. OwesItem(thread, g, k, y)' = 0
          BY <2>7, <4>2
        <5> QED BY <5>3, <5>4, <5>5
      <4>3. CASE ~ (g = h /\ k = kind)
        <5>1. log'[g][k] = log[g][k]
          BY <1>3, <3>1, <4>3
        <5>2. Times(log'[g][k], y) = n /\ n = n + 0
          BY <3>2, <5>1
        <5> QED BY <2>7, <4>3, <5>2
      <4> QED BY <4>1, <4>2, <4>3
    <3>6. OwesItem(other, g, k, y)' = p
      BY <2>7, <3>2
    <3>7. m + p + d <= n + d
      BY <3>3
    <3>8. CASE thread = "main" /\ other = "source"
      BY <3>4, <3>5, <3>6, <3>7, <3>8
    <3>9. CASE thread = "source" /\ other = "main"
      BY <3>4, <3>5, <3>6, <3>7, <3>9
    <3> QED BY <2>4, <3>8, <3>9, ThreadsAre
  <2>9. ASSUME NEW g \in Databases
        PROVE  Lacks(g)' <= 2 * failures' + Owes("main", g)' + Owes("source", g)'
    <3>1. g \in Histories /\ "trades" \in Kinds /\ "decisions" \in Kinds
      BY DatabasesAre, KindsAre
    <3>2. PICK a \in Nat, b \in Nat, p \in Nat, f \in Nat :
            /\ a = Cardinality(Missing(g, "trades")) /\ b = Cardinality(Missing(g, "decisions"))
            /\ p = Owes(other, g) /\ f = failures
      <4>1. Owes(other, g) \in Nat /\ failures \in Nat
        BY DEF Owes, Typed
      <4> QED BY <1>1, <3>1, <4>1, MissingNumber
    <3>3. a + b <= 2 * f + p
      <4>1. Lacks(g) <= 2 * failures + Owes("main", g) + Owes("source", g)
        BY DEF Backlog
      <4>2. CASE thread = "main" /\ other = "source"
        BY <2>6, <3>2, <4>1, <4>2 DEF Lacks
      <4>3. CASE thread = "source" /\ other = "main"
        BY <2>6, <3>2, <4>1, <4>3 DEF Lacks
      <4> QED BY <2>4, <4>2, <4>3, ThreadsAre
    <3>4. PICK a_ \in Nat, b_ \in Nat :
            a_ = Cardinality(Missing(g, "trades")') /\ b_ = Cardinality(Missing(g, "decisions")')
      <4>1. Filed(log')
        BY FeedItemIs
      <4> QED BY <3>1, <4>1, MissingNext
    <3>5. Lacks(g)' = a_ + b_
      BY <3>4 DEF Lacks
    <3>6. g # h => a_ = a /\ b_ = b
      BY <1>2, <1>3, <3>1, <3>2, <3>4 DEF Missing
    <3>7. g = h => a_ + b_ <= a + b + 1
      <4>1. SUFFICES ASSUME g = h PROVE a_ + b_ <= a + b + 1
        OBVIOUS
      <4>2. Cardinality(Missing(h, kind)') <= Cardinality(Missing(h, kind)) + 1
        <5>1. PICK s, t : s = log[h][kind] /\ t = index[h][kind]
          OBVIOUS
        <5>2. s \in Seq(Records)
          BY <1>1, <5>1, FiledIn
        <5>3. Cardinality(Holes(Append(s, x), t)) <= Cardinality(Holes(s, t)) + 1
          BY <1>2, <5>2, HolesOfAppend
        <5>4. Missing(h, kind) = Holes(s, t) /\ Missing(h, kind)' = Holes(Append(s, x), t)
          BY <1>2, <1>7, <2>5, <5>1, MissingIs
        <5> QED BY <5>3, <5>4
      <4>3. CASE kind = "trades"
        <5>1. b_ = b
          BY <1>2, <1>3, <3>1, <3>2, <3>4, <4>1, <4>3 DEF Missing
        <5> QED BY <3>2, <3>4, <4>1, <4>2, <4>3, <5>1
      <4>4. CASE kind = "decisions"
        <5>1. a_ = a
          BY <1>2, <1>3, <3>1, <3>2, <3>4, <4>1, <4>4 DEF Missing
        <5> QED BY <3>2, <3>4, <4>1, <4>2, <4>4, <5>1
      <4> QED BY <1>7, <4>3, <4>4, IndexedAre
    <3>8. PICK d \in {0, 1} : Owes(thread, g)' = d /\ (g = h => d = 1) /\ (g # h => d = 0)
      BY <2>6
    <3>9. a_ + b_ <= 2 * f + p + d
      BY <3>3, <3>6, <3>7, <3>8
    <3>10. Owes(other, g)' = p /\ failures' = f
      BY <2>6, <3>2
    <3>11. CASE thread = "main" /\ other = "source"
      BY <3>5, <3>8, <3>9, <3>10, <3>11
    <3>12. CASE thread = "source" /\ other = "main"
      BY <3>5, <3>8, <3>9, <3>10, <3>12
    <3> QED BY <2>4, <3>11, <3>12, ThreadsAre
  <2> QED BY <1>2, <1>6, <2>8, <2>9 DEF Backlog
<1>8. CASE ~ (h \in Databases /\ kind \in Indexed /\ <<h, kind>> \notin damaged)
  <2>1. \A g \in Databases, k \in Indexed :
          <<g, k>> \notin damaged => log'[g][k] = log[g][k] /\ index'[g][k] = index[g][k]
    <3>1. ASSUME NEW g \in Databases, NEW k \in Indexed, <<g, k>> \notin damaged
          PROVE  g # h \/ k # kind
      BY <1>8, <3>1
    <3> QED BY <1>3, <3>1, DatabasesAre, IndexedAre
  <2>2. ASSUME NEW t \in Threads, NEW g \in Databases
        PROVE  /\ Owes(t, g)' = Owes(t, g)
               /\ \A k \in Indexed, y \in Records :
                    <<g, k>> \notin damaged => OwesItem(t, g, k, y)' = OwesItem(t, g, k, y)
    <3>1. CASE h \in Databases /\ kind \in Indexed
      <4>1. PICK it : it = [kind |-> kind, of |-> h, item |-> x]
        OBVIOUS
      <4>2. it.kind = kind /\ it.of = h /\ <<h, kind>> \in damaged
        BY <1>8, <3>1, <4>1
      <4>3. half' = [half EXCEPT ![thread] = it]
        BY <3>1, <4>1, FeedItemIs
      <4>4. half'[t] = half[t] \/ (half[t] = NoHalf /\ half'[t] = it)
        BY <1>1, <1>2, <4>3
      <4> QED BY <1>2, <4>2, <4>4 DEF Owes, OwesItem
    <3>2. CASE ~ (h \in Databases /\ kind \in Indexed)
      <4>1. half' = half
        BY <3>2, FeedItemIs
      <4> QED BY <1>2, <4>1 DEF Owes, OwesItem
    <3> QED BY <3>1, <3>2
  <2>3. failures' = failures + 0 /\ failures' \in Nat /\ 0 \in {0, 1}
    BY DEF Typed
  <2> QED BY <1>2, <1>6, <2>1, <2>2, <2>3, LessOwed
<1> QED BY <1>7, <1>8

LEMMA MoreFailures ==
  ASSUME NEW f \in Nat, NEW f_ \in Nat, f <= f_, NEW n \in Nat, NEW p \in Nat, n <= 2 * f + p
  PROVE  n <= 2 * f_ + p
  OBVIOUS

\* The second half of a feed: it returns, or it throws and counts as a failure.
LEMMA IndexBacklog ==
  ASSUME Typed, Backlog, NEW thread \in Threads, half[thread] # NoHalf, UNCHANGED logs,
         index' = Appended(index, half[thread].of, half[thread].kind, half[thread].item),
         half' = [half EXCEPT ![thread] = NoHalf], failures' = failures \/ failures' = failures + 1
  PROVE  Backlog'
<1>1. /\ Filed(log) /\ Filed(index) /\ half \in [Threads -> Half \union {NoHalf}]
      /\ log' = log /\ damaged' = damaged
  BY DEF Typed, logs
<1>2. PICK h \in Databases, kind \in Indexed, x \in Records :
        h = half[thread].of /\ kind = half[thread].kind /\ x = half[thread].item
  BY IndexedIs
<1>3. h \in Histories /\ kind \in Kinds
  BY DatabasesAre, IndexedAre
<1>4. /\ Filed(index') /\ index'[h][kind] = Append(index[h][kind], x)
      /\ \A g \in Histories, k \in Kinds : g # h \/ k # kind => index'[g][k] = index[g][k]
  BY <1>2, IndexedIs
<1>5. half'[thread] = NoHalf /\ \A t \in Threads : t # thread => half'[t] = half[t]
  BY HalfDropped
<1>6. PICK other \in Threads : Threads = {thread, other} /\ other # thread
  BY ThreadsAre
<1>7. \A g : /\ Owes(other, g)' = Owes(other, g) /\ Owes(thread, g)' = 0
             /\ Owes(thread, g) = IF g = h /\ <<h, kind>> \notin damaged THEN 1 ELSE 0
  BY <1>1, <1>2, <1>5, <1>6 DEF Owes
<1>8. \A g, k, y : /\ OwesItem(other, g, k, y)' = OwesItem(other, g, k, y) /\ OwesItem(thread, g, k, y)' = 0
                   /\ OwesItem(thread, g, k, y) = IF g = h /\ k = kind /\ y = x THEN 1 ELSE 0
  BY <1>2, <1>5, <1>6 DEF OwesItem
<1>9. PICK s \in Seq(Records), t \in Seq(Records) : s = log[h][kind] /\ t = index[h][kind]
  BY <1>1, <1>3, FiledIn
<1>10. ASSUME NEW g \in Histories \ Databases, NEW k \in Indexed
       PROVE  index'[g][k] = log'[g][k]
  <2>1. k \in Kinds /\ index[g][k] = log[g][k] /\ g # h
    BY IndexedAre DEF Backlog
  <2> QED BY <1>1, <1>4, <2>1
<1>11. CASE <<h, kind>> \notin damaged
\* Of every item at most what the log holds is indexed, and indexing it fills one of the holes.
  <2>1. ASSUME NEW g \in Databases, NEW k \in Indexed, NEW y \in Records, <<g, k>> \notin damaged
        PROVE  /\ Times(index'[g][k], y) + OwesItem("main", g, k, y)' + OwesItem("source", g, k, y)'
                    <= Times(log'[g][k], y)
               /\ g = h /\ k = kind /\ y = x => Times(t, x) < Times(s, x)
    <3>1. g \in Histories /\ k \in Kinds
      BY DatabasesAre, IndexedAre
    <3>2. PICK m \in Nat, n \in Nat, p \in Nat :
            m = Times(index[g][k], y) /\ n = Times(log[g][k], y) /\ p = OwesItem(other, g, k, y)
      <4>1. OwesItem(other, g, k, y) \in Nat
        BY DEF OwesItem
      <4> QED BY <1>1, <3>1, <4>1, FiledIn
    <3>3. PICK d \in {0, 1} : d = OwesItem(thread, g, k, y) /\ Times(index'[g][k], y) = m + d
      <4>1. CASE g = h /\ k = kind /\ y = x
        <5>1. Times(Append(t, x), x) = Times(t, x) + 1
          BY TimesAppend
        <5>2. Times(index'[g][k], y) = m + 1
          BY <1>4, <1>9, <3>2, <4>1, <5>1
        <5> QED BY <1>8, <4>1, <5>2
      <4>2. CASE g = h /\ k = kind /\ y # x
        <5>1. Times(Append(t, x), y) = Times(t, y)
          BY <4>2, TimesAppend
        <5>2. Times(index'[g][k], y) = m
          BY <1>4, <1>9, <3>2, <4>2, <5>1
        <5>3. m = m + 0
          BY <3>2
        <5>4. OwesItem(thread, g, k, y) = 0
          BY <1>8, <4>2
        <5> QED BY <5>2, <5>3, <5>4
      <4>3. CASE ~ (g = h /\ k = kind)
        <5>1. index'[g][k] = index[g][k]
          BY <1>4, <3>1, <4>3
        <5>2. Times(index'[g][k], y) = m + 0
          BY <3>2, <5>1
        <5> QED BY <1>8, <4>3, <5>2
      <4> QED BY <4>1, <4>2, <4>3
    <3>4. m + p + d <= n
      <4>1. Times(index[g][k], y) + OwesItem("main", g, k, y) + OwesItem("source", g, k, y) <= Times(log[g][k], y)
        BY <2>1 DEF Backlog
      <4>2. CASE thread = "main" /\ other = "source"
        BY <3>2, <3>3, <4>1, <4>2
      <4>3. CASE thread = "source" /\ other = "main"
        BY <3>2, <3>3, <4>1, <4>3
      <4> QED BY <1>6, <4>2, <4>3, ThreadsAre
    <3>5. Times(index'[g][k], y) + OwesItem("main", g, k, y)' + OwesItem("source", g, k, y)' <= Times(log'[g][k], y)
      <4>1. OwesItem(other, g, k, y)' = p /\ OwesItem(thread, g, k, y)' = 0 /\ Times(log'[g][k], y) = n
        BY <1>1, <1>8, <3>2
      <4>2. CASE thread = "main" /\ other = "source"
        BY <3>3, <3>4, <4>1, <4>2
      <4>3. CASE thread = "source" /\ other = "main"
        BY <3>3, <3>4, <4>1, <4>3
      <4> QED BY <1>6, <4>2, <4>3, ThreadsAre
    <3>6. g = h /\ k = kind /\ y = x => Times(t, x) < Times(s, x)
      <4>1. SUFFICES ASSUME g = h, k = kind, y = x PROVE Times(t, x) < Times(s, x)
        OBVIOUS
      <4>2. d = 1 /\ m = Times(t, x) /\ n = Times(s, x)
        BY <1>8, <1>9, <3>2, <3>3, <4>1
      <4> QED BY <3>4, <4>2
    <3> QED BY <3>5, <3>6
  <2>2. Times(t, x) < Times(s, x)
    BY <1>11, <2>1
  <2>3. ASSUME NEW g \in Databases
        PROVE  Lacks(g)' <= 2 * failures' + Owes("main", g)' + Owes("source", g)'
    <3>1. g \in Histories /\ "trades" \in Kinds /\ "decisions" \in Kinds
      BY DatabasesAre, KindsAre
    <3>2. PICK a \in Nat, b \in Nat, p \in Nat, f \in Nat :
            /\ a = Cardinality(Missing(g, "trades")) /\ b = Cardinality(Missing(g, "decisions"))
            /\ p = Owes(other, g) /\ f = failures
      <4>1. Owes(other, g) \in Nat /\ failures \in Nat
        BY DEF Owes, Typed
      <4> QED BY <1>1, <3>1, <4>1, MissingNumber
    <3>3. PICK d \in {0, 1} : d = Owes(thread, g) /\ (g = h => d = 1) /\ (g # h => d = 0)
      BY <1>7, <1>11
    <3>4. a + b <= 2 * f + p + d
      <4>1. Lacks(g) <= 2 * failures + Owes("main", g) + Owes("source", g)
        BY DEF Backlog
      <4>2. CASE thread = "main" /\ other = "source"
        BY <3>2, <3>3, <4>1, <4>2 DEF Lacks
      <4>3. CASE thread = "source" /\ other = "main"
        BY <3>2, <3>3, <4>1, <4>3 DEF Lacks
      <4> QED BY <1>6, <4>2, <4>3, ThreadsAre
    <3>5. PICK a_ \in Nat, b_ \in Nat :
            a_ = Cardinality(Missing(g, "trades")') /\ b_ = Cardinality(Missing(g, "decisions")')
      <4>1. Filed(log')
        BY <1>1
      <4> QED BY <3>1, <4>1, MissingNext
    <3>6. Lacks(g)' = a_ + b_
      BY <3>5 DEF Lacks
    <3>7. g # h => a_ = a /\ b_ = b
      BY <1>1, <1>4, <3>1, <3>2, <3>5 DEF Missing
    <3>8. g = h => a_ + b_ + 1 <= a + b
      <4>1. SUFFICES ASSUME g = h PROVE a_ + b_ + 1 <= a + b
        OBVIOUS
      <4>2. Cardinality(Missing(h, kind)') + 1 <= Cardinality(Missing(h, kind))
        <5>1. Cardinality(Holes(s, Append(t, x))) + 1 <= Cardinality(Holes(s, t))
          BY <2>2, HolesOfIndexed
        <5>2. Missing(h, kind) = Holes(s, t) /\ Missing(h, kind)' = Holes(s, Append(t, x))
          <6>1. Missing(h, kind) = Holes(log[h][kind], index[h][kind])
            BY <1>11, MissingIs
          <6>2. Missing(h, kind)' = Holes(log'[h][kind], index'[h][kind])
            BY <1>1, <1>11, MissingIs
          <6> QED BY <1>1, <1>4, <1>9, <6>1, <6>2
        <5> QED BY <5>1, <5>2
      <4>3. CASE kind = "trades"
        <5>1. b_ = b
          BY <1>1, <1>4, <3>1, <3>2, <3>5, <4>1, <4>3 DEF Missing
        <5> QED BY <3>2, <3>5, <4>1, <4>2, <4>3, <5>1
      <4>4. CASE kind = "decisions"
        <5>1. a_ = a
          BY <1>1, <1>4, <3>1, <3>2, <3>5, <4>1, <4>4 DEF Missing
        <5> QED BY <3>2, <3>5, <4>1, <4>2, <4>4, <5>1
      <4> QED BY <4>3, <4>4, IndexedAre
    <3>9. a_ + b_ <= 2 * f + p
      BY <3>3, <3>4, <3>7, <3>8
    <3>10. PICK f_ \in Nat : f_ = failures' /\ f <= f_
      BY <3>2
    <3>11. a_ + b_ <= 2 * f_ + p
      <4>1. PICK n \in Nat : n = a_ + b_
        BY <3>5
      <4>2. n <= 2 * f + p
        BY <3>9, <4>1
      <4>3. f <= f_
        BY <3>10
      <4>4. n <= 2 * f_ + p
        BY <4>2, <4>3, MoreFailures
      <4> QED BY <4>1, <4>4
    <3>12. Owes(other, g)' = p /\ Owes(thread, g)' = 0
      BY <1>7, <3>2
    <3>13. CASE thread = "main" /\ other = "source"
      BY <3>2, <3>5, <3>6, <3>10, <3>11, <3>12, <3>13
    <3>14. CASE thread = "source" /\ other = "main"
      BY <3>2, <3>5, <3>6, <3>10, <3>11, <3>12, <3>14
    <3> QED BY <1>6, <3>13, <3>14, ThreadsAre
  <2> QED BY <1>1, <1>10, <2>1, <2>3 DEF Backlog
<1>12. CASE <<h, kind>> \in damaged
  <2>1. \A g \in Databases, k \in Indexed :
          <<g, k>> \notin damaged => log'[g][k] = log[g][k] /\ index'[g][k] = index[g][k]
    BY <1>1, <1>4, <1>12, DatabasesAre, IndexedAre
  <2>2. \A o \in Threads, g \in Databases : Owes(o, g)' = Owes(o, g)
    BY <1>6, <1>7, <1>12
  <2>3. \A o \in Threads, g \in Databases, k \in Indexed, y \in Records :
          OwesItem(o, g, k, y)' \in {0, OwesItem(o, g, k, y)}
    BY <1>6, <1>8
  <2>4. PICK f \in {0, 1} : failures' = failures + f /\ failures' \in Nat
    BY DEF Typed
  <2> QED BY <1>1, <1>10, <2>1, <2>2, <2>3, <2>4, LessOwed
<1> QED BY <1>11, <1>12

(* What fails costs at most one item a thread, and the memories that a death  *)
(* empties lose both maps.                                                    *)
LEMMA FailBacklog ==
  ASSUME Typed, Backlog, failures' = failures + 1, damaged \subseteq damaged',
         \A t \in Threads : half'[t] \in {half[t], NoHalf},
         \A g \in Histories \ Databases, k \in Indexed :
           \/ log'[g][k] = log[g][k] /\ index'[g][k] = index[g][k]
           \/ log'[g][k] = <<>> /\ index'[g][k] = <<>>,
         \A g \in Databases, k \in Indexed :
           <<g, k>> \notin damaged' => log'[g][k] = log[g][k] /\ index'[g][k] = index[g][k]
  PROVE  Backlog'
<1>1. \A g \in Histories \ Databases, k \in Indexed : index'[g][k] = log'[g][k]
  BY DEF Backlog
<1>2. \A t \in Threads, g \in Databases, k \in Indexed, y \in Records :
        OwesItem(t, g, k, y)' \in {0, OwesItem(t, g, k, y)}
  BY DEF OwesItem
<1>3. PICK f \in {0, 1} : f = 1 /\ failures' = failures + f /\ failures' \in Nat
  BY DEF Typed
<1> QED BY <1>1, <1>2, <1>3, LessOwed

LEMMA ThrownBacklog ==
  ASSUME Typed, Backlog, Thrown, index' = index, damaged \subseteq damaged',
         \A g \in Histories, k \in Kinds :
           g \notin Databases \/ <<g, k>> \notin damaged' => log'[g][k] = log[g][k]
  PROVE  Backlog'
<1>1. \A t \in Threads : half'[t] \in {half[t], NoHalf}
  BY ThreadsAre, HalfDropped DEF Thrown
<1>2. \A g \in Histories, k \in Indexed :
        g \notin Databases \/ <<g, k>> \notin damaged' => log'[g][k] = log[g][k] /\ index'[g][k] = index[g][k]
  BY IndexedAre
<1>3. failures' = failures + 1
  BY DEF Thrown
<1> QED BY <1>1, <1>2, <1>3, DatabasesAre, FailBacklog

LEMMA DiesBacklog ==
  ASSUME Typed, Backlog, Dies, damaged \subseteq damaged', NEW l, Filed(l), log' = Wiped(l),
         \A g \in Histories, k \in Kinds :
           g \notin Databases \/ <<g, k>> \notin damaged' => l[g][k] = log[g][k]
  PROVE  Backlog'
<1>1. \A t \in Threads : half'[t] \in {half[t], NoHalf}
  BY DEF Dies, NobodyHalf
<1>2. failures' = failures + 1 /\ index' = Wiped(index) /\ Filed(index)
  BY DEF Dies, Typed
<1>3. \A g \in Histories, k \in Kinds :
        /\ log'[g][k] = (IF g \in Memory THEN <<>> ELSE l[g][k])
        /\ index'[g][k] = (IF g \in Memory THEN <<>> ELSE index[g][k])
  BY <1>2, WipedIs
<1>4. \A g \in Histories \ Databases, k \in Indexed :
        \/ log'[g][k] = log[g][k] /\ index'[g][k] = index[g][k]
        \/ log'[g][k] = <<>> /\ index'[g][k] = <<>>
  <2>1. ASSUME NEW g \in Histories \ Databases, NEW k \in Indexed, g \notin Memory
        PROVE  log'[g][k] = log[g][k] /\ index'[g][k] = index[g][k]
    BY <1>3, <2>1, IndexedAre
  <2>2. ASSUME NEW g \in Histories \ Databases, NEW k \in Indexed, g \in Memory
        PROVE  log'[g][k] = <<>> /\ index'[g][k] = <<>>
    BY <1>3, <2>2, IndexedAre
  <2> QED BY <2>1, <2>2
<1>5. \A g \in Databases, k \in Indexed :
        <<g, k>> \notin damaged' => log'[g][k] = log[g][k] /\ index'[g][k] = index[g][k]
  BY <1>3, IndexedAre, DatabasesAre
<1> QED BY <1>1, <1>2, <1>4, <1>5, FailBacklog

LEMMA StepBacklog == Typed /\ Backlog /\ [Next]_vars => Backlog'
<1> SUFFICES ASSUME Typed, Backlog, [Next]_vars PROVE Backlog'
  OBVIOUS
<1>1. ASSUME NEW h \in Histories, NEW kind \in Kinds, NEW x \in Items[kind], Feed(h, kind, x)
      PROVE  Backlog'
  <2>1. FeedItem("main", h, kind, x) /\ failures' = failures /\ x \in Records
    BY <1>1, KindsAre DEF Feed
  <2> QED BY <2>1, ThreadsAre, FeedBacklog
<1>2. ASSUME NEW thread \in Threads, Index(thread) PROVE Backlog'
  <2>1. /\ half[thread] # NoHalf /\ UNCHANGED logs /\ failures' = failures
        /\ index' = Appended(index, half[thread].of, half[thread].kind, half[thread].item)
        /\ half' = [half EXCEPT ![thread] = NoHalf]
    BY <1>2 DEF Index, counts
  <2> QED BY <2>1, IndexBacklog
<1>3. ASSUME NEW kind, NEW x, Announce(kind, x) PROVE Backlog'
  BY <1>3, BacklogHeld DEF Announce
<1>4. ASSUME NEW h \in Live, SourceFeeds(h) PROVE Backlog'
  <2>1. PICK kind \in Kinds, x \in Records : kind = source.kind /\ x = source.item /\ h \in Histories
    BY <1>4, SourceFeedsTyped
  <2>2. FeedItem("source", h, kind, x) /\ failures' = failures
    BY <1>4, <2>1 DEF SourceFeeds, counts
  <2> QED BY <2>1, <2>2, ThreadsAre, FeedBacklog
<1>5. ASSUME NEW one \in Histories, NEW two \in Histories, BeginSync(one, two) PROVE Backlog'
  BY <1>5, BacklogHeld DEF BeginSync
<1>6. ASSUME ReadFirst \/ ReadSecond \/ NextStage PROVE Backlog'
  BY <1>6, BacklogHeld DEF ReadFirst, ReadSecond, NextStage, counts
<1>7. ASSUME NEW x, Push(x) \/ Pull(x) PROVE Backlog'
  <2>1. sync \in Call /\ x \in Records /\ failures' = failures
    BY <1>7, ExchangeTyped DEF Push, Pull, counts
  <2>2. PICK kind \in Kinds, one \in Histories, two \in Histories :
          kind = sync.kind /\ one = sync.one /\ two = sync.two
    BY <2>1 DEF Call
  <2>3. x \in Records /\ (FeedItem("main", two, kind, x) \/ FeedItem("main", one, kind, x))
    BY <1>7, <2>1, <2>2 DEF Push, Pull
  <2> QED BY <2>1, <2>3, ThreadsAre, FeedBacklog
<1>8. ASSUME Throw PROVE Backlog'
  BY <1>8, ThrownBacklog DEF Throw, logs
<1>9. ASSUME CommitThrows PROVE Backlog'
  <2>1. /\ half["main"] # NoHalf /\ UNCHANGED logs /\ failures' = failures + 1
        /\ index' = Appended(index, half["main"].of, half["main"].kind, half["main"].item)
        /\ half' = [half EXCEPT !["main"] = NoHalf]
    BY <1>9 DEF CommitThrows, Thrown
  <2> QED BY <2>1, ThreadsAre, IndexBacklog
<1>10. ASSUME NEW h \in Databases, NEW kind, NEW x, ThrowHalfway(h, kind, x),
              sync = Idle => kind \in Kinds /\ x \in Items[kind]
       PROVE  Backlog'
  <2>1. kind \in Kinds /\ x \in Records
    BY <1>10, ThrownHalfway
  <2>2. log' = Torn(h, kind, x) /\ Tears(h, kind, x) /\ Thrown /\ index' = index
    BY <1>10 DEF ThrowHalfway
  <2>3. /\ damaged' = damaged \union {<<h, kind>>}
        /\ \A g \in Histories, k \in Kinds : g # h \/ k # kind => log'[g][k] = log[g][k]
    BY <2>1, <2>2, TornIs
  <2>4. \A g \in Histories, k \in Kinds : g \notin Databases \/ <<g, k>> \notin damaged' => log'[g][k] = log[g][k]
    BY <2>3
  <2> QED BY <2>2, <2>3, <2>4, ThrownBacklog
<1>11. ASSUME Crash PROVE Backlog'
  <2>1. Dies /\ log' = Wiped(log) /\ damaged' = damaged /\ Filed(log)
    BY <1>11 DEF Crash, Typed
  <2> QED BY <2>1, DiesBacklog
<1>12. ASSUME NEW h \in Live, DieHalfway(h) PROVE Backlog'
  <2>1. PICK kind \in Kinds, x \in Records : kind = source.kind /\ x = source.item /\ h \in Databases
    BY <1>12, DyingHalfway
  <2>2. PICK l : l = Torn(h, kind, x)
    OBVIOUS
  <2>3. log' = Wiped(l) /\ Tears(h, kind, x) /\ Dies
    BY <1>12, <2>1, <2>2 DEF DieHalfway
  <2>4. /\ damaged' = damaged \union {<<h, kind>>} /\ Filed(l)
        /\ \A g \in Histories, k \in Kinds : g # h \/ k # kind => l[g][k] = log[g][k]
    BY <2>1, <2>2, <2>3, TornIs
  <2>5. \A g \in Histories, k \in Kinds : g \notin Databases \/ <<g, k>> \notin damaged' => l[g][k] = log[g][k]
    BY <2>1, <2>4
  <2> QED BY <2>3, <2>4, <2>5, DiesBacklog
<1>13. CASE Finished \/ UNCHANGED vars
  BY <1>13, BacklogHeld DEF Finished, vars, counts
<1> QED BY <1>1, <1>2, <1>3, <1>4, <1>5, <1>6, <1>7, <1>8, <1>9, <1>10, <1>11, <1>12, <1>13 DEF Next

LEMMA InitBacklog == Init => Backlog
<1> SUFFICES ASSUME Init PROVE Backlog
  OBVIOUS
<1>1. \A h \in Histories, kind \in Kinds : log[h][kind] = <<>> /\ index[h][kind] = <<>>
  BY DEF Init, Empty
<1>2. \A t \in Threads : half[t] = NoHalf
  BY DEF Init, NobodyHalf
<1>3. \A t \in Threads : \A h, kind, x : Owes(t, h) = 0 /\ OwesItem(t, h, kind, x) = 0
  BY <1>2 DEF Owes, OwesItem
<1>4. \A x : Times(<<>>, x) = 0
  BY ElemsEmpty, TimesNone
<1>5. \A h \in Histories, kind \in Kinds : Cardinality(Missing(h, kind)) = 0
  <2>1. \A h \in Histories, kind \in Kinds : Missing(h, kind) = {}
    BY <1>1, ElemsEmpty DEF Missing
  <2> QED BY <2>1, FS_EmptySet
<1>6. failures = 0
  BY DEF Init
<1>7. \A h \in Databases : Lacks(h) = 0
  BY <1>5, DatabasesAre, KindsAre DEF Lacks
<1>8. \A h \in Databases, kind \in Indexed, x \in Records :
        Times(index[h][kind], x) + OwesItem("main", h, kind, x) + OwesItem("source", h, kind, x)
          <= Times(log[h][kind], x)
  BY <1>1, <1>3, <1>4, DatabasesAre, IndexedAre, ThreadsAre
<1>9. \A h \in Databases : Lacks(h) <= 2 * failures + Owes("main", h) + Owes("source", h)
  BY <1>3, <1>6, <1>7, ThreadsAre
<1> QED BY <1>1, <1>8, <1>9, IndexedAre DEF Backlog

LEMMA Unfinished ==
  /\ Cardinality(Threads) = 2
  /\ \A h : Owes("main", h) + Owes("source", h)
              <= Cardinality({thread \in Threads : half[thread] # NoHalf})
  /\ Cardinality({thread \in Threads : half[thread] # NoHalf}) \in Nat
<1>1. Cardinality(Threads) = 2
  <2>1. Threads = {"main"} \union {"source"} /\ "main" # "source"
    BY ThreadsAre
  <2> QED BY <2>1, TwoElements
<1>2. PICK C : C = {thread \in Threads : half[thread] # NoHalf}
  OBVIOUS
<1>3. CASE half["main"] # NoHalf /\ half["source"] # NoHalf
  <2>1. C = Threads
    BY <1>2, <1>3, ThreadsAre
  <2>2. \A h : Owes("main", h) \in {0, 1} /\ Owes("source", h) \in {0, 1}
    BY DEF Owes
  <2>3. \A h : Owes("main", h) + Owes("source", h) <= 2
    BY <2>2
  <2> QED BY <1>1, <1>2, <2>1, <2>3
<1>4. CASE half["main"] # NoHalf /\ half["source"] = NoHalf
  <2>1. C = {"main"}
    BY <1>2, <1>4, ThreadsAre
  <2>2. \A h : Owes("main", h) \in {0, 1} /\ Owes("source", h) = 0
    BY <1>4 DEF Owes
  <2>3. Cardinality(C) = 1
    BY <2>1, FS_Singleton
  <2> QED BY <1>1, <1>2, <2>2, <2>3
<1>5. CASE half["main"] = NoHalf /\ half["source"] # NoHalf
  <2>1. C = {"source"}
    BY <1>2, <1>5, ThreadsAre
  <2>2. \A h : Owes("main", h) = 0 /\ Owes("source", h) \in {0, 1}
    BY <1>5 DEF Owes
  <2>3. Cardinality(C) = 1
    BY <2>1, FS_Singleton
  <2> QED BY <1>1, <1>2, <2>2, <2>3
<1>6. CASE half["main"] = NoHalf /\ half["source"] = NoHalf
  <2>1. C = {}
    BY <1>2, <1>6, ThreadsAre
  <2>2. \A h : Owes("main", h) = 0 /\ Owes("source", h) = 0
    BY <1>6 DEF Owes
  <2>3. Cardinality(C) = 0
    BY <2>1, FS_EmptySet
  <2> QED BY <1>1, <1>2, <2>2, <2>3
<1> QED BY <1>3, <1>4, <1>5, <1>6

LEMMA BacklogIs == Typed /\ Backlog => IndexMissesFailuresOnly
<1> SUFFICES ASSUME Typed, Backlog, NEW h \in Histories
             PROVE  /\ \A kind \in Indexed : \A x \in Elems(index[h][kind]) :
                         <<h, kind>> \notin damaged => Times(index[h][kind], x) <= Times(log[h][kind], x)
                    /\ Cardinality(Missing(h, "trades")) + Cardinality(Missing(h, "decisions"))
                         <= failures * Cardinality(Threads)
                            + Cardinality({thread \in Threads : half[thread] # NoHalf})
  BY DEF IndexMissesFailuresOnly
<1>1. Filed(log) /\ Filed(index) /\ failures \in Nat
  BY DEF Typed
<1>2. \A kind \in Indexed : Elems(index[h][kind]) \subseteq Records
  <2>1. ASSUME NEW kind \in Indexed PROVE Elems(index[h][kind]) \subseteq Records
    <3>1. index[h][kind] \in Seq(Records)
      BY <1>1, IndexedAre, FiledIn
    <3> QED BY <3>1, ElemsIn
  <2> QED BY <2>1
<1>3. PICK c \in Nat : /\ c = Cardinality({thread \in Threads : half[thread] # NoHalf})
                       /\ Owes("main", h) + Owes("source", h) <= c
  BY Unfinished
<1>4. CASE h \in Databases
  <2>1. ASSUME NEW kind \in Indexed, NEW x \in Records, <<h, kind>> \notin damaged
        PROVE  Times(index[h][kind], x) <= Times(log[h][kind], x)
    <3>1. PICK m \in Nat, n \in Nat : m = Times(index[h][kind], x) /\ n = Times(log[h][kind], x)
      BY <1>1, IndexedAre, FiledIn
    <3>2. m + OwesItem("main", h, kind, x) + OwesItem("source", h, kind, x) <= n
      BY <1>4, <2>1, <3>1 DEF Backlog
    <3>3. OwesItem("main", h, kind, x) \in {0, 1} /\ OwesItem("source", h, kind, x) \in {0, 1}
      BY DEF OwesItem
    <3> QED BY <3>1, <3>2, <3>3
  <2>2. PICK a \in Nat, b \in Nat :
          a = Cardinality(Missing(h, "trades")) /\ b = Cardinality(Missing(h, "decisions"))
    BY <1>1, KindsAre, MissingNumber
  <2>3. a + b <= 2 * failures + Owes("main", h) + Owes("source", h)
    BY <1>4, <2>2 DEF Backlog, Lacks
  <2>4. Owes("main", h) \in {0, 1} /\ Owes("source", h) \in {0, 1}
    BY DEF Owes
  <2>5. a + b <= failures * 2 + c
    BY <1>1, <1>3, <2>3, <2>4
  <2> QED BY <1>2, <1>3, <2>1, <2>2, <2>5, Unfinished
<1>5. CASE h \notin Databases
  <2>1. \A kind \in Indexed : kind \in Kinds /\ index[h][kind] = log[h][kind]
    BY <1>5, IndexedAre DEF Backlog
  <2>2. \A kind \in Indexed : \A x : Times(index[h][kind], x) <= Times(log[h][kind], x)
    <3>1. \A kind \in Indexed : \A x : Times(log[h][kind], x) \in Nat
      BY <1>1, <2>1, FiledIn
    <3> QED BY <2>1, <3>1
  <2>3. \A kind \in Indexed : Cardinality(Missing(h, kind)) = 0
    <3>1. ASSUME NEW kind \in Indexed PROVE Missing(h, kind) = {}
      <4>1. PICK s \in Seq(Records) : s = log[h][kind] /\ s = index[h][kind]
        BY <1>1, <2>1, FiledIn
      <4>2. Holes(s, s) = {}
        BY HolesNone
      <4> QED BY <4>1, <4>2, MissingIs
    <3> QED BY <3>1, FS_EmptySet
  <2>4. Cardinality(Missing(h, "trades")) = 0 /\ Cardinality(Missing(h, "decisions")) = 0
    BY <2>3, IndexedAre
  <2>5. 0 <= failures * 2 + c
    BY <1>1, <1>3
  <2> QED BY <1>3, <2>2, <2>4, <2>5, Unfinished
<1> QED BY <1>4, <1>5

(* An index never shows what its log does not, and an exception or a death    *)
(* makes it miss at most one item for each thread, whatever is fed and        *)
(* synchronized, where no append has left half a record (DBHistory.hpp,       *)
(* lines 48-58).                                                              *)
THEOREM TheIndexMissesFailuresOnly == Spec => []IndexMissesFailuresOnly
<1>1. Spec => [](Typed /\ Backlog)
  BY InitTyped, StepTyped, InitBacklog, StepBacklog, PTL DEF Spec
<1> QED BY <1>1, BacklogIs, PTL
=============================================================================
