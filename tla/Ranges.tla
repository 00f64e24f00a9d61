-------------------------------- MODULE Ranges --------------------------------
(* The ranges a history hands out and the iterators over them                *)
(* (range/Range.hpp): SortedRange over the multimap of a MemoryHistory,      *)
(* UpscaleBTreeRange over the index of a DBHistory, FilterRange over a       *)
(* PlainLogRange, and the calls of UpscaleBTree that count keys or ask for   *)
(* the first or the last. They read the trades of one history while it is    *)
(* fed: by the body of the loop, or by a source. Each iteration over an      *)
(* index, and each of these calls, creates a cursor of upscaledb.            *)
(* `items` holds the key of each record in order of insertion. A container   *)
(* that is sorted keeps records of equal keys in that order (std::multimap   *)
(* inserts after its equals, UPS_DUPLICATE appends to the duplicates).       *)
(* Op_Fault is a faulty variant of Op, as in Source.                         *)
EXTENDS Naturals, Sequences

CONSTANTS Keys,      \* the timestamps of the records, and of the bounds asked for
          Now,       \* what a Timestamp is when nothing initializes it: the time of day
          Kinds,     \* which of AllKinds the run reads
          MaxItems,  \* bound: records fed
          MaxWalks,  \* bound: iterations over one range object
          MaxRanges  \* bound: range objects and calls

AllKinds == {"sorted", "unbounded",  \* SortedRange with bounds, without
             "tree", "whole",        \* UpscaleBTreeRange with bounds, without
             "log",                  \* FilterRange over PlainLogRange
             "count", "contains",    \* UpscaleBTree::count, without and with stop_at_first
             "lowest", "highest"}    \* UpscaleBTree::get_extremum_key
Trees == {"tree", "whole"}
Counts == {"count", "contains"}
Extrema == {"lowest", "highest"}

ASSUME KeysAssumption  == Keys \subseteq Nat /\ Now \in Nat
ASSUME KindsAssumption == Kinds \subseteq AllKinds
ASSUME BoundAssumption == MaxItems \in Nat /\ MaxWalks \in Nat /\ MaxRanges \in Nat

VARIABLES
  items,  \* the keys of the records, in order of insertion
  range,  \* the range object (its RangeData) or the call, or NoRange, or Dead
  walk,   \* the iterator over it: where it is, what it has shown
  opened, \* how many there have been
  cursors, \* how many cursors of the index are open
  careless \* a range was iterated over again, or an empty index asked for an extremum

handles == <<cursors, careless>>
vars == <<items, range, walk, opened, handles>>

NoRange == [kind |-> "none"]
Dead    == [kind |-> "dead"]   \* the program, not the range
NoWalk  == [at |-> 0, live |-> FALSE, shown |-> <<>>, base |-> 0]

-----------------------------------------------------------------------------
(* The sorted containers.                                                    *)

Before(i, j) == items[i] < items[j] \/ (items[i] = items[j] /\ i < j)

\* The first and the last of some records; 0 when there are none.
Least(S)    == IF S = {} THEN 0 ELSE CHOOSE i \in S : \A j \in S : i = j \/ Before(i, j)
Greatest(S) == IF S = {} THEN 0 ELSE CHOOSE i \in S : \A j \in S : i = j \/ Before(j, i)

Successor_ByKey(i) == Least({j \in DOMAIN items : j # i /\ items[j] >= items[i]})
Successor(i)   == Least({j \in DOMAIN items : Before(i, j)})
Predecessor(i) == Greatest({j \in DOMAIN items : Before(j, i)})

UpperBound_Lower(k) == Least({i \in DOMAIN items : items[i] >= k})
UpperBound(k) == Least({i \in DOMAIN items : items[i] > k})   \* and UPS_FIND_GT_MATCH
AtLeast(k)    == Least({i \in DOMAIN items : items[i] >= k})  \* UPS_FIND_GEQ_MATCH
Exactly(k)    == Least({i \in DOMAIN items : items[i] = k})   \* UPS_FIND_EQ_MATCH

IsPoint   == range.begin = range.end
IsReverse == range.end < range.begin

-----------------------------------------------------------------------------
Init ==
  /\ items = <<>>
  /\ range = NoRange
  /\ walk = NoWalk
  /\ opened = 0
  /\ cursors = 0 /\ careless = FALSE

\* The history is fed a record.
Feed(k) ==
  /\ range # Dead
  /\ Len(items) < MaxItems
  /\ items' = Append(items, k)
  /\ UNCHANGED <<range, walk, opened, handles>>

(* A range object is made. `key` is the _key of the tree, which find reads   *)
(* and both find and move overwrite; `pos` is where the file of the log has  *)
(* been read to. _begin of an unbounded SortedRange is never given a value.  *)
Open(kind, b, e) ==
  /\ range = NoRange
  /\ opened < MaxRanges
  /\ opened' = opened + 1
  /\ range' = [kind |-> kind, begin |-> IF kind = "unbounded" THEN Now ELSE b, end |-> e,
               key |-> b, pos |-> 0, eof |-> FALSE, walks |-> 0]
  /\ UNCHANGED <<items, walk, handles>>

\* The iterator stands at record i, and shows it unless it is finished.
Show(i, shows) ==
  walk' = [walk EXCEPT !.at = i, !.live = shows,
                       !.shown = IF shows THEN Append(@, i) ELSE @]

\* begin() of a range that no iterator is using.
Fresh == range \notin {NoRange, Dead} /\ ~ walk.live /\ range.walks < MaxWalks
BeginAt(i, shows) ==
  walk' = [at |-> i, live |-> shows, shown |-> IF shows THEN <<i>> ELSE <<>>,
           base |-> Len(items)]

\* SortedRangeData::iterate.
SortedShows(i, checkBegin) ==
  /\ i # 0
  /\ range.kind = "sorted" => items[i] <= range.end
  /\ checkBegin => items[i] >= range.begin

BeginSorted ==
  /\ Fresh /\ range.kind \in {"sorted", "unbounded"}
  /\ LET i == IF range.kind = "sorted" THEN UpperBound(range.begin) ELSE Least(DOMAIN items) IN
       BeginAt(i, SortedShows(i, FALSE))
  /\ range' = [range EXCEPT !.walks = @ + 1]
  /\ UNCHANGED <<items, opened, handles>>

StepSorted ==
  /\ walk.live /\ range.kind \in {"sorted", "unbounded"}
  /\ LET i == Successor(walk.at) IN Show(i, SortedShows(i, TRUE))
  /\ UNCHANGED <<items, range, opened, handles>>

(* UpscaleBTreeRangeData::init: a new cursor, the pointer to which takes the *)
(* place of the last one, is placed from _key, which still is what the last  *)
(* iteration left in it. The end of the range is not looked at.              *)
NewCursor ==
  /\ cursors' = cursors + 1
  /\ careless' = (careless \/ range.walks > 0)

BeginTree ==
  /\ Fresh /\ range.kind \in Trees
  /\ LET i == CASE range.kind = "whole" -> Least(DOMAIN items)
                [] range.kind = "tree" /\ IsPoint -> Exactly(range.key)
                [] range.kind = "tree" /\ IsReverse -> AtLeast(range.key)
                [] OTHER -> UpperBound(range.key)
     IN /\ BeginAt(i, i # 0)
        /\ range' = [range EXCEPT !.walks = @ + 1, !.key = IF i = 0 THEN @ ELSE items[i]]
  /\ NewCursor
  /\ UNCHANGED <<items, opened>>

\* UpscaleBTreeRangeData::next.
PastEnd_OffByOne(k) == IF IsReverse THEN k < range.end ELSE k >= range.end
PastEnd(k) == IF IsReverse THEN k < range.end ELSE k > range.end
StepTree ==
  /\ walk.live /\ range.kind \in Trees
  /\ LET i == IF range.kind = "tree" /\ IsReverse THEN Predecessor(walk.at) ELSE Successor(walk.at)
     IN /\ Show(i, i # 0 /\ (range.kind = "tree" => ~ PastEnd(items[i])))
        /\ range' = [range EXCEPT !.key = IF i = 0 THEN @ ELSE items[i]]
  /\ UNCHANGED <<items, opened, handles>>

(* FilterRangeData::init and next over PlainLogRangeData, which both read on *)
(* until the filter of get_trades_by_timestamp accepts a record. init does   *)
(* not rewind the file; once it has met the end, a C library may go on       *)
(* reporting the end or read what was appended since.                        *)
Accepts(k) == k > range.begin /\ k <= range.end
NextAccepted(pos) ==
  LET rest == {i \in DOMAIN items : i > pos /\ Accepts(items[i])} IN
    IF rest = {} THEN 0 ELSE CHOOSE i \in rest : \A j \in rest : i <= j
ReadTo(i) == [range EXCEPT !.pos = IF i = 0 THEN Len(items) ELSE i, !.eof = (i = 0)]

BeginLog ==
  /\ Fresh /\ range.kind = "log"
  /\ LET i == NextAccepted(range.pos) IN
       \/ /\ BeginAt(i, i # 0)
          /\ range' = [ReadTo(i) EXCEPT !.walks = @ + 1]
       \/ /\ range.eof
          /\ BeginAt(0, FALSE)
          /\ range' = [range EXCEPT !.walks = @ + 1]
  /\ UNCHANGED <<items, opened, handles>>

StepLog ==
  /\ walk.live /\ range.kind = "log"
  /\ LET i == NextAccepted(range.pos) IN
       /\ Show(i, i # 0)
       /\ range' = ReadTo(i)
  /\ UNCHANGED <<items, opened, handles>>

(* UpscaleBTree::count: a cursor is placed, then each turn of the loop tests *)
(* the key and moves on. The cursor is closed on every way out.              *)
BeginCount ==
  /\ Fresh /\ range.kind \in Counts
  /\ LET i == AtLeast(range.begin) IN
       /\ walk' = [at |-> i, live |-> i # 0, shown |-> <<>>, base |-> Len(items)]
       /\ cursors' = IF i # 0 THEN cursors + 1 ELSE cursors
  /\ range' = [range EXCEPT !.walks = MaxWalks]
  /\ UNCHANGED <<items, opened, careless>>

Counted ==
  IF items[walk.at] = range.begin THEN Append(walk.shown, walk.at) ELSE walk.shown
CountGoesOn ==
  ~ (items[walk.at] > range.begin)
  /\ ~ (items[walk.at] = range.begin /\ range.kind = "contains")

StepCount_NoEnd ==
  /\ walk.live /\ range.kind \in Counts
  /\ walk' = [walk EXCEPT !.shown = Counted, !.at = Successor(walk.at), !.live = CountGoesOn]
  /\ cursors' = IF walk'.live THEN cursors ELSE cursors - 1
  /\ UNCHANGED <<items, range, opened, careless>>
StepCount_LeavesCursor ==
  /\ walk.live /\ range.kind \in Counts
  /\ LET i == Successor(walk.at) IN
       walk' = [walk EXCEPT !.shown = Counted, !.at = i, !.live = CountGoesOn /\ i # 0]
  /\ cursors' = IF CountGoesOn /\ ~ walk'.live THEN cursors - 1 ELSE cursors
  /\ UNCHANGED <<items, range, opened, careless>>
StepCount ==
  /\ walk.live /\ range.kind \in Counts
  /\ LET i == Successor(walk.at) IN
       walk' = [walk EXCEPT !.shown = Counted, !.at = i, !.live = CountGoesOn /\ i # 0]
  /\ cursors' = IF walk'.live THEN cursors ELSE cursors - 1
  /\ UNCHANGED <<items, range, opened, careless>>

(* get_extremum_key: of an empty index ups_cursor_move finds nothing, and    *)
(* UPS_SAFE_CALL throws past the ups_cursor_close.                           *)
Extremum ==
  /\ Fresh /\ range.kind \in Extrema
  /\ LET i == IF range.kind = "lowest" THEN Least(DOMAIN items) ELSE Greatest(DOMAIN items) IN
       /\ walk' = [at |-> i, live |-> FALSE, shown |-> IF i = 0 THEN <<>> ELSE <<i>>,
                   base |-> Len(items)]
       /\ cursors' = IF i = 0 THEN cursors + 1 ELSE cursors
       /\ careless' = (careless \/ i = 0)
  /\ range' = [range EXCEPT !.walks = MaxWalks]
  /\ UNCHANGED <<items, opened>>

(* The last owner of the range lets it go, before or after the end of the    *)
(* iteration, or the call returns. ~UpscaleBTreeRangeData closes the last    *)
(* cursor; _ups_cursor is never initialized, so that a range nobody has      *)
(* iterated over closes what happens to be there: nothing, or the program    *)
(* dies of it.                                                               *)
Drop ==
  /\ range \notin {NoRange, Dead}
  /\ range.kind \in Counts \union Extrema => range.walks > 0 /\ ~ walk.live
  /\ range' \in IF range.kind \in Trees /\ range.walks = 0 THEN {NoRange, Dead} ELSE {NoRange}
  /\ walk' = NoWalk
  /\ cursors' = IF range.kind \in Trees /\ range.walks > 0 THEN cursors - 1 ELSE cursors
  /\ UNCHANGED <<items, opened, careless>>

\* The program has died, or holds no range and feeds no more.
Finished ==
  /\ \/ range = Dead
     \/ range = NoRange /\ opened = MaxRanges /\ Len(items) = MaxItems
  /\ UNCHANGED vars

Next ==
  \/ \E k \in Keys : Feed(k)
  \/ \E kind \in Kinds, b, e \in Keys : Open(kind, b, e)
  \/ BeginSorted \/ BeginTree \/ BeginLog \/ BeginCount \/ Extremum
  \/ StepSorted \/ StepTree \/ StepLog \/ StepCount
  \/ Drop
  \/ Finished

Spec == Init /\ [][Next]_vars

-----------------------------------------------------------------------------
(* Properties.                                                               *)

RangeObject ==
  [kind : Kinds, begin : Keys \union {Now}, end : Keys, key : Keys,
   pos : Nat, eof : BOOLEAN, walks : 0 .. MaxWalks]

\* Every variable holds a value the program can give it.
TypeOK ==
  /\ items \in Seq(Keys)
  /\ range \in RangeObject \union {NoRange, Dead}
  /\ walk \in [at : Nat, live : BOOLEAN, shown : Seq(Nat \ {0}), base : Nat]
  /\ \A n \in DOMAIN walk.shown : walk.shown[n] \in DOMAIN items
  /\ walk.live => walk.at \in DOMAIN items
  /\ opened \in 0 .. MaxRanges
  /\ cursors \in Nat /\ careless \in BOOLEAN

ShownBefore(i, j) ==
  CASE range.kind = "log" -> i < j
    [] range.kind = "tree" /\ IsReverse -> Before(j, i)
    [] OTHER -> Before(i, j)

(* However the history is fed meanwhile, an iteration shows records in the   *)
(* order of the container (insertion for a log, descending for a reverse     *)
(* range of the tree), and none of them twice.                               *)
ShownInOrder ==
  range \notin {NoRange, Dead} =>
    \A m, n \in DOMAIN walk.shown : m < n => ShownBefore(walk.shown[m], walk.shown[n])

Asked(k) ==
  CASE range.kind = "sorted" -> k > range.begin /\ k <= range.end
    [] range.kind = "log"    -> k > range.begin /\ k <= range.end
    [] range.kind \in {"unbounded", "whole"} \union Extrema -> TRUE
    [] range.kind \in Counts -> k = range.begin
    [] range.kind = "tree" /\ IsPoint -> k = range.begin
    [] range.kind = "tree" /\ IsReverse -> k <= range.begin /\ k >= range.end
    [] OTHER -> k > range.begin /\ k <= range.end

(* An iteration shows nothing that was not asked for, but what a range of    *)
(* the tree shows before that: init compares the first record with no bound, *)
(* next only with the end (UpscaleBTree.hpp, lines 102-110 and 134). Up to   *)
(* the end, that is one record, the last of its iteration when it lies       *)
(* beyond; down to the end, it is also what was fed above the begin since,   *)
(* and in a second iteration what lies between the last one and the begin.   *)
Stray(n) ==
  /\ range.kind = "tree"
  /\ \/ n = 1 /\ (IsReverse \/ ~ walk.live \/ walk.at = walk.shown[1])
     \/ /\ IsReverse /\ items[walk.shown[n]] > range.begin
        /\ range.walks > 1 \/ walk.shown[n] > walk.base
StraysComeFirst ==
  range \notin {NoRange, Dead} =>
    \A n \in DOMAIN walk.shown : Asked(items[walk.shown[n]]) \/ Stray(n)

(* An iteration that ends has shown every record that was asked for and was  *)
(* there when it began, wherever records are inserted meanwhile. This holds  *)
(* of the first iteration over a range of the tree or of a log (a second one *)
(* starts from where the first stopped), of a reverse range only if a record *)
(* at or above its begin existed, and but for duplicates of its begin, and   *)
(* of an unbounded SortedRange not at all.                                   *)
Promised ==
  CASE range.kind = "unbounded" -> FALSE
    [] range.kind \in {"sorted", "whole", "count"} -> TRUE
    [] range.kind \in {"contains"} \union Extrema -> FALSE
    [] range.kind = "tree" /\ IsReverse ->
         range.walks = 1 /\ \E i \in 1 .. walk.base : items[i] >= range.begin
    [] OTHER -> range.walks = 1
NothingMissed ==
  range \notin {NoRange, Dead} /\ range.walks > 0 /\ ~ walk.live /\ Promised =>
    \A i \in 1 .. walk.base :
      /\ Asked(items[i])
      /\ range.kind = "tree" /\ IsReverse => items[i] # range.begin
      => \E n \in DOMAIN walk.shown : walk.shown[n] = i

(* An iteration that is over leaves no cursor behind, wherever the loop was  *)
(* left and on every way out of count(): what is open is what the range now  *)
(* held has opened. It holds until a range is iterated over a second time    *)
(* (UpscaleBTree.hpp, line 88, overwrites the pointer to the first cursor)   *)
(* or an empty index is asked for its first or last key (lines 510-521).     *)
HoldsCursor ==
  \/ range.kind \in Trees /\ range.walks > 0
  \/ range.kind \in Counts /\ walk.live
CursorsAreHeld == careless \/ cursors = (IF HoldsCursor THEN 1 ELSE 0)

(* A range ]begin, end] of the tree shows keys beyond begin and up to end.   *)
TreeStaysInBounds ==
  range.kind = "tree" /\ range.begin < range.end =>
    \A n \in DOMAIN walk.shown :
      items[walk.shown[n]] > range.begin /\ items[walk.shown[n]] <= range.end
=============================================================================
