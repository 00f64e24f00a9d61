------------------------------ MODULE OrderBook ------------------------------
(* What the order book of a Source (sources/Source.hpp) promises to the      *)
(* trades that are matched against it, whatever threads keep it: versions of *)
(* an order are only appended, and only a deleted order loses versions, each *)
(* of them older than the grace threshold.                                   *)
EXTENDS Naturals, Sequences

CONSTANTS OrderIds,   \* the orders the exchange announces
          Times,      \* the timestamps it puts on them
          Threshold   \* _cleanup_threshold: the age a version may be purged at

VARIABLES book,   \* the versions kept of each order, in order of arrival
          gone,   \* the orders whose deletion was announced
          clock   \* the latest timestamp seen

vars == <<book, gone, clock>>

Version == [ts : Times, rev : Nat]

\* Written so that nothing is subtracted: ts > clock - Threshold.
RecentAt(v, t) == v.ts + Threshold > t

Elems(s) == {s[i] : i \in DOMAIN s}

Init ==
  /\ book = [id \in OrderIds |-> <<>>]
  /\ gone = {}
  /\ clock = 0

Advance ==
  /\ clock' \in {t \in Times : t > clock}
  /\ UNCHANGED <<book, gone>>

Announce(id) ==
  /\ Len(book'[id]) = Len(book[id]) + 1
  /\ LET v == book'[id][Len(book'[id])] IN
       /\ v \in Version
       /\ book' = [book EXCEPT ![id] = Append(@, v)]
  /\ UNCHANGED <<gone, clock>>

Delete(id) ==
  /\ gone' = gone \union {id}
  /\ UNCHANGED <<book, clock>>

Purge(id) ==
  /\ id \in gone
  /\ Elems(book'[id]) \subseteq Elems(book[id])
  /\ \A v \in Elems(book[id]) : RecentAt(v, clock) => v \in Elems(book'[id])
  /\ book' = [book EXCEPT ![id] = book'[id]]
  /\ UNCHANGED <<gone, clock>>

Next ==
  \/ Advance
  \/ \E id \in OrderIds : Announce(id) \/ Delete(id) \/ Purge(id)

Spec == Init /\ [][Next]_vars
=============================================================================
