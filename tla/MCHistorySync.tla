---------------------------- MODULE MCHistorySync -----------------------------
(* A memory, two databases and stdout that share trades, the databases being   *)
(* fed by a source (MCHistorySync.cfg), and two databases that share decisions *)
(* (MCHistorySyncDecisions.cfg). The two halves of an item are told apart from *)
(* those of the others; one record of two halves of decisions is of type WAIT. *)
EXTENDS HistorySync, TLC

CONSTANTS a1, a2, b1, b2, o1, o2, mem, db1, db2, out

MCHalves == {a1, a2, b1, b2, o1, o2}
OneTrade == {<<a1, a2>>}
TwoTrades == {<<a1, a2>>, <<b1, b2>>}
OneOther == {<<o1, o2>>}
TwoOthers == {<<o1, o2>>, <<o2, o1>>}
MCWaits == {<<o1, o1>>}

\* The two trades may be exchanged, both halves together.
TradeSymmetry ==
  {p \in Permutations({a1, a2, b1, b2}) : <<p[a1], p[a2]>> \in TwoTrades /\ <<p[b1], p[b2]>> \in TwoTrades}
\* So may the two databases, both of which the source feeds.
Symmetry == {p @@ q : p \in TradeSymmetry, q \in Permutations({db1, db2})}
=============================================================================
