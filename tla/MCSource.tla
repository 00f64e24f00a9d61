------------------------------- MODULE MCSource -------------------------------
(* Source with two orders and no history (MCSourceBook.cfg): every interleaving *)
(* of callbacks and cleanup passes; with two histories (MCSourceFan.cfg): the  *)
(* walks over _histories.                                                      *)
EXTENDS Source

MCOrderIds == {1, 2}
MCTimes    == 1..3
MCFanTimes == {1}
MCHistories == {1, 2}
MCNoHistories == {}
=============================================================================
