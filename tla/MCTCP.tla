-------------------------------- MODULE MCTCP ---------------------------------
(* A server and two clients (MCTCP.cfg): one that asks twice, and is answered  *)
(* with two messages and with one, and one that only connects; messages of two *)
(* units that may come in pieces, and one send that a signal cuts.             *)
EXTENDS TCP, TLC

CONSTANTS c1, c2
TwoClients == {c1, c2}
OneAsks    == [c \in TwoClients |-> IF c = c1 THEN 2 ELSE 0]
TwoAndOne  == [c \in TwoClients |-> IF c = c1 THEN 0 :> 0 @@ 1 :> 2 @@ 2 :> 3 ELSE 0 :> 0]
=============================================================================
