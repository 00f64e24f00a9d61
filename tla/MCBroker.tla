------------------------------- MODULE MCBroker -------------------------------
(* Broker for one bot whose clock goes on between decisions and leaves the    *)
(* amounts to the broker (MCBrokerAccount.cfg), and for several bots that may *)
(* decide at the same time and give amounts, on two databases and a memory    *)
(* (MCBrokerCrash.cfg).                                                       *)
EXTENDS Broker

OneMemory  == {1}
MCPrices   == {1, 2, 3}
NoAmount   == {}
=============================================================================
