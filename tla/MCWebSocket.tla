----------------------------- MODULE MCWebSocket ------------------------------
(* A client with two channels that is started twice, and a server that sends   *)
(* up to two frames on each connection (MCWebSocket.cfg).                      *)
EXTENDS WebSocket
=============================================================================
