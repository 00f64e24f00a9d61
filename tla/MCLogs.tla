-------------------------------- MODULE MCLogs ---------------------------------
(* The three logs, with up to four records, two failures and three files of a *)
(* log that rotates every second, while it is read (MCLogs.cfg).              *)
EXTENDS Logs

AllKinds   == {"rotating", "plain", "gzip"}
OneOrTwo   == {1, 2}
=============================================================================
