------------------------------- MODULE MCRanges -------------------------------
(* Every kind of range over up to four records with four keys, walked twice   *)
(* while the history is fed (MCRanges.cfg); ranges of the index alone for a    *)
(* claim that fails (MCRangesTree.cfg).                                        *)
EXTENDS Ranges

MCKeys == 1..4
Later  == 9      \* the time of day, later than every record
=============================================================================
