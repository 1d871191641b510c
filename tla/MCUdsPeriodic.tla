--------------------------- MODULE MCUdsPeriodic ---------------------------
(* Instances of UdsPeriodic for TLC: a table of three slots, so that two    *)
(* identifiers can fill it and be registered twice.                         *)
EXTENDS UdsPeriodic
============================================================================
