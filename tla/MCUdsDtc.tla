------------------------------ MODULE MCUdsDtc ------------------------------
(* Instances of UdsDtc for TLC: two entries, a group with one of them and    *)
(* one with both.                                                            *)
EXTENDS UdsDtc

CONSTANTS g1, g2, failed, confirmed

MCAffected == [g \in Groups |-> IF g = g1 THEN {0} ELSE {0, 1}]
MCStatuses == {{confirmed}, {failed, confirmed}}
MCMasks == {{failed}, {failed, confirmed}}
=============================================================================
