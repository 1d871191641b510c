---------------------------- MODULE MCUdsServer ----------------------------
(* Instances of UdsServer for TLC: a VIN of two bytes; payloads that are    *)
(* too short, too long and of the right length; slices inside the record,  *)
(* across its end and before its start.                                    *)
EXTENDS UdsServer

CONSTANTS a, b

MCFactory == <<a, a>>
MCPayloads == {<<a, b>>, <<b, b>>, <<b>>, <<b, a, b>>}
MCSlices == {[position |-> 2, length |-> 1], [position |-> 1, length |-> 2],
             [position |-> 2, length |-> 2], [position |-> 0, length |-> 1]}
============================================================================
