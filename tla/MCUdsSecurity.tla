--------------------------- MODULE MCUdsSecurity ---------------------------
(* Instances of UdsSecurity for TLC; the bounds are in the .cfg files. *)
EXTENDS UdsSecurity
============================================================================
