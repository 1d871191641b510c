----------------------------- MODULE MCUdsAsync -----------------------------
(* Instances of UdsAsync for TLC; the identifiers are model values. *)
EXTENDS UdsAsync
=============================================================================
