----------------------------- MODULE MCUdsFlash -----------------------------
(* Instances of UdsFlash for TLC.  Two download areas that overlap, an image *)
(* of three cells, and a block counter that wraps within the image.          *)
EXTENDS UdsFlash

MCBases == {0, 2}
=============================================================================
