---------------------------- MODULE StopAndWait ----------------------------
(***************************************************************************)
(* What the flashing pipeline promises about the progress of a transfer:   *)
(* server and tester go through the image block by block, each block is    *)
(* counted once on either side, and the server is never more than the one  *)
(* block ahead whose answer the tester misses.  UdsFlash implements this   *)
(* specification over a link that loses requests and answers.              *)
(***************************************************************************)
EXTENDS Integers

CONSTANT Image  \* length of the image, in cells

VARIABLES on,     \* a transfer is under way
          wrote,  \* cells that were written,
          acked   \*   and those the tester knows of

transfer == <<on, wrote, acked>>

Init == on = FALSE /\ wrote = 0 /\ acked = 0

\* A download was accepted.
Start == ~on /\ on' = TRUE /\ wrote' = 0 /\ acked' = 0

\* The next block is written; never while the tester misses an answer.
Write ==
  /\ on /\ wrote = acked
  /\ wrote' \in acked + 1..Image
  /\ UNCHANGED <<on, acked>>

\* The tester learns that the block was written.
Confirm == on /\ acked < wrote /\ acked' = wrote /\ UNCHANGED <<on, wrote>>

\* A reboot makes the server forget a block whose answer is lost.
Forget == on /\ acked < wrote /\ wrote' = acked /\ UNCHANGED <<on, acked>>

\* The transfer is completed, or abandoned.
Stop == on /\ on' = FALSE /\ wrote' = 0 /\ acked' = 0

Next == Start \/ Write \/ Confirm \/ Forget \/ Stop

Spec == Init /\ [][Next]_transfer
============================================================================
