-------------------------- MODULE DurableRegister --------------------------
(***************************************************************************)
(* What the VIN storage promises to testers: one register that survives    *)
(* power losses.  A write takes effect at one moment, before it is         *)
(* confirmed; a read delivers the value of that moment; and nothing else   *)
(* changes the value, a crash least of all.  UdsServer implements this     *)
(* specification with an NVS entry, its mirror in RAM, and a factory       *)
(* default under both.                                                     *)
(***************************************************************************)
CONSTANTS Values, Factory

VARIABLES value,
          unanswered, \* a write took effect and is not confirmed yet
          answer      \* the answer on its way, with the value it stands for

register == <<value, unanswered, answer>>

Init == value = Factory /\ unanswered = FALSE /\ answer = <<>>

Write ==
  /\ ~unanswered /\ answer = <<>>
  /\ value' \in Values /\ unanswered' = TRUE
  /\ UNCHANGED answer

ConfirmWrite ==
  /\ unanswered
  /\ answer' = <<"write", value>> /\ unanswered' = FALSE
  /\ UNCHANGED value

Read ==
  /\ ~unanswered /\ answer = <<>>
  /\ answer' = <<"read", value>>
  /\ UNCHANGED <<value, unanswered>>

Sent == answer # <<>> /\ answer' = <<>> /\ UNCHANGED <<value, unanswered>>

\* Whoever waited for an answer gets none.
Crash == unanswered' = FALSE /\ answer' = <<>> /\ UNCHANGED value

Next == Write \/ ConfirmWrite \/ Read \/ Sent \/ Crash

Spec == Init /\ [][Next]_register
=============================================================================
