------------------------------ MODULE UdsReset ------------------------------
(***************************************************************************)
(* ECUReset (0x11, uds_reset.c): the reset type is stored, the request is  *)
(* answered, and a timer is started whose callback reboots 50 ms later.    *)
(* Until then the RX thread goes on serving requests, another 0x11 too.    *)
(***************************************************************************)
EXTENDS UdsDispatch

VARIABLES chosen_reset_type,
          reset_timer  \* is it running?

\* History: the reset types confirmed since the last boot.
VARIABLE announced

reset_vars == <<chosen_reset_type, reset_timer, announced>>

ResetRequests ==
  [sid : {"reset"}, addr : Addressing, type : {"COLD", "WARM", "other"}]

ResetTypes == {"COLD", "WARM"}

\* hardReset and softReset are confirmed, other types refused.
BugReset ==
  /\ pc = "dispatch" /\ req.sid = "reset"
  /\ \/ /\ req.type \in ResetTypes /\ chosen_reset_type' = req.type
        /\ Answers("dispatch")
        /\ reset_timer' = TRUE /\ UNCHANGED announced
     \/ /\ req.type \notin ResetTypes /\ Refuses("dispatch", "0x12")
        /\ UNCHANGED reset_vars
Reset ==
  /\ pc = "dispatch" /\ req.sid = "reset"
  /\ \/ /\ req.type \in ResetTypes /\ chosen_reset_type' = req.type
        /\ Answers("dispatch")
        /\ UNCHANGED <<reset_timer, announced>>
     \/ /\ req.type \notin ResetTypes /\ Refuses("dispatch", "0x12")
        /\ UNCHANGED reset_vars

\* The confirmation is on the link.
Announce ==
  /\ announced' = IF req.sid = "reset" THEN announced \cup {req.type}
                                       ELSE announced
  /\ UNCHANGED <<chosen_reset_type, reset_timer>>

\* k_timer_start, which restarts a timer that is running.
BugArm == Continues("arm", "recv") /\ UNCHANGED reset_vars
Arm ==
  /\ Continues("arm", "recv")
  /\ reset_timer' = TRUE
  /\ UNCHANGED <<chosen_reset_type, announced>>

ResetRestart ==
  /\ chosen_reset_type' = "COLD" /\ reset_timer' = FALSE /\ announced' = {}

ResetInit ==
  /\ chosen_reset_type = "COLD" /\ reset_timer = FALSE /\ announced = {}
=============================================================================
