----------------------------- MODULE UdsServer -----------------------------
(***************************************************************************)
(* The server as its testers see it: the request loop (UdsDispatch) with   *)
(* the data services (UdsData) and ECUReset (UdsReset) in it, answers of   *)
(* deferred requests in between, and reboots, by the reset timer or by a   *)
(* power loss, at any moment.                                              *)
(***************************************************************************)
EXTENDS UdsData, UdsReset

vars == <<dispatch_vars, data_vars, reset_vars>>

Requests ==
  [sid : Elsewhere \cup DOMAIN Called, addr : Addressing]
    \cup ReadRequests \cup WriteRequests \cup DefineRequests \cup ResetRequests

\* What the RX thread does with a request once it has one.
Handle ==
  \/ /\ Malformed \/ HookService \/ Service \/ SendNrc
     /\ UNCHANGED <<data_vars, reset_vars>>
  \/ /\ Define \/ ReadDynamic \/ ReadRecord \/ ReadApp
        \/ WriteRefused \/ Persist \/ Mirror
     /\ UNCHANGED reset_vars
  \/ /\ Reset \/ Arm
     /\ UNCHANGED data_vars
  \/ SendResponse /\ Confirm /\ Announce

Deferred == DeferredAnswer /\ UNCHANGED <<data_vars, reset_vars>>

Reboot == DispatchRestart /\ DataRestart /\ ResetRestart

\* reset_timer_expiry_cb: sys_reboot.
ResetExpiry == reset_timer /\ Reboot

\* uds_init.
Boot == Started /\ Load /\ UNCHANGED reset_vars

Init == DispatchInit /\ DataInit /\ ResetInit

Next ==
  \/ Receive(Requests) /\ UNCHANGED <<data_vars, reset_vars>>
  \/ Handle \/ Deferred
  \/ Boot \/ ResetExpiry \/ Reboot

Spec == Init /\ [][Next]_vars

Rearmed == []<><<Arm>>_vars

\* The RX thread is scheduled, hooks and transmissions end.  The reset timer
\* expires unless requests keep restarting it.
Fairness ==
  /\ WF_vars(Boot) /\ WF_vars(Handle)
  /\ Rearmed \/ WF_vars(ResetExpiry)

FairSpec == Spec /\ Fairness

----------------------------------------------------------------------------
(* The refinement of DurableRegister: the value is the NVS entry's, and    *)
(* takes effect when the entry is written.                                 *)

VinAnswer ==
  CASE pc = "send" /\ req.sid = "write" -> <<"write", req.data>>
    [] pc = "send" /\ req.sid = "read" /\ ~Defined(req.did) -> <<"read", payload>>
    [] OTHER -> <<>>

Storage == INSTANCE DurableRegister WITH
  Values <- Vins, Factory <- FACTORY,
  value <- Recovered(nvs_vin), unanswered <- pc = "mirror", answer <- VinAnswer

----------------------------------------------------------------------------
(* Properties.                                                             *)

\* Every variable keeps its type.
TypeOK ==
  /\ pc \in {"boot", "recv", "dispatch", "read_app", "mirror",
             "send", "nrc", "arm"}
  /\ req \in Requests
  /\ nrc \in {"0x12", "0x13", "0x22", "0x31", "0x35", "0x36",
              "0x70", "0x71", "0x78", None}
  /\ current_msg_addressing \in Addressing
  /\ deferred \subseteq {"clear", "routine"}
  /\ frames \in 0..1
  /\ vehicle_vin \in Vins
  /\ nvs_vin \in Vins \cup {Absent}
  /\ dyn_map \in [did : Dids, position : Nat, length : Nat] \cup {Absent}
  /\ payload \in Seq(Bytes \cup {Junk})
  /\ confirmed \in Vins /\ doubt \subseteq Vins
  /\ chosen_reset_type \in ResetTypes /\ reset_timer \in BOOLEAN
  /\ announced \subseteq ResetTypes

\* The request ends without a final answer: refused on the functional address
\* (current_msg_addressing must be this request's), put off to a worker, sent
\* with the suppress bit, or one of two gaps of the code, 0x22 whose hook runs
\* out of memory and 0x2A with an unknown transmission mode.
Silent ==
  \/ pc = "nrc" /\ (req.addr = "functional" \/ nrc = "0x78")
  \/ /\ pc = "dispatch"
     /\ req.sid \in deferred' \cup {"present", "periodic"}

\* uds_server.c, uds_process_request: every request gets exactly one final
\* answer, except in the cases of Silent, and gets none in those.
AnsweredOnce ==
  [][pc \notin {"boot", "recv"} /\ pc' = "recv" =>
       frames' = IF Silent THEN 0 ELSE 1]_vars

\* The VIN in force is the one testers were told last, unless a reboot cut a
\* later write off; and mirror and NVS entry agree whenever no write is under
\* way.  Failing writes, resets and power losses included.
VinDurable ==
  pc \notin {"boot", "mirror"} =>
    /\ vehicle_vin = Recovered(nvs_vin)
    /\ \/ vehicle_vin \in {confirmed} \cup doubt
       \/ pc = "send" /\ req.sid = "write" /\ vehicle_vin = req.data

\* To testers the VIN is one register: whatever was written is read until the
\* next write takes effect, through every power loss, failed write and default,
\* although 0x22 reads the mirror and only the NVS entry survives.
VinIsRegister == Storage!Spec

\* A slice defined within the record reads that part of the VIN on record, or
\* nothing when the source cannot be read: never an older VIN, a mixture, or
\* bytes of something else, although the copy is made from the mirror, and
\* definition, write, failure and reboot come in any order.
DynamicReadsCurrent ==
  pc = "send" /\ req.sid = "read" /\ Defined(req.did)
    /\ dyn_map.position \in 1..VIN_SIZE
    /\ dyn_map.position + dyn_map.length - 1 <= VIN_SIZE =>
      payload \in {<<>>, SubSeq(Recovered(nvs_vin), dyn_map.position,
                               dyn_map.position + dyn_map.length - 1)}

\* uds_reset.c:83: the reset timer never runs before a reset was confirmed,
\* and it reboots with a type that was confirmed, or with that of a further
\* 0x11 whose confirmation is just being sent.
ResetAnnounced ==
  reset_timer =>
    /\ announced # {}
    /\ \/ chosen_reset_type \in announced
       \/ pc = "send" /\ req.sid = "reset"

\* A confirmed reset happens, whatever else is requested in its 50 ms, unless
\* testers keep asking for resets faster than that.
ResetHappens == (announced # {} ~> pc = "boot") \/ Rearmed
============================================================================
