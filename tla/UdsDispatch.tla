---------------------------- MODULE UdsDispatch ----------------------------
(***************************************************************************)
(* The request loop of uds_server.c: one RX thread takes a request from    *)
(* the physical or the functional address, notes the addressing in a       *)
(* global, calls one handler, and the handler answers through              *)
(* uds_send_response or uds_send_nrc.  0x14 and 0x31 may accept a request  *)
(* and answer it later, from a timer callback and from the workqueue,      *)
(* while the RX thread handles other requests.                             *)
(*                                                                         *)
(* Handlers that live in modules of their own (UdsSecurity, UdsFlash,      *)
(* UdsAsync, UdsDtc, UdsPeriodic) appear here by the hooks they call and   *)
(* the answers they give.                                                  *)
(***************************************************************************)
EXTENDS Naturals, UdsHooks

CONSTANT None \* no negative response

VARIABLES pc,                     \* control point of the RX thread
          req,                    \* the request it handles
          nrc,                    \* the negative response it is about to send
          current_msg_addressing,
          deferred                \* requests that will be answered later

VARIABLE frames \* history: final answers put on the link for req

dispatch_vars == <<pc, req, nrc, current_msg_addressing, deferred, frames>>

Addressing == {"physical", "functional"}

\* Requests of other modules that end in one call of a hook.
Called ==
  [io |-> "io_control", results |-> "routine_results",
   freeze_frame |-> "get_freeze_frame", key |-> "verify_key",
   download |-> "flash_erase", block |-> "flash_write"]

PhysicalOnly == {"io", "key", "download", "block"}

\* The remaining ones; "other" stands for 0x10, 0x86, 0x37, a seed request and
\* a DTC report, "unknown" for a SID that is not served.
Elsewhere == {"clear", "routine", "periodic", "present", "other", "unknown"}

NoRequest == [sid |-> "unknown", addr |-> "physical"]

\* How their handlers may leave a request: with a positive answer on the way,
\* with a negative one, accepted for later, or in silence.  0x3E may ask for
\* silence; 0x2A keeps silent about a transmission mode it does not know.
Outcomes(r) ==
  CASE r.sid = "unknown" -> {"nrc"}
    [] r.sid = "clear" ->
         IF r.sid \in deferred THEN {"nrc"} ELSE {"nrc", "defer"}
    [] r.sid = "routine" ->
         {"nrc"} \cup IF r.sid \in deferred THEN {} ELSE {"defer"}
    [] r.sid \in {"periodic", "present"} -> {"send", "nrc", "silent"}
    [] OTHER -> {"send", "nrc"}

----------------------------------------------------------------------------
(* The RX thread.                                                          *)

BugReceive(requests) ==
  /\ pc = "recv" /\ pc' = "dispatch"
  /\ req' \in requests
  /\ frames' = 0
  /\ UNCHANGED <<nrc, current_msg_addressing, deferred>>
Receive(requests) ==
  /\ pc = "recv" /\ pc' = "dispatch"
  /\ req' \in requests
  /\ current_msg_addressing' = req'.addr
  /\ frames' = 0
  /\ UNCHANGED <<nrc, deferred>>

\* A handler reaches the point where it answers.
Handled(from, to) ==
  /\ pc = from /\ pc' = to
  /\ UNCHANGED <<req, current_msg_addressing, deferred, frames>>
Answers(from) == Handled(from, "send") /\ UNCHANGED nrc
Refuses(from, code) == Handled(from, "nrc") /\ nrc' = code
Continues(from, to) == Handled(from, to) /\ UNCHANGED nrc

\* uds_process_request returns: what it knew of the request is forgotten.
Done(from) ==
  /\ pc = from /\ pc' = "recv"
  /\ req' = NoRequest /\ nrc' = None
  /\ UNCHANGED current_msg_addressing

\* A malformed request, or one whose session or security is missing.
Malformed ==
  /\ req.sid \notin Elsewhere
  /\ Refuses("dispatch", "0x13")

\* The services of other modules: those that call a hook,
HookService ==
  /\ pc = "dispatch" /\ req.sid \in DOMAIN Called
  /\ IF req.sid \in PhysicalOnly /\ req.addr = "functional"
     THEN Refuses("dispatch", "0x22")
     ELSE \/ Answers("dispatch")
          \/ \E ret \in Errors(Called[req.sid]) :
               \E code \in Refusals(Called[req.sid], ret) :
                 Refuses("dispatch", code)

\* and the others.
Service ==
  /\ req.sid \in Elsewhere
  /\ \E outcome \in Outcomes(req) :
       \/ outcome = "send" /\ Answers("dispatch")
       \/ outcome = "nrc" /\ Refuses("dispatch", "0x22")
       \/ /\ outcome = "silent" /\ Done("dispatch")
          /\ UNCHANGED <<deferred, frames>>
       \/ /\ outcome = "defer" /\ Done("dispatch")
          /\ deferred' = deferred \cup {req.sid}
          /\ UNCHANGED frames

\* uds_send_response; 0x11 goes on after its answer.
SendResponse ==
  /\ IF req.sid = "reset" THEN pc = "send" /\ pc' = "arm" /\ UNCHANGED
          <<req, nrc, current_msg_addressing>>
     ELSE Done("send")
  /\ frames' = frames + 1
  /\ UNCHANGED deferred

\* uds_send_nrc keeps silent on the functional address, except for 0x78.
Suppressed(code) == current_msg_addressing = "functional" /\ code # "0x78"

\* uds_send_nrc on behalf of the request at hand.
SendNrc ==
  /\ Done("nrc")
  /\ frames' = IF Suppressed(nrc) \/ nrc = "0x78" THEN frames ELSE frames + 1
  /\ UNCHANGED deferred

----------------------------------------------------------------------------
(* Answers from elsewhere.  The timer callbacks send only 0x78 meanwhile,  *)
(* which uds_send_nrc passes on whatever request is being handled: that    *)
(* changes nothing here.                                                   *)

DeferredAnswer ==
  /\ \E sid \in deferred : deferred' = deferred \ {sid}
  /\ UNCHANGED <<pc, req, nrc, current_msg_addressing, frames>>

----------------------------------------------------------------------------
\* A reboot loses the request that is being handled and the deferred ones.
DispatchRestart ==
  /\ pc # "boot" /\ pc' = "boot"
  /\ req' = NoRequest /\ nrc' = None /\ current_msg_addressing' = "physical"
  /\ deferred' = {} /\ frames' = 0

\* The threads start.
Started == Continues("boot", "recv")

DispatchInit ==
  /\ pc = "boot" /\ req = NoRequest
  /\ nrc = None /\ current_msg_addressing = "physical"
  /\ deferred = {} /\ frames = 0
=============================================================================
