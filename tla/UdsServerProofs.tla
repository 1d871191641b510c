-------------------------- MODULE UdsServerProofs --------------------------
(***************************************************************************)
(* Theorems about UdsServer for every length of the VIN, every alphabet,   *)
(* all payloads and slices, with a file system and without.                *)
(***************************************************************************)
EXTENDS UdsServer, TLAPS, SequenceTheorems

InForce == {confirmed} \cup doubt

\* What the RX thread knows of its request at each control point.
Control ==
  /\ pc \notin {"boot", "recv"} =>
       /\ current_msg_addressing = req.addr
       /\ frames = IF pc = "arm" THEN 1 ELSE 0
  /\ pc = "read_app" => req.sid = "read" /\ ~Defined(req.did)
  /\ pc = "mirror" => req.sid = "write"
  /\ pc = "arm" => req.sid = "reset"

\* Mirror, entry and history while a write is under way and after a reboot.
VinTie ==
  /\ ~HasNvs => nvs_vin = Absent
  /\ pc = "boot" => Recovered(nvs_vin) \in InForce
  /\ pc = "mirror" => vehicle_vin \in InForce
  /\ pc = "mirror" \/ (pc = "send" /\ req.sid = "write") =>
       nvs_vin = req.data /\ req.data \in Payloads /\ Len(req.data) = VIN_SIZE

\* The stored reset type is that of the last confirmation, or of the next.
ResetTie ==
  /\ pc = "arm" => announced # {}
  /\ announced # {} =>
       chosen_reset_type \in announced \/ (pc = "send" /\ req.sid = "reset")
  /\ pc = "send" /\ req.sid = "reset" => chosen_reset_type = req.type

Inv == /\ TypeOK /\ VinDurable /\ DynamicReadsCurrent /\ ResetAnnounced
       /\ Control /\ VinTie /\ ResetTie

----------------------------------------------------------------------------
(* Requests and records.                                                   *)

LEMMA RequestFacts ==
  ASSUME NEW r \in Requests
  PROVE  /\ r.addr \in Addressing
         /\ r.sid = "write" => r.data \in Payloads
         /\ r.sid = "read" => r.did \in Dids
         /\ r.sid = "define" => r.did \in Dids /\ r.slice \in Slices
         /\ r.sid = "reset" => r.type \in {"COLD", "WARM", "other"}
BY SMT DEF Requests, Elsewhere, Called, ReadRequests, WriteRequests,
   DefineRequests, ResetRequests

\* A payload of the right length is a VIN, and is recovered as it is.
LEMMA WholeVin ==
  ASSUME NEW data \in Payloads, Len(data) = VIN_SIZE
  PROVE  /\ data \in Vins /\ Recovered(data) = data
         /\ [k \in 1..VIN_SIZE |-> data[k]] = data
<1>1. data \in Seq(Bytes) /\ data # Absent
  BY DataAssumption
<1>2. data \in [1..VIN_SIZE -> Bytes]
  BY <1>1, LenProperties
<1>3. [k \in 1..VIN_SIZE |-> data[k]] = data
  BY <1>2
<1>4. Recovered(data) = [k \in 1..VIN_SIZE |-> data[k]]
  BY <1>1, DataAssumption, SMT DEF Recovered
<1> QED BY <1>2, <1>3, <1>4 DEF Vins

LEMMA RecoveredVin ==
  ASSUME NEW entry \in Vins \cup {Absent}
  PROVE  Recovered(entry) \in Vins
<1>1. CASE entry = Absent
  BY <1>1, DataAssumption DEF Recovered, Vins
<1>2. CASE entry # Absent
  <2>1. \A k \in 1..VIN_SIZE : entry[k] \in Bytes /\ FACTORY[k] \in Bytes
    BY <1>2, DataAssumption DEF Vins
  <2> QED BY <1>2, <2>1, Zenon DEF Recovered, Vins
<1> QED BY <1>1, <1>2

\* Whatever is asked for, a slice is a sequence of record bytes and Junk.
LEMMA SliceTyped ==
  ASSUME NEW vin \in Vins, NEW position \in Nat, NEW length \in Nat
  PROVE  Slice(vin, position, length) \in Seq(Bytes \cup {Junk})
<1>1. DOMAIN vin = 1..VIN_SIZE /\ \A k \in 1..VIN_SIZE : vin[k] \in Bytes
  BY DEF Vins
<1>2. Slice(vin, position, length) \in [1..length -> Bytes \cup {Junk}]
  BY <1>1, Zenon DEF Slice
<1> QED BY <1>2, SeqDef

\* Inside the record it is that part of the record, counted from 1.
LEMMA SliceInside ==
  ASSUME NEW vin \in Vins, NEW position \in 1..VIN_SIZE, NEW length \in Nat,
         position + length - 1 <= VIN_SIZE
  PROVE  Slice(vin, position, length)
           = SubSeq(vin, position, position + length - 1)
<1> DEFINE last == position + length - 1
<1> USE DataAssumption
<1>1. DOMAIN vin = 1..VIN_SIZE /\ \A k \in 1..VIN_SIZE : vin[k] \in Bytes
  BY DEF Vins
<1>2. position \in Int /\ last \in Int /\ \A k \in position..last : k \in 1..VIN_SIZE
  BY SMT
<1>3. last - position + 1 = length
      /\ (IF position <= last THEN last - position + 1 ELSE 0) = length
  BY SMT
<1> HIDE DEF last
<1>4. /\ SubSeq(vin, position, last) \in Seq(Bytes)
      /\ Len(SubSeq(vin, position, last)) = length
      /\ \A k \in 1..length :
           SubSeq(vin, position, last)[k] = vin[position + k - 1]
  BY <1>1, <1>2, <1>3, SubSeqProperties
<1>5. SubSeq(vin, position, last) \in [1..length -> Bytes]
  BY <1>4, LenProperties
<1>6. \A k \in 1..length : position + k - 1 \in DOMAIN vin
  BY <1>1, SMT
<1>7. Slice(vin, position, length) = [k \in 1..length |-> vin[position + k - 1]]
  BY <1>6, Zenon DEF Slice
<1>8. Slice(vin, position, length) = SubSeq(vin, position, last)
  BY <1>4, <1>5, <1>7
<1> QED BY <1>8 DEF last

----------------------------------------------------------------------------
(* The steps.                                                              *)

USE DataAssumption
    DEF vars, dispatch_vars, data_vars, reset_vars,
        Handled, Answers, Refuses, Continues, Defined, Done

\* The SMT backend does not see this by itself.
LEMMA FalseIsBoolean == \A b : b = FALSE => b \in BOOLEAN
BY Zenon

LEMMA InitInv == Init => Inv
<1> SUFFICES ASSUME Init PROVE Inv
  OBVIOUS
<1>1. <<>> \in Seq(Bytes \cup {Junk})
  BY EmptySeq
<1>2. NoRequest \in Requests
  BY SMT DEF NoRequest, Requests, Elsewhere, Addressing
<1>3. Recovered(Absent) = FACTORY
  BY DEF Recovered
<1>4. TypeOK
  BY <1>1, <1>2, FalseIsBoolean, SMT DEF Init, DispatchInit, DataInit,
    ResetInit, Vins,
     Addressing, ResetTypes, TypeOK
<1> QED
  BY <1>3, <1>4, SMT DEF Init, DispatchInit, DataInit, ResetInit, Inv,
     VinDurable, DynamicReadsCurrent, ResetAnnounced, Control, VinTie, ResetTie, InForce

\* The control points.
LEMMA ControlInv ==
  ASSUME Inv, [Next]_vars
  PROVE  Control'
<1> USE DEF Inv, TypeOK, Control
<1>1. CASE Receive(Requests)
  BY <1>1, SMT DEF Receive
<1>2. CASE Malformed \/ WriteRefused \/ ReadRecord \/ Mirror
  BY <1>2, SMT DEF Malformed, WriteRefused, ReadRecord, Mirror
<1>3. CASE HookService
  BY <1>3, SMT DEF HookService
<1>4. CASE Service
  BY <1>4, SMT DEF Service
<1>5. CASE SendNrc
  BY <1>5, SMT DEF SendNrc
<1>6. CASE SendResponse
  BY <1>6, SMT DEF SendResponse
<1>7. CASE Define \/ ReadDynamic \/ ReadApp \/ Persist
  BY <1>7, SMT DEF Define, ReadDynamic, ReadApp, Persist
<1>8. CASE Reset \/ Arm
  BY <1>8, SMT DEF Reset, Arm
<1>9. CASE Deferred
  BY <1>9, SMT DEF Deferred, DeferredAnswer
<1>10. CASE Boot \/ Reboot
  BY <1>10, SMT DEF Boot, Started, Reboot, DispatchRestart
<1>11. CASE UNCHANGED vars
  BY <1>11
<1> QED
  BY <1>1, <1>2, <1>3, <1>4, <1>5, <1>6, <1>7, <1>8, <1>9, <1>10, <1>11
     DEF Next, Handle, ResetExpiry

\* The reset type and its timer.
LEMMA ResetInv ==
  ASSUME Inv, [Next]_vars
  PROVE  ResetAnnounced' /\ ResetTie'
<1> USE DEF Inv, TypeOK, Control, ResetAnnounced, ResetTie
<1>1. CASE Receive(Requests) /\ UNCHANGED reset_vars
  BY <1>1, SMT DEF Receive
<1>2. CASE (Malformed \/ HookService \/ Service \/ SendNrc)
             /\ UNCHANGED reset_vars
  BY <1>2, SMT DEF Malformed, HookService, Service, SendNrc, Called, Elsewhere
<1>3. CASE (Define \/ ReadDynamic \/ ReadRecord \/ ReadApp
              \/ WriteRefused \/ Persist \/ Mirror) /\ UNCHANGED reset_vars
  BY <1>3, SMT DEF Define, ReadDynamic, ReadRecord, ReadApp, WriteRefused,
     Persist, Mirror
<1>4. CASE Reset
  BY <1>4, SMT DEF Reset
<1>5. CASE Arm
  BY <1>5, SMT DEF Arm
<1>6. CASE SendResponse /\ Announce
  <2>1. CASE req.sid = "reset"
    BY <1>6, <2>1, Zenon DEF SendResponse, Announce
  <2>2. CASE req.sid # "reset"
    BY <1>6, <2>2, Zenon DEF SendResponse, Announce
  <2> QED BY <2>1, <2>2
<1>7. CASE Deferred
  BY <1>7, SMT DEF Deferred, DeferredAnswer
<1>8. CASE Boot
  BY <1>8, SMT DEF Boot, Started
<1>9. CASE Reboot
  BY <1>9, SMT DEF Reboot, ResetRestart, DispatchRestart
<1>10. CASE UNCHANGED vars
  BY <1>10
<1> QED
  BY <1>1, <1>2, <1>3, <1>4, <1>5, <1>6, <1>7, <1>8, <1>9, <1>10
     DEF Next, Handle, ResetExpiry

\* The VIN, its entry, and what the testers know of them.
LEMMA VinInv ==
  ASSUME Inv, [Next]_vars
  PROVE  VinDurable' /\ VinTie'
<1> USE DEF Inv, TypeOK, VinDurable, VinTie, InForce
<1>1. CASE Receive(Requests) /\ UNCHANGED data_vars
  BY <1>1, SMT DEF Receive
<1>2. CASE (Malformed \/ HookService \/ Service \/ SendNrc \/ Reset \/ Arm)
             /\ UNCHANGED data_vars
  BY <1>2, SMT DEF Malformed, HookService, Service, SendNrc, Called, Elsewhere,
     Reset, Arm
<1>3. CASE Define
  BY <1>3, SMT DEF Define
<1>4. CASE ReadDynamic \/ ReadRecord \/ ReadApp
  BY <1>4, SMT DEF ReadDynamic, ReadRecord, ReadApp, Control
<1>5. CASE WriteRefused
  BY <1>5, SMT DEF WriteRefused
<1>6. CASE Persist
  BY <1>6, RequestFacts, SMT DEF Persist, LengthTest
<1>7. CASE Mirror
  <2>1. Recovered(req.data) = req.data /\ vehicle_vin' = req.data
    BY <1>7, WholeVin DEF Mirror
  <2> QED BY <1>7, <2>1, SMT DEF Mirror, Control
<1>8. CASE SendResponse /\ Confirm
  BY <1>8, SMT DEF SendResponse, Confirm, NoRequest
<1>9. CASE Deferred
  BY <1>9, SMT DEF Deferred, DeferredAnswer
<1>10. CASE Boot
  BY <1>10, SMT DEF Boot, Started, Load, Recovered
<1>11. CASE Reboot
  BY <1>11, SMT DEF Reboot, DispatchRestart, DataRestart
<1>12. CASE UNCHANGED vars
  BY <1>12
<1> QED
  BY <1>1, <1>2, <1>3, <1>4, <1>5, <1>6, <1>7, <1>8, <1>9, <1>10, <1>11, <1>12
     DEF Next, Handle, ResetExpiry

\* What a dynamic identifier delivers.
LEMMA ReadsInv ==
  ASSUME Inv, [Next]_vars
  PROVE  DynamicReadsCurrent'
<1> SUFFICES ASSUME pc' = "send", req'.sid = "read", dyn_map' # Absent,
                    dyn_map'.did = req'.did,
                    dyn_map'.position \in 1..VIN_SIZE,
                    dyn_map'.position + dyn_map'.length - 1 <= VIN_SIZE
             PROVE  payload' \in
                      {<<>>, SubSeq(Recovered(nvs_vin'), dyn_map'.position,
                               dyn_map'.position + dyn_map'.length - 1)}
  BY Zenon DEF DynamicReadsCurrent, Defined, Recovered
<1>1. CASE ReadDynamic
  <2>1. /\ vehicle_vin = Recovered(nvs_vin) /\ vehicle_vin \in Vins
        /\ UNCHANGED <<dyn_map, nvs_vin>>
    BY <1>1, SMT DEF ReadDynamic, Inv, TypeOK, VinDurable
  <2>2. dyn_map.length \in Nat
    BY <1>1 DEF ReadDynamic, Inv, TypeOK
  <2>3. payload' \in {Slice(vehicle_vin, dyn_map.position, dyn_map.length), <<>>}
    BY <1>1 DEF ReadDynamic
  <2> QED BY <2>1, <2>2, <2>3, SliceInside
<1>2. CASE pc = "send" /\ UNCHANGED <<req, data_vars>>
  BY <1>2, Zenon DEF Inv, DynamicReadsCurrent, Defined
<1>3. CASE (Malformed \/ HookService \/ Service) /\ UNCHANGED data_vars
  BY <1>3, SMT DEF Malformed, HookService, Service, Called, Elsewhere
<1>4. CASE ReadApp
  BY <1>4, SMT DEF ReadApp, Inv, Control
<1>5. CASE Define \/ Mirror \/ Reset
  BY <1>5, SMT DEF Define, Mirror, Reset, Inv, Control
<1>6. CASE \/ Receive(Requests) \/ SendNrc \/ SendResponse \/ ReadRecord
           \/ WriteRefused \/ Persist \/ Arm \/ Boot \/ Reboot
  BY <1>6, SMT DEF Receive, SendNrc, SendResponse, ReadRecord, WriteRefused,
     Persist, Arm, Boot, Started, Reboot, DispatchRestart
<1>7. CASE Deferred
  <2>1. pc = "send" /\ UNCHANGED <<req, data_vars>>
    BY <1>7 DEF Deferred, DeferredAnswer
  <2> QED BY <1>2, <2>1
<1>8. CASE UNCHANGED vars
  <2>1. pc = "send" /\ UNCHANGED <<req, data_vars>>
    BY <1>8
  <2> QED BY <1>2, <2>1
<1> QED
  BY <1>1, <1>3, <1>4, <1>5, <1>6, <1>7, <1>8 DEF Next, Handle, ResetExpiry

\* The negative responses of the modelled services, and of the others.
Codes == {"0x12", "0x13", "0x22", "0x31", "0x35", "0x36", "0x70", "0x71", "0x78",
          None}

LEMMA CodesOfHooks ==
  /\ \A ret : ReadNrc(ret) \in Codes /\ WriteNrc(ret) \in Codes
  /\ \A sid \in DOMAIN Called :
       \A ret : Refusals(Called[sid], ret) \subseteq Codes
<1>1. \A ret : ReadNrc(ret) \in Codes /\ WriteNrc(ret) \in Codes
  BY SMT DEF ReadNrc, WriteNrc, Codes
<1>2. DOMAIN Called = {"io", "results", "freeze_frame", "key", "download",
                       "block"}
  BY SMT DEF Called
<1>3. ASSUME NEW sid \in DOMAIN Called, NEW ret
      PROVE  Refusals(Called[sid], ret) \subseteq Codes
  <2>1. Called[sid] \in {"io_control", "routine_results", "get_freeze_frame",
                        "verify_key", "flash_erase", "flash_write"}
    BY <1>2, SMT DEF Called
  <2> QED BY <1>1, <2>1, SMT DEF Refusals, Codes
<1> QED BY <1>1, <1>3

\* The type invariant, module by module.
DispatchTypeOK ==
  /\ pc \in {"boot", "recv", "dispatch", "read_app", "mirror",
             "send", "nrc", "arm"}
  /\ req \in Requests /\ nrc \in Codes /\ current_msg_addressing \in Addressing
  /\ deferred \subseteq {"clear", "routine"}
  /\ frames \in 0..1

DataTypeOK ==
  /\ vehicle_vin \in Vins /\ nvs_vin \in Vins \cup {Absent}
  /\ dyn_map \in [did : Dids, position : Nat, length : Nat] \cup {Absent}
  /\ payload \in Seq(Bytes \cup {Junk})
  /\ confirmed \in Vins /\ doubt \subseteq Vins

ResetTypeOK ==
  /\ chosen_reset_type \in ResetTypes /\ reset_timer \in BOOLEAN
  /\ announced \subseteq ResetTypes

LEMMA TypeParts ==
  TypeOK <=> DispatchTypeOK /\ DataTypeOK /\ ResetTypeOK
BY DEF TypeOK, DispatchTypeOK, DataTypeOK, ResetTypeOK, Codes

LEMMA DispatchTypeInv ==
  ASSUME Inv, [Next]_vars
  PROVE  DispatchTypeOK'
<1>1. DispatchTypeOK /\ Control
  BY TypeParts DEF Inv
<1>2. NoRequest \in Requests
  BY SMT DEF NoRequest, Requests, Elsewhere, Addressing
<1> USE DEF DispatchTypeOK
<1>3. CASE Receive(Requests)
  BY <1>1, <1>3, RequestFacts, SMT DEF Receive
<1>4. CASE Malformed
  BY <1>1, <1>4, SMT DEF Malformed, Codes
<1>5. CASE HookService
  <2>1. nrc' \in Codes
    BY <1>1, <1>5, CodesOfHooks, SMT DEF HookService, Codes
  <2> QED BY <1>1, <1>5, <2>1, Zenon DEF HookService
<1>6. CASE Service
  BY <1>1, <1>2, <1>6, SMT DEF Service, Outcomes, Codes
<1>7. CASE SendNrc
  BY <1>1, <1>2, <1>7, SMT DEF SendNrc, Codes, Control
<1>8. CASE Define \/ ReadDynamic \/ ReadRecord \/ Mirror
  BY <1>1, <1>8, Zenon DEF Define, ReadDynamic, ReadRecord, Mirror
<1>9. CASE ReadApp \/ WriteRefused \/ Persist
  <2>1. nrc' \in Codes
    BY <1>1, <1>9, CodesOfHooks, Zenon DEF ReadApp, WriteRefused, Persist
  <2> QED BY <1>1, <1>9, <2>1, Zenon DEF ReadApp, WriteRefused, Persist
<1>10. CASE Reset \/ Arm
  BY <1>1, <1>10, Zenon DEF Reset, Arm, Codes
<1>11. CASE SendResponse
  BY <1>1, <1>2, <1>11, SMT DEF SendResponse, Codes, Control
<1>12. CASE Deferred
  BY <1>1, <1>12, Zenon DEF Deferred, DeferredAnswer
<1>13. CASE Boot
  BY <1>1, <1>13, Zenon DEF Boot, Started
<1>15. CASE Reboot
  <2>1. 0 \in 0..1 /\ "physical" \in Addressing /\ None \in Codes
    BY SMT DEF Addressing, Codes
  <2> QED BY <1>1, <1>2, <1>15, <2>1, Zenon DEF Reboot, DispatchRestart
<1>14. CASE UNCHANGED vars
  BY <1>1, <1>14, Zenon
<1> QED
  BY <1>3, <1>4, <1>5, <1>6, <1>7, <1>8, <1>9, <1>10, <1>11, <1>12, <1>13,
     <1>14, <1>15 DEF Next, Handle, ResetExpiry

LEMMA DataTypeInv ==
  ASSUME Inv, [Next]_vars
  PROVE  DataTypeOK'
<1>1. /\ DataTypeOK /\ VinTie /\ req \in Requests
      /\ <<>> \in Seq(Bytes \cup {Junk})
  BY TypeParts, EmptySeq DEF Inv, DispatchTypeOK
<1> USE DEF DataTypeOK
<1>2. CASE UNCHANGED data_vars
  BY <1>1, <1>2, Zenon
<1>3. CASE Define
  <2>1. req.did \in Dids /\ req.slice \in [position : Nat, length : Nat]
    BY <1>1, <1>3, RequestFacts, Zenon DEF Define
  <2>2. dyn_map' \in [did : Dids, position : Nat, length : Nat]
    BY <1>3, <2>1, SMT DEF Define
  <2> QED BY <1>1, <1>3, <2>2, Zenon DEF Define
<1>4. CASE ReadDynamic
  <2>1. dyn_map \in [did : Dids, position : Nat, length : Nat]
    BY <1>1, <1>4 DEF ReadDynamic
  <2>2. payload' \in Seq(Bytes \cup {Junk})
    <3>1. Slice(vehicle_vin, dyn_map.position, dyn_map.length)
            \in Seq(Bytes \cup {Junk})
      BY <1>1, <2>1, SliceTyped
    <3> QED BY <1>1, <1>4, <3>1, Zenon DEF ReadDynamic
  <2> QED BY <1>1, <1>4, <2>2, Zenon DEF ReadDynamic
<1>5. CASE ReadApp
  <2>1. Vins \subseteq Seq(Bytes \cup {Junk})
    <3>1. Vins \subseteq [1..VIN_SIZE -> Bytes \cup {Junk}]
      BY Zenon DEF Vins
    <3> QED BY <3>1, SeqDef
  <2>2. payload' \in Seq(Bytes \cup {Junk})
    BY <1>1, <1>5, <2>1, Zenon DEF ReadApp
  <2> QED BY <1>1, <1>5, <2>2, Zenon DEF ReadApp
<1>6. CASE Persist
  <2>1. nvs_vin' \in Vins \cup {Absent}
    BY <1>1, <1>6, RequestFacts, WholeVin, SMT DEF Persist, LengthTest
  <2> QED BY <1>1, <1>6, <2>1, Zenon DEF Persist
<1>7. CASE Mirror
  <2>1. vehicle_vin' \in Vins
    BY <1>1, <1>7, WholeVin DEF Mirror, VinTie
  <2> QED BY <1>1, <1>7, <2>1, Zenon DEF Mirror
<1>8. CASE Confirm
  BY <1>1, <1>8, Zenon DEF Confirm
<1>9. CASE Boot
  <2>1. vehicle_vin' \in Vins
    BY <1>1, <1>9, RecoveredVin DEF Boot, Load, Vins
  <2> QED BY <1>1, <1>9, <2>1, Zenon DEF Boot, Load
<1>10. CASE Reboot
  <2>1. doubt' \subseteq Vins
    BY <1>1, <1>10, WholeVin, SMT DEF Reboot, DataRestart, VinTie
  <2> QED BY <1>1, <1>10, <2>1, Zenon DEF Reboot, DataRestart, Vins
<1> QED
  BY <1>2, <1>3, <1>4, <1>5, <1>6, <1>7, <1>8, <1>9, <1>10, Zenon
     DEF Next, Handle, Deferred, ResetExpiry, ReadRecord, WriteRefused

LEMMA ResetTypeInv ==
  ASSUME Inv, [Next]_vars
  PROVE  ResetTypeOK'
<1>1. ResetTypeOK /\ req \in Requests
  BY TypeParts DEF Inv, DispatchTypeOK
<1> USE DEF ResetTypeOK
<1>2. CASE UNCHANGED reset_vars
  BY <1>1, <1>2, Zenon
<1>3. CASE Reset
  BY <1>1, <1>3, Zenon DEF Reset
<1>4. CASE Arm
  BY <1>1, <1>4, Zenon DEF Arm
<1>5. CASE SendResponse /\ Announce
  <2>1. req.sid = "reset" => req.type \in ResetTypes
    BY <1>1, <1>5, Zenon DEF SendResponse, Inv, ResetTie
  <2> QED BY <1>1, <1>5, <2>1, Zenon DEF Announce
<1>6. CASE Reboot
  BY <1>1, <1>6, FalseIsBoolean, SMT DEF Reboot, ResetRestart, ResetTypes
<1> QED
  BY <1>2, <1>3, <1>4, <1>5, <1>6, Zenon DEF Next, Handle, Deferred, Boot,
     ResetExpiry

LEMMA NextInv == Inv /\ [Next]_vars => Inv'
<1> SUFFICES ASSUME Inv, [Next]_vars PROVE Inv'
  OBVIOUS
<1>1. TypeOK'
  <2>1. DispatchTypeOK' /\ DataTypeOK' /\ ResetTypeOK'
    BY DispatchTypeInv, DataTypeInv, ResetTypeInv
  <2> QED BY <2>1, Zenon
          DEF TypeOK, DispatchTypeOK, DataTypeOK, ResetTypeOK, Codes
<1> QED BY <1>1, ControlInv, ResetInv, VinInv, ReadsInv DEF Inv

----------------------------------------------------------------------------
\* Exactly one final answer, unless the request ends in silence.
LEMMA AnswerSteps ==
  ASSUME Inv, [Next]_vars, pc \notin {"boot", "recv"}, pc' = "recv"
  PROVE  frames' = IF Silent THEN 0 ELSE 1
<1> USE DEF Inv, Control, Silent
<1>1. CASE Service
  <2>1. "silent" \in Outcomes(req) => req.sid \in {"present", "periodic"}
    BY SMT DEF Outcomes
  <2>2. \/ "silent" \in Outcomes(req)
        \/ deferred' = deferred \cup {req.sid}
    BY <1>1, Zenon DEF Service
  <2>3. pc = "dispatch" /\ frames' = 0
    BY <1>1, Zenon DEF Service
  <2> QED BY <2>1, <2>2, <2>3
<1>2. CASE SendNrc
  BY <1>2, SMT DEF SendNrc, Suppressed
<1>3. CASE SendResponse
  BY <1>3, SMT DEF SendResponse
<1>4. CASE Arm
  BY <1>4, SMT DEF Arm
<1>5. ~(Malformed \/ HookService \/ Define \/ ReadDynamic \/ ReadRecord
          \/ ReadApp \/ WriteRefused \/ Persist \/ Mirror \/ Reset)
  BY SMT DEF Malformed, HookService, Define, ReadDynamic, ReadRecord, ReadApp,
     WriteRefused, Persist, Mirror, Reset
<1>6. ~(Receive(Requests) \/ Deferred \/ Boot \/ Reboot \/ UNCHANGED vars)
  BY SMT DEF Receive, Deferred, DeferredAnswer, Boot, Started,
     Reboot, DispatchRestart
<1> QED
  BY <1>1, <1>2, <1>3, <1>4, <1>5, <1>6 DEF Next, Handle, ResetExpiry

HIDE DEF Inv, vars

LEMMA Invariance == Spec => []Inv
BY InitInv, NextInv, PTL DEF Spec

\* Every variable keeps its type, whatever is requested, written, defined and
\* rebooted in whatever order.
THEOREM TypeCorrect == Spec => []TypeOK
<1>1. Inv => TypeOK
  BY DEF Inv
<1> QED BY <1>1, Invariance, PTL

\* The VIN in force is the one that was confirmed last, or one whose writing a
\* reboot cut off; mirror and entry agree.
THEOREM VinLasts == Spec => []VinDurable
<1>1. Inv => VinDurable
  BY DEF Inv
<1> QED BY <1>1, Invariance, PTL

\* A slice within the record is that part of the VIN on record, or nothing, for
\* every length, position and alphabet (uds_dynamic_did.c:110-121).
THEOREM SlicesCurrent == Spec => []DynamicReadsCurrent
<1>1. Inv => DynamicReadsCurrent
  BY DEF Inv
<1> QED BY <1>1, Invariance, PTL

\* The reset timer runs only after a reset was confirmed, with its type.
THEOREM ResetsAnnounced == Spec => []ResetAnnounced
<1>1. Inv => ResetAnnounced
  BY DEF Inv
<1> QED BY <1>1, Invariance, PTL

\* Every request is answered once, or not at all in the cases of Silent.
THEOREM OneAnswer == Spec => AnsweredOnce
<1>1. Inv /\ [Next]_vars =>
        [pc \notin {"boot", "recv"} /\ pc' = "recv" =>
           frames' = IF Silent THEN 0 ELSE 1]_vars
  BY AnswerSteps
<1> QED BY <1>1, Invariance, PTL DEF Spec, AnsweredOnce

----------------------------------------------------------------------------
(* Refinement.                                                             *)

\* No answer about the VIN is on its way before the request is answered, or
\* when the request is another one.
Unsaid ==
  \/ pc # "send"
  \/ req.sid \notin {"read", "write"}
  \/ req.sid = "read" /\ Defined(req.did)

Unspoken == Unsaid => VinAnswer = <<>>

LEMMA UnsaidAnswer == Unspoken
<1>1. "read" # "write"
  OBVIOUS
<1> QED BY <1>1, Zenon DEF Unspoken, Unsaid, VinAnswer

LEMMA UnsaidAnswerNext == Unspoken'
BY UnsaidAnswer, PTL

\* A step that says nothing and writes nothing.
LEMMA Stutter ==
  ASSUME Unsaid, Unsaid', pc # "mirror", pc' # "mirror", UNCHANGED nvs_vin
  PROVE  [Storage!Next]_(Storage!register)
<1>1. VinAnswer = <<>> /\ VinAnswer' = <<>>
  BY UnsaidAnswer, UnsaidAnswerNext DEF Unspoken
<1>2. (pc = "mirror")' = (pc = "mirror")
  OBVIOUS
<1>3. Recovered(nvs_vin)' = Recovered(nvs_vin)
  BY Zenon DEF Recovered
<1> QED BY <1>1, <1>2, <1>3, Zenon DEF Storage!register

LEMMA QuietImplements ==
  ASSUME Inv,
         \/ Receive(Requests) /\ UNCHANGED <<data_vars, reset_vars>>
         \/ /\ Malformed \/ HookService \/ Service \/ SendNrc
            /\ UNCHANGED <<data_vars, reset_vars>>
         \/ Define \/ ReadDynamic \/ ReadRecord \/ WriteRefused
         \/ (Reset \/ Arm) /\ UNCHANGED data_vars
         \/ Boot
  PROVE  [Storage!Next]_(Storage!register)
<1>1. UNCHANGED nvs_vin
  BY Zenon DEF Define, ReadDynamic, ReadRecord, WriteRefused, Boot, Load
<1>2. pc # "mirror" /\ pc' # "mirror" /\ pc # "send"
  BY SMT DEF Receive, Malformed, HookService, Service, SendNrc, Define,
     ReadDynamic, ReadRecord, WriteRefused, Reset, Arm, Boot, Started
<1>3. Unsaid'
  <2>1. CASE HookService
    <3>1. UNCHANGED req /\ req.sid \in DOMAIN Called
      BY <2>1, Zenon DEF HookService
    <3> QED BY <3>1, SMT DEF Unsaid, Called
  <2>2. CASE Service /\ pc' = "send"
    <3>1. UNCHANGED req /\ req.sid \in Elsewhere
      BY <2>2, SMT DEF Service
    <3> QED BY <3>1, SMT DEF Unsaid, Elsewhere
  <2>3. CASE Define \/ Reset
    <3>1. UNCHANGED req /\ req.sid \in {"define", "reset"}
      BY <2>3, Zenon DEF Define, Reset
    <3> QED BY <3>1, SMT DEF Unsaid
  <2>4. CASE ReadDynamic
    BY <2>4, Zenon DEF ReadDynamic, Unsaid
  <2>5. CASE pc' # "send"
    BY <2>5 DEF Unsaid
  <2> QED
    BY <2>1, <2>2, <2>3, <2>4, <2>5, SMT DEF Receive, Malformed, SendNrc,
       ReadRecord, WriteRefused, Arm, Boot, Started
<1>4. Unsaid
  BY <1>2 DEF Unsaid
<1> QED BY <1>1, <1>2, <1>3, <1>4, Stutter

\* The entry is written, the value is read, the answer is on its way.
LEMMA VinImplements ==
  ASSUME Inv, ReadApp \/ Persist \/ Mirror
  PROVE  [Storage!Next]_(Storage!register)
<1>1. Unsaid /\ VinAnswer = <<>>
  <2>1. pc # "send"
    BY SMT DEF ReadApp, Persist, Mirror
  <2> QED BY <2>1, UnsaidAnswer DEF Unspoken, Unsaid
<1>2. CASE ReadApp /\ pc' = "send"
  <2>1. /\ pc = "read_app" /\ req.sid = "read" /\ ~Defined(req.did)
        /\ vehicle_vin = Recovered(nvs_vin)
    BY <1>2, SMT DEF ReadApp, Inv, Control, VinDurable
  <2>2. payload' = vehicle_vin /\ UNCHANGED <<req, dyn_map, nvs_vin>>
    BY <1>2, SMT DEF ReadApp
  <2>3. VinAnswer' = <<"read", vehicle_vin>>
    <3>1. "read" # "write"
      OBVIOUS
    <3> QED BY <1>2, <2>1, <2>2, <3>1, Zenon DEF VinAnswer
  <2>4. Recovered(nvs_vin)' = Recovered(nvs_vin)
    BY <2>2, Zenon DEF Recovered
  <2>5. (pc = "mirror") = FALSE /\ (pc = "mirror")' = FALSE
    BY <1>2, <2>1
  <2>6. Storage!Read
    BY <1>1, <2>1, <2>3, <2>4, <2>5, Zenon DEF Storage!Read
  <2> QED BY <2>6 DEF Storage!Next
<1>3. CASE Persist /\ pc' = "mirror"
  <2>1. /\ pc = "dispatch" /\ req.sid = "write" /\ Len(req.data) = VIN_SIZE
        /\ nvs_vin' = req.data
    BY <1>3, SMT DEF Persist, LengthTest
  <2>2. req.data \in Payloads
    BY <2>1, RequestFacts DEF Inv, TypeOK
  <2>3. req.data \in Vins /\ Recovered(req.data) = req.data
    BY <2>1, <2>2, WholeVin
  <2>4. Recovered(nvs_vin)' = req.data
    BY <2>1, <2>3, Zenon DEF Recovered
  <2>5. VinAnswer' = <<>>
    BY <1>3, UnsaidAnswerNext DEF Unspoken, Unsaid
  <2>6. (pc = "mirror") = FALSE /\ (pc = "mirror")' = TRUE
    BY <1>3, <2>1
  <2>7. Storage!Write
    BY <1>1, <2>3, <2>4, <2>5, <2>6, Zenon DEF Storage!Write
  <2> QED BY <2>7 DEF Storage!Next
<1>4. CASE Mirror
  <2>1. /\ pc = "mirror" /\ pc' = "send" /\ req.sid = "write"
        /\ nvs_vin = req.data /\ req.data \in Payloads
        /\ Len(req.data) = VIN_SIZE
    BY <1>4, SMT DEF Mirror, Inv, Control, VinTie
  <2>2. UNCHANGED <<req, nvs_vin>>
    BY <1>4 DEF Mirror
  <2>3. Recovered(nvs_vin) = req.data
    BY <2>1, WholeVin
  <2>4. Recovered(nvs_vin)' = Recovered(nvs_vin)
    BY <2>2, Zenon DEF Recovered
  <2>5. VinAnswer' = <<"write", Recovered(nvs_vin)>>
    BY <2>1, <2>2, <2>3, Zenon DEF VinAnswer
  <2>6. (pc = "mirror") = TRUE /\ (pc = "mirror")' = FALSE
    BY <2>1
  <2>7. Storage!ConfirmWrite
    BY <2>4, <2>5, <2>6, Zenon DEF Storage!ConfirmWrite
  <2> QED BY <2>7 DEF Storage!Next
<1>5. CASE (ReadApp \/ Persist) /\ pc' = "nrc"
  <2>1. pc # "mirror" /\ UNCHANGED nvs_vin
    BY <1>5, SMT DEF ReadApp, Persist
  <2> QED BY <1>1, <1>5, <2>1, Stutter DEF Unsaid
<1>6. ReadApp \/ Persist => pc' \in {"send", "mirror", "nrc"}
  BY Zenon DEF ReadApp, Persist
<1>7. (ReadApp => pc' # "mirror") /\ (Persist => pc' # "send")
  BY SMT DEF ReadApp, Persist
<1> QED BY <1>2, <1>3, <1>4, <1>5, <1>6, <1>7

\* The answer is out, or is lost with everything else.
LEMMA EndImplements ==
  ASSUME Inv, (SendResponse /\ Confirm) \/ Reboot
  PROVE  [Storage!Next]_(Storage!register)
<1>1. pc' \in {"recv", "arm", "boot"} /\ UNCHANGED nvs_vin
  BY Zenon DEF SendResponse, Confirm, Reboot, DispatchRestart, DataRestart
<1>2. VinAnswer' = <<>>
  BY <1>1, UnsaidAnswerNext, SMT DEF Unspoken, Unsaid
<1>3. Recovered(nvs_vin)' = Recovered(nvs_vin)
  BY <1>1, Zenon DEF Recovered
<1>4. (pc = "mirror")' = FALSE
  BY <1>1, SMT
<1>5. CASE SendResponse
  <2>1. pc = "send"
    BY <1>5 DEF SendResponse
  <2>2. (pc = "mirror") = FALSE
    BY <2>1, SMT
  <2>3. CASE VinAnswer = <<>>
    BY <1>2, <1>3, <1>4, <2>2, <2>3, Zenon DEF Storage!register
  <2>4. CASE VinAnswer # <<>>
    <3>1. Storage!Sent
      BY <1>2, <1>3, <1>4, <2>2, <2>4, Zenon DEF Storage!Sent
    <3> QED BY <3>1 DEF Storage!Next
  <2> QED BY <2>3, <2>4
<1>6. CASE Reboot
  <2>1. Storage!Crash
    BY <1>2, <1>3, <1>4, Zenon DEF Storage!Crash
  <2> QED BY <2>1 DEF Storage!Next
<1> QED BY <1>5, <1>6

LEMMA NextImplements ==
  ASSUME Inv, [Next]_vars
  PROVE  [Storage!Next]_(Storage!register)
<1>1. CASE \/ Receive(Requests) /\ UNCHANGED <<data_vars, reset_vars>>
           \/ /\ Malformed \/ HookService \/ Service \/ SendNrc
              /\ UNCHANGED <<data_vars, reset_vars>>
           \/ Define \/ ReadDynamic \/ ReadRecord \/ WriteRefused
           \/ (Reset \/ Arm) /\ UNCHANGED data_vars
           \/ Boot
  BY <1>1, QuietImplements
<1>2. CASE ReadApp \/ Persist \/ Mirror
  BY <1>2, VinImplements
<1>3. CASE (SendResponse /\ Confirm) \/ Reboot
  BY <1>3, EndImplements
<1>4. CASE UNCHANGED <<pc, req, data_vars>>
  <2>1. VinAnswer' = VinAnswer /\ Recovered(nvs_vin)' = Recovered(nvs_vin)
        /\ (pc = "mirror")' = (pc = "mirror")
    BY <1>4, Zenon DEF VinAnswer, Recovered
  <2> QED BY <2>1, Zenon DEF Storage!register
<1>5. Deferred \/ UNCHANGED vars => UNCHANGED <<pc, req, data_vars>>
  BY Zenon DEF Deferred, DeferredAnswer, vars
<1> QED
  BY <1>1, <1>2, <1>3, <1>4, <1>5, Zenon DEF Next, Handle, ResetExpiry

\* For every length and alphabet of the VIN, all payloads, with a file system
\* and without: entry, mirror and factory default together are one register
\* that is read as it was written, through failures and power losses.
THEOREM Refinement == Spec => VinIsRegister
<1>1. Init => Storage!Init
  <2> SUFFICES ASSUME Init PROVE Storage!Init
    OBVIOUS
  <2>1. pc = "boot" /\ nvs_vin = Absent
    BY DEF Init, DispatchInit, DataInit
  <2>2. VinAnswer = <<>>
    BY <2>1, UnsaidAnswer, SMT DEF Unspoken, Unsaid
  <2>3. Recovered(nvs_vin) = FACTORY /\ (pc = "mirror") = FALSE
    BY <2>1, SMT DEF Recovered
  <2> QED BY <2>2, <2>3, Zenon DEF Storage!Init
<1>2. Inv /\ [Next]_vars => [Storage!Next]_(Storage!register)
  BY NextImplements
<1> QED
  BY <1>1, <1>2, Invariance, PTL DEF Spec, VinIsRegister, Storage!Spec
=============================================================================
