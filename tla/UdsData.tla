------------------------------ MODULE UdsData ------------------------------
(***************************************************************************)
(* The data services: ReadDataByIdentifier (0x22, uds_server.c),           *)
(* DynamicallyDefineDataIdentifier (0x2C, uds_dynamic_did.c) and           *)
(* WriteDataByIdentifier (0x2E, uds_write_did.c) on the one record the     *)
(* subsystem keeps itself, the VIN (uds_data_storage.c): an NVS entry and  *)
(* its mirror in RAM.  The application's read and write hooks are taken to *)
(* pass the VIN's identifier on to uds_data_storage_get_vin and _set_vin.  *)
(* A record is a sequence of bytes.                                        *)
(***************************************************************************)
EXTENDS UdsDispatch, Sequences

CONSTANTS VIN_SIZE,
          Bytes,
          FACTORY,    \* the VIN of a server that has none in NVS
          Payloads,   \* what testers try to write, of any length
          VinDid,
          OtherDids,  \* identifiers the application does not know
          Slices,     \* positions and lengths that testers define
          Junk,       \* a byte that no record supplied
          Absent,
          HasNvs      \* does uds_app_get_nvs_context deliver a file system?

ASSUME DataAssumption ==
  /\ VIN_SIZE \in Nat \ {0} /\ Junk \notin Bytes
  /\ FACTORY \in [1..VIN_SIZE -> Bytes]
  /\ Payloads \subseteq Seq(Bytes) /\ Absent \notin Payloads
  /\ VinDid \notin OtherDids
  /\ Slices \subseteq [position : Nat, length : Nat]
  /\ HasNvs \in BOOLEAN

VARIABLES vehicle_vin, \* the mirror
          nvs_vin,     \* the NVS entry, or Absent
          dyn_map,     \* the definition, or Absent: entry_count is 0
          payload      \* the record bytes in uds_tx_buf

\* History: the VIN that testers were last told is in force, and those whose
\* writing a reboot cut off before the answer.
VARIABLES confirmed, doubt

data_vars == <<vehicle_vin, nvs_vin, dyn_map, payload, confirmed, doubt>>

Dids == {VinDid} \cup OtherDids
Vins == [1..VIN_SIZE -> Bytes]

ReadRequests == [sid : {"read"}, addr : Addressing, did : Dids]
WriteRequests == [sid : {"write"}, addr : Addressing, data : Payloads]
DefineRequests ==
  [sid : {"define"}, addr : Addressing, did : Dids, slice : Slices]

\* nvs_read copies at most VIN_SIZE bytes over the factory default; an entry
\* of another length is reported as missing, and its bytes stay.
Recovered(entry) ==
  IF entry = Absent THEN FACTORY
  ELSE [i \in 1..VIN_SIZE |-> IF i <= Len(entry) THEN entry[i] ELSE FACTORY[i]]

\* memcpy of length bytes from a position counted from 1.  Nothing compares
\* them with the record: what lies outside it is left on the stack by others.
BugSlice(record, position, length) ==
  [i \in 1..length |-> IF position + i \in DOMAIN record
                       THEN record[position + i] ELSE Junk]
Slice(record, position, length) ==
  [i \in 1..length |-> IF position + i - 1 \in DOMAIN record
                       THEN record[position + i - 1] ELSE Junk]

----------------------------------------------------------------------------
(* 0x2C.  A definition replaces the one before, whatever its identifier,   *)
(* and may take the identifier of an existing record.                      *)

Define ==
  /\ pc = "dispatch" /\ req.sid = "define" /\ Answers("dispatch")
  /\ dyn_map' = [did |-> req.did, position |-> req.slice.position,
                 length |-> req.slice.length]
  /\ UNCHANGED <<vehicle_vin, nvs_vin, payload, confirmed, doubt>>

----------------------------------------------------------------------------
(* 0x22.                                                                   *)

Defined(did) == dyn_map # Absent /\ dyn_map.did = did

\* uds_read_dynamic_did_payload: a source that cannot be read is skipped, and
\* the answer is positive and empty.
ReadDynamic ==
  /\ pc = "dispatch" /\ req.sid = "read" /\ Defined(req.did)
  /\ Answers("dispatch")
  /\ \E ret \in Results("read_did") :
       payload' = IF ret = "0"
                  THEN Slice(vehicle_vin, dyn_map.position, dyn_map.length)
                  ELSE <<>>
  /\ UNCHANGED <<vehicle_vin, nvs_vin, dyn_map, confirmed, doubt>>

\* No such definition: the record itself is asked for.
ReadRecord ==
  /\ pc = "dispatch" /\ req.sid = "read" /\ ~Defined(req.did)
  /\ Continues("dispatch", "read_app")
  /\ UNCHANGED data_vars

\* uds_app_read_did.
ReadApp ==
  /\ pc = "read_app"
  /\ \/ /\ req.did = VinDid
        /\ Answers("read_app") /\ payload' = vehicle_vin
     \/ /\ \E ret \in Errors("read_did") : Refuses("read_app", ReadNrc(ret))
        /\ UNCHANGED payload
  /\ UNCHANGED <<vehicle_vin, nvs_vin, dyn_map, confirmed, doubt>>

----------------------------------------------------------------------------
(* 0x2E, behind its gate (see UdsSecurity): uds_data_storage_set_vin.      *)

BugLengthTest(data) == TRUE
LengthTest(data) == Len(data) = VIN_SIZE

\* The hook refuses another identifier on its own account.
WriteRefused ==
  /\ pc = "dispatch" /\ req.sid = "write"
  /\ \E ret \in Errors("write_did") : Refuses("dispatch", WriteNrc(ret))
  /\ UNCHANGED data_vars

\* The entry is written first; an error leaves it as it was.
Persist ==
  /\ pc = "dispatch" /\ req.sid = "write"
  /\ \/ /\ ~LengthTest(req.data)
        /\ Refuses("dispatch", WriteNrc("EINVAL")) /\ UNCHANGED nvs_vin
     \/ /\ LengthTest(req.data) /\ HasNvs
        /\ Continues("dispatch", "mirror") /\ nvs_vin' = req.data
     \/ /\ LengthTest(req.data)
        /\ Refuses("dispatch", WriteNrc(IF HasNvs THEN "EIO" ELSE "ENXIO"))
        /\ UNCHANGED nvs_vin
  /\ UNCHANGED <<vehicle_vin, dyn_map, payload, confirmed, doubt>>

Mirror ==
  /\ Answers("mirror")
  /\ vehicle_vin' = [i \in 1..VIN_SIZE |-> req.data[i]]
  /\ UNCHANGED <<nvs_vin, dyn_map, payload, confirmed, doubt>>

\* The answer is on the link: a positive one to 0x2E confirms the VIN.
Confirm ==
  /\ IF req.sid = "write" THEN confirmed' = vehicle_vin /\ doubt' = {}
                          ELSE UNCHANGED <<confirmed, doubt>>
  /\ payload' = <<>>
  /\ UNCHANGED <<vehicle_vin, nvs_vin, dyn_map>>

----------------------------------------------------------------------------
\* A reboot after the entry was written and before the answer leaves open
\* which VIN is in force.
DataRestart ==
  /\ doubt' = IF pc = "mirror" \/ (pc = "send" /\ req.sid = "write")
              THEN doubt \cup {Recovered(req.data)} ELSE doubt
  /\ vehicle_vin' = FACTORY /\ dyn_map' = Absent /\ payload' = <<>>
  /\ UNCHANGED <<nvs_vin, confirmed>>

\* uds_data_storage_init, called by the application.
BugLoad ==
  /\ vehicle_vin' = FACTORY
  /\ UNCHANGED <<nvs_vin, dyn_map, payload, confirmed, doubt>>
Load ==
  /\ vehicle_vin' = IF HasNvs THEN Recovered(nvs_vin) ELSE FACTORY
  /\ UNCHANGED <<nvs_vin, dyn_map, payload, confirmed, doubt>>

DataInit ==
  /\ vehicle_vin = FACTORY /\ nvs_vin = Absent
  /\ dyn_map = Absent /\ payload = <<>>
  /\ confirmed = FACTORY /\ doubt = {}
=============================================================================
