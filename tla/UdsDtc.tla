------------------------------- MODULE UdsDtc -------------------------------
(***************************************************************************)
(* The trouble codes: ReadDTCInformation (0x19, uds_read_dtc.c) reads the  *)
(* NVS entries one by one on the RX thread, while ClearDiagnostic-         *)
(* Information (0x14, UdsAsync) wipes them on the workqueue and the        *)
(* application records new faults; reboots at any moment.                  *)
(*                                                                         *)
(* Without a file system 0x19 refuses every request.                       *)
(***************************************************************************)
EXTENDS UdsAsync

CONSTANTS NVS_DTC_MAX_ENTRIES,
          Bits,      \* of a status byte
          Statuses,  \* what the application records: sets of bits
          Masks,     \* what testers ask for: sets of bits
          Affected   \* the entries of a group

Slots == 0 .. NVS_DTC_MAX_ENTRIES - 1

ASSUME DtcAssumption ==
  /\ NVS_DTC_MAX_ENTRIES \in Nat
  /\ Statuses \subseteq SUBSET Bits /\ Masks \subseteq SUBSET Bits
  /\ Affected \in [Groups -> SUBSET Slots]
  /\ None \notin Statuses
  /\ None \notin [index : Nat, mask : SUBSET Bits,
                  found : SUBSET (Slots \X Statuses)]

VARIABLES dtc,    \* the NVS entries: a status, or None
          todo,   \* in the clearing hook: the entries it has not wiped
          report  \* the answer to 0x19 that the RX thread prepares, or None

\* History: entries that match the request in progress from its start on and
\* were readable, and all that were stored meanwhile; entries whose clearance was confirmed; and
\* those recorded anew since the clearing hook passed them.
VARIABLES steady, seen, promised, refaulted

report_vars == <<report, steady, seen>>
promise_vars == <<promised, refaulted>>
dtc_vars == <<dtc, todo, report_vars, promise_vars>>

Matches(status, mask) == status # None /\ status \cap mask # {}

----------------------------------------------------------------------------
(* 0x19 on the RX thread.                                                  *)

\* reportDTCByStatusMask.  tx_idx is 3 + 4 * Cardinality(found) throughout.
ReportStart ==
  /\ RxRuns /\ rx = "recv" /\ report = None
  /\ \E mask \in Masks :
       /\ report' = [index |-> 0, mask |-> mask, found |-> {}]
       /\ steady' = {i \in Slots : Matches(dtc[i], mask)}
  /\ seen' = {<<i, dtc[i]>> : i \in Slots}
  /\ UNCHANGED <<dtc, todo, promise_vars>>

\* nvs_read of the next entry, which is skipped if it is missing or unreadable.
BugReportEntry ==
  /\ RxRuns /\ report # None /\ report.index < NVS_DTC_MAX_ENTRIES
  /\ \E got \in {dtc[report.index], None} :
       /\ report' =
            IF Matches(got, report.mask)
            THEN [report EXCEPT !.index = @ + 2,
                                !.found = @ \cup {<<report.index, got>>}]
            ELSE [report EXCEPT !.index = @ + 1]
       /\ steady' = IF got = None THEN steady \ {report.index} ELSE steady
  /\ UNCHANGED <<dtc, todo, seen, promise_vars>>
ReportEntry ==
  /\ RxRuns /\ report # None /\ report.index < NVS_DTC_MAX_ENTRIES
  /\ \E got \in {dtc[report.index], None} :
       /\ report' =
            IF Matches(got, report.mask)
            THEN [report EXCEPT !.index = @ + 1,
                                !.found = @ \cup {<<report.index, got>>}]
            ELSE [report EXCEPT !.index = @ + 1]
       /\ steady' = IF got = None THEN steady \ {report.index} ELSE steady
  /\ UNCHANGED <<dtc, todo, seen, promise_vars>>

\* reportDTCStoredDataByDTCNumber: one call of the freeze-frame hook, of whose
\* errors nothing stays.
ReportStored ==
  /\ RxRuns /\ rx = "recv" /\ report = None
  /\ report' = [index |-> NVS_DTC_MAX_ENTRIES, mask |-> {}, found |-> {}]
  /\ UNCHANGED <<dtc, todo, steady, seen, promise_vars>>

ReportSend ==
  /\ RxRuns /\ report # None /\ report.index = NVS_DTC_MAX_ENTRIES
  /\ report' = None /\ steady' = {} /\ seen' = {}
  /\ UNCHANGED <<dtc, todo, promise_vars>>

Report ==
  /\ ReportStart \/ ReportEntry \/ ReportStored \/ ReportSend
  /\ UNCHANGED vars

----------------------------------------------------------------------------
(* What changes an entry.                                                  *)

Store(i, status) ==
  /\ dtc' = [dtc EXCEPT ![i] = status]
  /\ steady' = IF report # None /\ Matches(status, report.mask)
               THEN steady ELSE steady \ {i}
  /\ seen' = IF report = None THEN seen ELSE seen \cup {<<i, status>>}
  /\ UNCHANGED report

\* The application records a fault, or a new status of one.
RecordFault ==
  /\ \E i \in Slots, status \in Statuses : Store(i, status) /\ status # dtc[i]
       /\ promised' = promised \ {i}
       /\ refaulted' = IF Executing("clear") /\ worker # "clear_send"
                       THEN refaulted \cup {i} ELSE refaulted
  /\ UNCHANGED <<vars, todo>>

\* uds_app_clear_persistent_dtcs deletes the entries of its group, in any
\* order, and succeeds only if it got through.
Wipe ==
  /\ worker = "clear_hook"
  /\ \E i \in todo :
       Store(i, None) /\ todo' = todo \ {i} /\ refaulted' = refaulted \ {i}
  /\ UNCHANGED <<vars, promised>>

Hook ==
  /\ Dequeue
  /\ todo' = IF worker' = "clear_hook" THEN Affected[hooked'] ELSE {}
  /\ UNCHANGED <<dtc, report_vars, promise_vars>>

Wiped ==
  /\ ClearHook /\ (ret' = "ok" => todo = {})
  /\ todo' = {}
  /\ UNCHANGED <<dtc, report_vars, promise_vars>>

\* The confirmation: what the hook reported a success for is promised.
Promise ==
  /\ ClearAnswer
  /\ promised' =
       promised \cup IF ret = "ok" THEN Affected[owed.clear] \ refaulted ELSE {}
  /\ refaulted' = {}
  /\ UNCHANGED <<dtc, todo, report_vars>>

----------------------------------------------------------------------------
\* A reboot forgets the request, the work items and the timers.
Reboot ==
  /\ erase_routine_status' = "IDLE" /\ active_routine_id' = None
  /\ routine_timer' = FALSE
  /\ target_dtc_group' = None /\ worker_done' = FALSE /\ clear_timer' = FALSE
  /\ queue' = <<>> /\ worker' = "idle" /\ hooked' = None /\ ret' = "ok"
  /\ rx' = "recv" /\ arg' = None
  /\ owed' = [routine |-> None, clear |-> None]
  /\ answer' = [sid |-> "none", id |-> None, ok |-> FALSE]
  /\ todo' = {} /\ report' = None /\ steady' = {} /\ seen' = {}
  /\ refaulted' = {}
  /\ UNCHANGED <<dtc, promised>>

DtcInit ==
  /\ Init
  /\ dtc = [i \in Slots |-> None] /\ todo = {}
  /\ report = None /\ steady = {} /\ seen = {}
  /\ promised = {} /\ refaulted = {}

\* While it prepares a report the RX thread accepts nothing else.
Accept == (RoutineStart \/ ClearRequest) /\ report = None

DtcNext ==
  \/ /\ \/ Accept \/ RxHandles \/ ClearPending
        \/ RoutineHook \/ RoutineAnswer \/ ClearStop \/ Sent
     /\ UNCHANGED dtc_vars
  \/ Hook \/ Wiped \/ Promise
  \/ Report \/ RecordFault \/ Wipe \/ Reboot

DtcSpec == DtcInit /\ [][DtcNext]_<<vars, dtc_vars>>

----------------------------------------------------------------------------
(* Properties.                                                             *)

\* Every variable keeps its type.
DtcTypeOK ==
  /\ TypeOK
  /\ dtc \in [Slots -> Statuses \cup {None}]
  /\ todo \subseteq Slots /\ (todo # {} => worker = "clear_hook")
  /\ report # None =>
       /\ rx = "recv"
       /\ report \in [index : 0..NVS_DTC_MAX_ENTRIES, mask : SUBSET Bits,
                      found : SUBSET (Slots \X Statuses)]
  /\ steady \subseteq Slots /\ seen \subseteq Slots \X (Statuses \cup {None})
  /\ promised \subseteq Slots /\ refaulted \subseteq Slots

\* The same as RunOnceAnswerOnce when reboots cut requests off: none of their
\* work, timers or answers is left to a later request.
RunOnceAcrossReboots == Deferred!CrashSpec

\* uds_read_dtc.c:72-82 takes no snapshot, yet of each single entry the report
\* is right: one that matches the mask from the request to the answer, with one
\* status or another, and can be read, is in it, and what is in it was stored at
\* some time in between.  Clearing, faults and unreadable entries interleave
\* with the loop.
ReportComplete ==
  report # None =>
    /\ \A i \in steady : i < report.index =>
         \E status \in Statuses : <<i, status>> \in report.found
    /\ \A entry \in report.found :
         entry \in seen /\ Matches(entry[2], report.mask)

\* An entry whose clearance was confirmed, after the hook succeeded, stays
\* absent until a fault is recorded again, whatever requests, failures of later
\* clearances and reboots follow: the group that is promised is the group that
\* was wiped.
ClearedStaysCleared == \A i \in promised : dtc[i] = None
=============================================================================
