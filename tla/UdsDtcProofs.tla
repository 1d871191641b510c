---------------------------- MODULE UdsDtcProofs ----------------------------
(***************************************************************************)
(* Theorems about UdsDtc for every number of entries, and every set of     *)
(* groups, masks and statuses.                                             *)
(***************************************************************************)
EXTENDS UdsDtc, UdsAsyncProofs

Reports == [index : 0..NVS_DTC_MAX_ENTRIES, mask : SUBSET Bits,
            found : SUBSET (Slots \X Statuses)]

\* The history knows the part of the loop that is ahead.
ReportTie ==
  /\ report = None => steady = {}
  /\ report # None =>
       /\ \A i \in steady : Matches(dtc[i], report.mask)
       /\ report.index < NVS_DTC_MAX_ENTRIES =>
            \A i \in Slots : <<i, dtc[i]>> \in seen

Absent(i) == i \in refaulted \/ dtc[i] = None

\* What the clearing hook has passed, and all of the group once it succeeded,
\* is absent or was recorded again.
WipeTie ==
  /\ worker = "clear_hook" =>
       /\ todo \subseteq Affected[hooked]
       /\ \A i \in Affected[hooked] \ todo : Absent(i)
  /\ worker \in {"clear_done", "clear_sleep"} /\ ret = "ok" =>
       \A i \in Affected[hooked] : Absent(i)

DtcInv == /\ Inv /\ DtcTypeOK /\ ReportTie /\ ReportComplete
          /\ WipeTie /\ ClearedStaysCleared

----------------------------------------------------------------------------
(* The part of UdsAsync.                                                   *)

AsyncStep == \/ Accept \/ RxHandles \/ ClearPending
             \/ RoutineHook \/ RoutineAnswer \/ ClearStop \/ Sent

\* A step of the trouble codes is one of the services, none, or a reboot.
LEMMA AsyncSteps == [DtcNext]_<<vars, dtc_vars>> => [Next]_vars \/ Reboot
BY Zenon DEF DtcNext, Accept, Next, Work, Hook, Wiped, Promise, Report,
   RecordFault, Wipe

LEMMA AsyncInv == Inv /\ [DtcNext]_<<vars, dtc_vars>> => Inv'
<1>1. Reboot => Init'
  BY Zenon DEF Reboot, Init
<1>2. Init' => Inv'
  BY InitInv, PTL
<1> QED BY <1>1, <1>2, AsyncSteps, NextInv

\* The hook that runs, or has just run, was given the group of its request.
HookOfDebt ==
  worker \in {"clear_hook", "clear_done", "clear_sleep"} =>
    hooked = owed.clear /\ hooked \in Groups

LEMMA HookedGroup == Inv => HookOfDebt
BY SMT DEF HookOfDebt, Inv, TypeOK, WorkMatchesDebt, ClearTie

LEMMA HookedGroupNext == Inv' => HookOfDebt'
BY HookedGroup, PTL

----------------------------------------------------------------------------
(* The steps.                                                              *)

LEMMA DtcInitInv == DtcInit => DtcInv
<1> SUFFICES ASSUME DtcInit PROVE DtcInv
  OBVIOUS
<1>1. Inv
  BY InitInv DEF DtcInit
<1>2. TypeOK
  BY <1>1 DEF Inv
<1>3. DtcTypeOK
  BY <1>2, SMT DEF DtcInit, DtcTypeOK
<1> QED
  BY <1>1, <1>3, SMT DEF DtcInit, Init, DtcInv, ReportTie, ReportComplete,
     WipeTie, ClearedStaysCleared

\* What reading one entry does, for the status that was got.
Advance(r, entry) == [r EXCEPT !.index = @ + 1, !.found = @ \cup {entry}]
Skip(r) == [r EXCEPT !.index = @ + 1]

Entry(got) ==
  /\ report # None /\ report.index < NVS_DTC_MAX_ENTRIES
  /\ report' = IF Matches(got, report.mask)
               THEN Advance(report, <<report.index, got>>) ELSE Skip(report)
  /\ steady' = IF got = None THEN steady \ {report.index} ELSE steady
  /\ UNCHANGED <<dtc, seen>>

LEMMA EntryRead ==
  ReportEntry => \E got \in {dtc[report.index], None} : Entry(got)
BY Zenon DEF ReportEntry, Entry, Advance, Skip

\* The report that results, field by field.
LEMMA Advanced ==
  ASSUME NEW r \in Reports, r.index < NVS_DTC_MAX_ENTRIES,
         NEW entry \in Slots \X Statuses
  PROVE  /\ Advance(r, entry) \in Reports
         /\ Advance(r, entry).index = r.index + 1
         /\ Advance(r, entry).mask = r.mask
         /\ Advance(r, entry).found = r.found \cup {entry}
<1>1. /\ r.index + 1 \in 0..NVS_DTC_MAX_ENTRIES
      /\ r.mask \in SUBSET Bits
      /\ r.found \cup {entry} \in SUBSET (Slots \X Statuses)
  BY DtcAssumption, SMT DEF Reports
<1> QED BY <1>1, Zenon DEF Advance, Reports

LEMMA Skipped ==
  ASSUME NEW r \in Reports, r.index < NVS_DTC_MAX_ENTRIES
  PROVE  /\ Skip(r) \in Reports
         /\ Skip(r).index = r.index + 1
         /\ Skip(r).mask = r.mask /\ Skip(r).found = r.found
<1>1. r.index + 1 \in 0..NVS_DTC_MAX_ENTRIES
  BY DtcAssumption, SMT DEF Reports
<1> QED BY <1>1, Zenon DEF Skip, Reports

\* The same for the step: what the report becomes, whether or not it matches.
LEMMA EntryFacts ==
  ASSUME NEW got \in Statuses \cup {None}, report \in Reports, Entry(got)
  PROVE  /\ report' \in Reports /\ report.index \in Slots
         /\ report'.index = report.index + 1 /\ report'.mask = report.mask
         /\ \/ /\ Matches(got, report.mask)
               /\ report'.found = report.found \cup {<<report.index, got>>}
            \/ /\ ~Matches(got, report.mask)
               /\ report'.found = report.found
<1>1. report.index \in Slots /\ report.index < NVS_DTC_MAX_ENTRIES
  BY DtcAssumption, SMT DEF Entry, Reports, Slots
<1>2. CASE Matches(got, report.mask)
  <2>1. <<report.index, got>> \in Slots \X Statuses
    BY <1>1, <1>2, SMT DEF Matches
  <2>2. report' = Advance(report, <<report.index, got>>)
    BY <1>2, Zenon DEF Entry
  <2> QED BY <1>1, <1>2, <2>1, <2>2, Advanced
<1>3. CASE ~Matches(got, report.mask)
  <2>1. report' = Skip(report)
    BY <1>3, Zenon DEF Entry
  <2> QED BY <1>1, <1>3, <2>1, Skipped
<1> QED BY <1>2, <1>3

\* The type invariant, once the part of UdsAsync is known.
LEMMA DtcTypeInv ==
  ASSUME DtcInv, [DtcNext]_<<vars, dtc_vars>>
  PROVE  DtcTypeOK'
<1>1. Inv' /\ TypeOK'
  BY AsyncInv DEF DtcInv, Inv
<1> USE DtcAssumption DEF DtcInv, DtcTypeOK, dtc_vars, report_vars,
        promise_vars, vars, worker_vars
<1>2. CASE AsyncStep /\ UNCHANGED dtc_vars
  BY <1>1, <1>2, SMT DEF AsyncStep, Accept, RoutineStart, ClearRequest,
     RxHandles, StoreId, StoreStatus, StartTimer, StartSubmit, StoreGroup,
     StoreFlag, ClearTimer, ClearSubmit, ClearPending, RoutineHook,
     RoutineAnswer, ClearStop, Sent, Rx
<1>3. CASE Hook
  BY <1>1, <1>3, HookedGroupNext, SMT DEF HookOfDebt, Hook, Dequeue
<1>4. CASE Wiped
  BY <1>1, <1>4, SMT DEF Wiped, ClearHook
<1>5. CASE Promise
  BY <1>1, <1>5, HookedGroup, SMT DEF HookOfDebt, Promise, ClearAnswer
<1>6. CASE ReportStart /\ UNCHANGED vars
  BY <1>1, <1>6, SMT DEF ReportStart, Slots
<1>7. CASE ReportEntry /\ UNCHANGED vars
  <2>1. PICK got \in {dtc[report.index], None} : Entry(got)
    BY <1>7, EntryRead
  <2>2. report \in Reports /\ got \in Statuses \cup {None}
    BY <2>1, SMT DEF Entry, Reports, Slots
  <2>3. report' \in Reports
    BY <2>1, <2>2, EntryFacts
  <2>4. steady' \subseteq Slots
    BY <2>1, SMT DEF Entry
  <2> QED BY <1>1, <1>7, <2>3, <2>4, SMT DEF ReportEntry, Reports
<1>8. CASE ReportStored /\ UNCHANGED vars
  BY <1>1, <1>8, SMT DEF ReportStored
<1>9. CASE ReportSend /\ UNCHANGED vars
  BY <1>1, <1>9, SMT DEF ReportSend
<1>10. CASE RecordFault
  BY <1>1, <1>10, SMT DEF RecordFault, Store
<1>11. CASE Wipe
  BY <1>1, <1>11, SMT DEF Wipe, Store
<1>12. CASE Reboot
  BY <1>1, <1>12, SMT DEF Reboot
<1>13. CASE UNCHANGED <<vars, dtc_vars>>
  BY <1>1, <1>13, SMT
<1> QED
  BY <1>2, <1>3, <1>4, <1>5, <1>6, <1>7, <1>8, <1>9, <1>10, <1>11, <1>12,
     <1>13, Zenon DEF DtcNext, AsyncStep, Report

\* One round of the loop: what it found was there, what is steady is in.
LEMMA EntryInv ==
  ASSUME DtcInv, ReportEntry
  PROVE  ReportTie' /\ ReportComplete'
<1>1. PICK got \in {dtc[report.index], None} : Entry(got)
  BY EntryRead
<1>2. /\ report \in Reports /\ dtc \in [Slots -> Statuses \cup {None}]
      /\ steady \subseteq Slots
  BY <1>1 DEF DtcInv, DtcTypeOK, Entry, Reports
<1>3. report.index \in Slots /\ report.index < NVS_DTC_MAX_ENTRIES
  BY <1>1, <1>2, DtcAssumption, SMT DEF Entry, Reports, Slots
<1>4. got \in Statuses \cup {None}
  BY <1>2, <1>3
<1>5. /\ report' \in Reports
      /\ report'.index = report.index + 1 /\ report'.mask = report.mask
      /\ \/ /\ Matches(got, report.mask)
            /\ report'.found = report.found \cup {<<report.index, got>>}
         \/ /\ ~Matches(got, report.mask)
            /\ report'.found = report.found
  BY <1>1, <1>2, <1>4, EntryFacts
<1>6. report # None /\ report' # None
  BY <1>1, <1>5, DtcAssumption, SMT DEF Entry, Reports
<1>7. UNCHANGED <<dtc, seen>>
      /\ steady' = IF got = None THEN steady \ {report.index} ELSE steady
  BY <1>1 DEF Entry
<1>8. /\ \A i \in steady : Matches(dtc[i], report.mask)
      /\ \A i \in steady : i < report.index =>
           \E status \in Statuses : <<i, status>> \in report.found
      /\ \A i \in Slots : <<i, dtc[i]>> \in seen
      /\ \A entry \in report.found :
           entry \in seen /\ Matches(entry[2], report.mask)
  <2>1. report.index # NVS_DTC_MAX_ENTRIES
    BY <1>2, <1>3, DtcAssumption, SMT DEF Reports
  <2> QED BY <1>3, <1>6, <2>1, Zenon DEF DtcInv, ReportTie, ReportComplete
<1>9. \A i \in steady' :
        /\ Matches(dtc[i], report.mask)
        /\ i < report.index + 1 =>
             \E status \in Statuses : <<i, status>> \in report'.found
  <2> SUFFICES ASSUME NEW i \in steady'
               PROVE  /\ Matches(dtc[i], report.mask)
                      /\ i < report.index + 1 =>
                           \E status \in Statuses : <<i, status>> \in report'.found
    OBVIOUS
  <2>1. i \in steady /\ (got = None => i # report.index) /\ i \in Int
    BY <1>2, <1>7, SMT DEF Slots
  <2>2. Matches(dtc[i], report.mask)
    BY <1>8, <2>1
  <2>3. CASE i = report.index
    <3>1. got = dtc[i] /\ got \in Statuses
      BY <1>4, <2>1, <2>3
    <3>2. <<i, got>> \in report'.found
      BY <1>5, <2>2, <2>3, <3>1
    <3> QED BY <2>2, <3>1, <3>2
  <2>4. CASE i # report.index
    <3>1. i < report.index + 1 => i < report.index
      BY <1>2, <2>1, <2>4, SMT DEF Reports
    <3> QED BY <1>5, <1>8, <2>1, <2>2, <3>1
  <2> QED BY <2>3, <2>4
<1>10. \A entry \in report'.found :
         entry \in seen /\ Matches(entry[2], report.mask)
  <2>1. CASE Matches(got, report.mask)
    <3>1. got = dtc[report.index]
      BY <2>1 DEF Matches
    <3>2. <<report.index, got>> \in seen
      BY <1>3, <1>8, <3>1
    <3> QED BY <1>5, <1>8, <2>1, <3>2
  <2>2. CASE ~Matches(got, report.mask)
    BY <1>5, <1>8, <2>2
  <2> QED BY <2>1, <2>2
<1> QED
  BY <1>2, <1>5, <1>6, <1>7, <1>8, <1>9, <1>10, SMT
     DEF ReportTie, ReportComplete

\* A status that is stored while the report is prepared: its slot stays steady
\* only if the new status matches, too.
LEMMA StoreInv ==
  ASSUME DtcInv, NEW i \in Slots, NEW status, Store(i, status)
  PROVE  ReportTie' /\ ReportComplete'
<1>1. /\ dtc \in [Slots -> Statuses \cup {None}] /\ steady \subseteq Slots
      /\ UNCHANGED report
      /\ steady' \subseteq steady
      /\ i \in steady' => Matches(status, report.mask)
      /\ \A j \in Slots \ {i} : dtc'[j] = dtc[j]
      /\ dtc'[i] = status
      /\ report # None => seen' = seen \cup {<<i, status>>}
  BY Zenon DEF DtcInv, DtcTypeOK, Store
<1>2. \A j \in steady' : j \in Slots /\ j \in steady
  BY <1>1
<1>3. ReportTie'
  BY <1>1, <1>2, SMT DEF DtcInv, ReportTie
<1>4. ReportComplete'
  BY <1>1, <1>2, SMT DEF DtcInv, ReportComplete
<1> QED BY <1>3, <1>4

\* A new report, of either kind.
LEMMA StartInv ==
  ASSUME DtcInv, ReportStart \/ ReportStored
  PROVE  ReportTie' /\ ReportComplete'
<1>2. CASE ReportStart
  <2>1. PICK mask \in Masks :
          /\ report' = [index |-> 0, mask |-> mask, found |-> {}]
          /\ steady' = {i \in Slots : Matches(dtc[i], mask)}
          /\ seen' = {<<i, dtc[i]>> : i \in Slots} /\ UNCHANGED dtc
    BY <1>2 DEF ReportStart
  <2>2. report' # None
    BY <2>1, DtcAssumption, SMT DEF Reports
  <2>3. \A i \in steady' : ~(i < report'.index)
    BY <2>1, SMT DEF Slots
  <2> QED
    BY <2>1, <2>2, <2>3, DtcAssumption, SMT DEF ReportTie, ReportComplete
<1>3. CASE ReportStored
  <2>1. /\ report'.index = NVS_DTC_MAX_ENTRIES /\ report'.mask = {}
        /\ report'.found = {} /\ steady' = {} /\ report' # None
    BY <1>3, DtcAssumption, SMT DEF ReportStored, DtcInv, ReportTie
  <2> QED
    BY <2>1, DtcAssumption, SMT DEF ReportTie, ReportComplete
<1> QED BY <1>2, <1>3

LEMMA ReportInv ==
  ASSUME DtcInv, [DtcNext]_<<vars, dtc_vars>>
  PROVE  ReportTie' /\ ReportComplete'
<1>1. CASE ReportEntry
  BY <1>1, EntryInv
<1>2. CASE ReportStart \/ ReportStored
  BY <1>2, StartInv
<1>3. CASE RecordFault
  <2>1. PICK i \in Slots, status \in Statuses : Store(i, status)
    BY <1>3 DEF RecordFault
  <2> QED BY <2>1, StoreInv
<1>4. CASE Wipe
  <2>1. PICK i \in Slots : Store(i, None)
    BY <1>4 DEF Wipe, DtcInv, DtcTypeOK
  <2> QED BY <2>1, StoreInv
<1>5. CASE report' = None /\ steady' = {}
  BY <1>5 DEF ReportTie, ReportComplete
<1>6. CASE UNCHANGED <<dtc, report, steady, seen>>
  BY <1>6 DEF DtcInv, ReportTie, ReportComplete
<1> QED
  BY <1>1, <1>2, <1>3, <1>4, <1>5, <1>6, Zenon DEF DtcNext, Report, ReportSend,
     Reboot, Hook, Wiped, Promise, dtc_vars, report_vars

----------------------------------------------------------------------------
\* Wiping and promising: the group of the confirmation is the hook's.
LEMMA WipeInv ==
  ASSUME DtcInv, [DtcNext]_<<vars, dtc_vars>>
  PROVE  WipeTie' /\ ClearedStaysCleared'
<1> USE DtcAssumption DEF DtcInv, DtcTypeOK, WipeTie, ClearedStaysCleared,
        Absent, vars, worker_vars, dtc_vars, report_vars, promise_vars
<1>1. Inv'
  BY AsyncInv
<1>2. CASE AsyncStep /\ UNCHANGED dtc_vars
  BY <1>2, SMT DEF AsyncStep, Accept, RoutineStart, ClearRequest,
     RxHandles, StoreId, StoreStatus, StartTimer, StartSubmit, StoreGroup,
     StoreFlag, ClearTimer, ClearSubmit, ClearPending, RoutineHook,
     RoutineAnswer, ClearStop, Sent
<1>3. CASE Hook
  BY <1>3, SMT DEF Hook, Dequeue
<1>4. CASE Wiped
  BY <1>4, SMT DEF Wiped, ClearHook
<1>5. CASE Promise
  BY <1>5, HookedGroup, SMT DEF HookOfDebt, Promise, ClearAnswer
<1>6. CASE Report
  BY <1>6, SMT DEF Report, ReportStart, ReportEntry, ReportStored, ReportSend
<1>7. CASE RecordFault
  <2>1. PICK i \in Slots, status \in Statuses :
          /\ dtc' = [dtc EXCEPT ![i] = status] /\ promised' = promised \ {i}
          /\ refaulted' = IF Executing("clear") /\ worker # "clear_send"
                          THEN refaulted \cup {i} ELSE refaulted
    BY <1>7 DEF RecordFault, Store
  <2> QED BY <1>7, <2>1, SMT DEF RecordFault, Executing
<1>8. CASE Wipe
  <2>1. PICK i \in todo :
          /\ dtc' = [dtc EXCEPT ![i] = None] /\ todo' = todo \ {i}
          /\ refaulted' = refaulted \ {i}
    BY <1>8 DEF Wipe, Store
  <2> QED BY <1>8, <2>1, SMT DEF Wipe
<1>9. CASE Reboot
  BY <1>9, SMT DEF Reboot
<1>10. CASE UNCHANGED <<vars, dtc_vars>>
  BY <1>10, SMT
<1> QED
  BY <1>2, <1>3, <1>4, <1>5, <1>6, <1>7, <1>8, <1>9, <1>10, Zenon
     DEF DtcNext, AsyncStep

LEMMA DtcInvariance == DtcSpec => []DtcInv
<1>1. DtcInv /\ [DtcNext]_<<vars, dtc_vars>> => DtcInv'
  BY AsyncInv, DtcTypeInv, ReportInv, WipeInv DEF DtcInv
<1> QED BY DtcInitInv, <1>1, PTL DEF DtcSpec

----------------------------------------------------------------------------
\* Every variable keeps its type while RX thread, worker, callbacks, faults
\* and reboots interleave.
THEOREM DtcTypeCorrect == DtcSpec => []DtcTypeOK
<1>1. DtcInv => DtcTypeOK
  BY DEF DtcInv
<1> QED BY <1>1, DtcInvariance, PTL

\* A report has each entry that matched throughout, and none that was never
\* stored (uds_read_dtc.c:72-82).
THEOREM ReportsComplete == DtcSpec => []ReportComplete
<1>1. DtcInv => ReportComplete
  BY DEF DtcInv
<1> QED BY <1>1, DtcInvariance, PTL

\* An entry whose clearance was confirmed after the hook succeeded stays
\* absent until a fault is recorded again (uds_clear_dtc.c:59-70).
THEOREM ClearingLasts == DtcSpec => []ClearedStaysCleared
<1>1. DtcInv => ClearedStaysCleared
  BY DEF DtcInv
<1> QED BY <1>1, DtcInvariance, PTL

----------------------------------------------------------------------------
(* What UdsAsync promises, with reboots.                                   *)

\* No work item, timer or debt is out of step with the request it belongs to,
\* although reboots cut requests off at every point, and statics, queue and
\* timers start again.
THEOREM ServicesSurviveReboots ==
  DtcSpec => [](WorkMatchesDebt /\ RoutineSupervised /\ ClearSupervised)
<1>1. DtcInv => WorkMatchesDebt /\ RoutineSupervised /\ ClearSupervised
  BY DEF DtcInv, Inv
<1> QED BY <1>1, DtcInvariance, PTL

\* A reboot leaves nothing behind that DeferredService knows of.
LEMMA RebootImplements == Reboot => Deferred!Restart
<1>1. Reboot => Init'
  BY Zenon DEF Reboot, Init
<1>2. Init' => Deferred!Init'
  BY InitImplements, PTL
<1>3. Deferred!Init' => Deferred!Restart
  BY Zenon DEF Deferred!Init, Deferred!Restart
<1> QED BY <1>1, <1>2, <1>3

\* With trouble codes read, recorded and cleared, and reboots at any moment, a
\* request that was accepted has its hook run at most once, with its own
\* argument, and is answered at most once, by its own answer.
THEOREM RefinementAcrossReboots == DtcSpec => RunOnceAcrossReboots
<1>1. DtcInv /\ [DtcNext]_<<vars, dtc_vars>> =>
        [Deferred!Next \/ Deferred!Restart]_(Deferred!service)
  BY AsyncSteps, NextImplements, RebootImplements DEF DtcInv
<1>2. DtcInit => Deferred!Init
  BY InitImplements DEF DtcInit
<1> QED
  BY <1>1, <1>2, DtcInvariance, PTL
     DEF DtcSpec, RunOnceAcrossReboots, Deferred!CrashSpec
=============================================================================
