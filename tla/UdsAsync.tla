------------------------------ MODULE UdsAsync ------------------------------
(***************************************************************************)
(* The two services that answer later: RoutineControl (0x31,               *)
(* uds_routine.c) and ClearDiagnosticInformation (0x14, uds_clear_dtc.c).  *)
(* Each accepts a request on the RX thread, starts a timer whose callback  *)
(* sends responsePending (NRC 0x78), and submits a work item; the worker   *)
(* runs the application hook, stops the timer and sends the answer.        *)
(*                                                                         *)
(* Both items share the kernel's system workqueue: one thread, cooperative *)
(* in Zephyr's default configuration, which the RX thread can overtake     *)
(* only while the worker is blocked in a hook, in k_msleep or in a         *)
(* transmission.  Timer callbacks preempt both.                            *)
(***************************************************************************)
EXTENDS Sequences, FiniteSets, Integers

CONSTANTS Routines, \* routine identifiers
          Groups,   \* DTC groups
          None

ASSUME AsyncAssumption == None \notin Routines \cup Groups

VARIABLES erase_routine_status, active_routine_id, routine_timer,
          target_dtc_group, worker_done, clear_timer,
          queue,   \* work items that wait
          worker,  \* control point of the workqueue thread
          hooked,  \* in the worker: the argument its hook was given,
          ret,     \*   and what the hook returned
          rx,      \* control point of the RX thread
          arg      \* the argument of the request it handles

\* History: the request that still has to be answered, and the last answer.
VARIABLES owed, answer

routine_vars == <<erase_routine_status, active_routine_id, routine_timer>>
clear_vars == <<target_dtc_group, worker_done, clear_timer>>
history == <<owed, answer>>
worker_vars == <<worker, hooked, ret>>
vars == <<routine_vars, clear_vars, queue, worker_vars, rx, arg, history>>

\* The RX thread has the processor.
RxRuns ==
  \/ worker \in {"routine_hook", "routine_send",
                 "clear_hook", "clear_sleep", "clear_send"}
  \/ worker = "idle" /\ queue = <<>>

Rx(from, to) == RxRuns /\ rx = from /\ rx' = to

Queued(item) == item \in {queue[i] : i \in DOMAIN queue}

\* The item's handler has not returned.
Executing(item) ==
  worker \in IF item = "routine"
             THEN {"routine_hook", "routine_done", "routine_send"}
             ELSE {"clear_hook", "clear_done", "clear_sleep", "clear_send"}

\* k_work_submit: a waiting item is not queued twice, one that is executing is
\* queued again.
Submit(item) == queue' = IF Queued(item) THEN queue ELSE Append(queue, item)

----------------------------------------------------------------------------
(* startRoutine on the RX thread, from the test of the status on.          *)

BugStartTest == TRUE
StartTest == erase_routine_status # "RUNNING"

\* Requests that are refused (session, length, busy) and requestRoutineResults
\* change nothing here.
RoutineStart ==
  /\ Rx("recv", "start_id")
  /\ StartTest
  /\ arg' \in Routines
  /\ UNCHANGED <<routine_vars, clear_vars, queue, worker_vars, history>>

StoreId ==
  /\ Rx("start_id", "start_status")
  /\ active_routine_id' = arg
  /\ owed' = [owed EXCEPT !.routine = arg]
  /\ UNCHANGED <<erase_routine_status, routine_timer, clear_vars, queue, worker_vars,
                 arg, answer>>

StoreStatus ==
  /\ Rx("start_status", "start_timer")
  /\ erase_routine_status' = "RUNNING"
  /\ UNCHANGED <<active_routine_id, routine_timer, clear_vars, queue, worker_vars,
                 arg, history>>

StartTimer ==
  /\ Rx("start_timer", "start_submit")
  /\ routine_timer' = TRUE
  /\ UNCHANGED <<erase_routine_status, active_routine_id, clear_vars, queue,
                 worker_vars, arg, history>>

BugStartSubmit ==
  /\ Rx("start_submit", "recv")
  /\ IF Executing("routine") THEN UNCHANGED queue ELSE Submit("routine")
  /\ UNCHANGED <<routine_vars, clear_vars, worker_vars, arg, history>>
StartSubmit ==
  /\ Rx("start_submit", "recv")
  /\ Submit("routine")
  /\ UNCHANGED <<routine_vars, clear_vars, worker_vars, arg, history>>

----------------------------------------------------------------------------
(* 0x14 on the RX thread.                                                  *)

\* k_work_is_pending: waiting or executing.
BugPending == Queued("clear")
Pending == Queued("clear") \/ Executing("clear")

ClearRequest ==
  /\ Rx("recv", "clear_group")
  /\ ~Pending
  /\ arg' \in Groups
  /\ UNCHANGED <<routine_vars, clear_vars, queue, worker_vars, history>>

StoreGroup ==
  /\ Rx("clear_group", "clear_flag")
  /\ target_dtc_group' = arg
  /\ owed' = [owed EXCEPT !.clear = arg]
  /\ UNCHANGED <<routine_vars, worker_done, clear_timer, queue, worker_vars,
                 arg, answer>>

BugStoreFlag == Rx("clear_flag", "clear_timer") /\ UNCHANGED
  <<routine_vars, clear_vars, queue, worker_vars, arg, history>>
StoreFlag ==
  /\ Rx("clear_flag", "clear_timer")
  /\ worker_done' = FALSE
  /\ UNCHANGED <<routine_vars, target_dtc_group, clear_timer, queue, worker_vars,
                 arg, history>>

ClearTimer ==
  /\ Rx("clear_timer", "clear_submit")
  /\ clear_timer' = TRUE
  /\ UNCHANGED <<routine_vars, target_dtc_group, worker_done, queue, worker_vars,
                 arg, history>>

BugClearSubmit ==
  /\ Rx("clear_submit", "recv")
  /\ IF worker = "idle" THEN Submit("clear") ELSE UNCHANGED queue
  /\ UNCHANGED <<routine_vars, clear_vars, worker_vars, arg, history>>
ClearSubmit ==
  /\ Rx("clear_submit", "recv")
  /\ Submit("clear")
  /\ UNCHANGED <<routine_vars, clear_vars, worker_vars, arg, history>>

----------------------------------------------------------------------------
(* The workqueue thread.                                                   *)

\* The next item's handler calls its hook.
Dequeue ==
  /\ worker = "idle" /\ queue # <<>>
  /\ queue' = Tail(queue)
  /\ IF Head(queue) = "routine"
     THEN worker' = "routine_hook" /\ hooked' = active_routine_id
     ELSE worker' = "clear_hook" /\ hooked' = target_dtc_group
  /\ UNCHANGED <<routine_vars, clear_vars, ret, rx, arg, history>>

BugRoutineHook ==
  /\ worker = "routine_hook" /\ worker' = "routine_done"
  /\ ret' \in {"ok", "error"}
  /\ erase_routine_status' = IF ret' = "ok" THEN "COMPLETED" ELSE ret'
  /\ UNCHANGED <<active_routine_id, routine_timer, clear_vars, queue, hooked, rx, arg,
                 history>>
\* uds_app_routine_start returns 0 or an error.
RoutineHook ==
  /\ worker = "routine_hook" /\ worker' = "routine_done"
  /\ ret' \in {"ok", "error"}
  /\ erase_routine_status' = IF ret' = "ok" THEN "COMPLETED" ELSE "FAILED"
  /\ UNCHANGED <<active_routine_id, routine_timer, clear_vars, queue, hooked, rx, arg,
                 history>>

\* The timer is stopped and the answer handed to ISO-TP, which then blocks.
BugRoutineAnswer ==
  /\ worker = "routine_done" /\ worker' = "routine_send"
  /\ answer' = [sid |-> "0x71", id |-> active_routine_id,
                ok |-> erase_routine_status = "COMPLETED"]
  /\ owed' = [owed EXCEPT !.routine = None]
  /\ UNCHANGED <<routine_vars, clear_vars, queue, hooked, ret, rx, arg>>
RoutineAnswer ==
  /\ worker = "routine_done" /\ worker' = "routine_send"
  /\ routine_timer' = FALSE
  /\ answer' = [sid |-> "0x71", id |-> active_routine_id,
                ok |-> erase_routine_status = "COMPLETED"]
  /\ owed' = [owed EXCEPT !.routine = None]
  /\ UNCHANGED <<erase_routine_status, active_routine_id, clear_vars, queue,
                 hooked, ret, rx, arg>>

\* uds_app_clear_persistent_dtcs; without a file system it is not
\* called, which counts as an error here.
ClearHook ==
  /\ worker = "clear_hook" /\ worker' = "clear_done"
  /\ ret' \in {"ok", "error"}
  /\ worker_done' = TRUE
  /\ UNCHANGED <<routine_vars, target_dtc_group, clear_timer, queue, hooked, rx, arg,
                 history>>

ClearStop ==
  /\ worker = "clear_done" /\ worker' = "clear_sleep"
  /\ clear_timer' = FALSE
  /\ UNCHANGED <<routine_vars, target_dtc_group, worker_done, queue, hooked, ret, rx,
                 arg, history>>

ClearAnswer ==
  /\ worker = "clear_sleep" /\ worker' = "clear_send"
  /\ answer' = [sid |-> "0x54", id |-> target_dtc_group, ok |-> TRUE]
  /\ owed' = [owed EXCEPT !.clear = None]
  /\ UNCHANGED <<routine_vars, clear_vars, queue, hooked, ret, rx, arg>>

Sent ==
  /\ worker \in {"routine_send", "clear_send"} /\ worker' = "idle"
  /\ UNCHANGED <<routine_vars, clear_vars, queue, hooked, ret, rx, arg, history>>

\* nrc78_timer_expiry_cb: sends 0x78 and starts the timer again, unless the
\* worker is done.  (routine_nrc78_timer is periodic and its callback changes
\* nothing.)
ClearPending ==
  /\ clear_timer
  /\ clear_timer' = ~worker_done
  /\ UNCHANGED <<routine_vars, target_dtc_group, worker_done, queue,
                 worker_vars, rx, arg, history>>

----------------------------------------------------------------------------
Init ==
  /\ erase_routine_status = "IDLE" /\ active_routine_id = None
  /\ routine_timer = FALSE
  /\ target_dtc_group = None /\ worker_done = FALSE /\ clear_timer = FALSE
  /\ queue = <<>> /\ worker = "idle" /\ hooked = None /\ ret = "ok"
  /\ rx = "recv" /\ arg = None
  /\ owed = [routine |-> None, clear |-> None]
  /\ answer = [sid |-> "none", id |-> None, ok |-> FALSE]

\* The RX thread after it has accepted a request.
RxHandles ==
  \/ StoreId \/ StoreStatus \/ StartTimer \/ StartSubmit
  \/ StoreGroup \/ StoreFlag \/ ClearTimer \/ ClearSubmit

Work == Dequeue \/ RoutineHook \/ RoutineAnswer
          \/ ClearHook \/ ClearStop \/ ClearAnswer \/ Sent

Next == RoutineStart \/ ClearRequest \/ RxHandles \/ Work \/ ClearPending

Spec == Init /\ [][Next]_vars

\* Both threads are scheduled, hooks and transmissions end.  The worker has
\* priority, but runs out of work while the RX thread does not submit any.
Fairness == WF_vars(Work) /\ WF_vars(RxHandles)

FairSpec == Spec /\ Fairness

----------------------------------------------------------------------------
(* The refinement of DeferredService.                                      *)

Both(r, c) == [routine |-> r, clear |-> c]

\* A service has run from its hook's return until its answer.
RoutineRan == worker = "routine_done"
ClearWaits == clear_timer /\ ~worker_done
ClearRan == worker \in {"clear_done", "clear_sleep"}
HookedIf(ran) == IF ran THEN hooked ELSE None
ReturnedIf(ran) == IF ran THEN ret ELSE "none"

Deferred == INSTANCE DeferredService WITH
  Arguments <- Both(Routines, Groups),
  Positive <- Both("0x71", "0x54"),
  Reporting <- {"routine"},
  waiting <- Both(routine_timer, ClearWaits),
  ran <- Both(HookedIf(RoutineRan), HookedIf(ClearRan)),
  result <- Both(ReturnedIf(RoutineRan), ReturnedIf(ClearRan))

----------------------------------------------------------------------------
(* Properties.                                                             *)

\* Every variable keeps its type, and the queue holds no item twice.
TypeOK ==
  /\ erase_routine_status \in {"IDLE", "RUNNING", "COMPLETED", "FAILED"}
  /\ active_routine_id \in Routines \cup {None} /\ routine_timer \in BOOLEAN
  /\ target_dtc_group \in Groups \cup {None}
  /\ worker_done \in BOOLEAN /\ clear_timer \in BOOLEAN
  /\ queue \in {<<>>, <<"routine">>, <<"clear">>,
                <<"routine", "clear">>, <<"clear", "routine">>}
  /\ worker \in {"idle", "routine_hook", "routine_done", "routine_send",
                 "clear_hook", "clear_done", "clear_sleep", "clear_send"}
  /\ hooked \in Routines \cup Groups \cup {None}
  /\ ret \in {"ok", "error"}
  /\ rx \in {"recv", "start_id", "start_status", "start_timer", "start_submit",
             "clear_group", "clear_flag", "clear_timer", "clear_submit"}
  /\ arg \in Routines \cup Groups \cup {None}
  /\ owed \in [routine : Routines \cup {None}, clear : Groups \cup {None}]
  /\ answer \in [sid : {"none", "0x71", "0x54"},
                 id : Routines \cup Groups \cup {None}, ok : BOOLEAN]

\* A work item waits or runs its hook exactly while its request is owed an
\* answer: none is lost, none runs or answers twice, although the statics that
\* tie a request to its item are shared with the next request.
WorkMatchesDebt ==
  /\ owed.routine # None <=>
       \/ rx \in {"start_status", "start_timer", "start_submit"}
       \/ Queued("routine") \/ worker \in {"routine_hook", "routine_done"}
  /\ owed.clear # None <=>
       \/ rx \in {"clear_flag", "clear_timer", "clear_submit"}
       \/ Queued("clear") \/ worker \in {"clear_hook", "clear_done", "clear_sleep"}

\* The answer to startRoutine names the routine that was asked for, that
\* routine was run, and the status is its own: a start accepted while the
\* previous answer is still being sent disturbs neither.
RoutineAnswered ==
  [][owed.routine # None /\ owed'.routine = None =>
       /\ hooked = owed.routine
       /\ answer' = [sid |-> "0x71", id |-> owed.routine, ok |-> ret = "ok"]]_vars

\* The group that is cleared is the group the answered request asked for, even
\* when other requests arrive before the work item runs.
ClearAnswered ==
  [][owed.clear # None /\ owed'.clear = None => hooked = owed.clear]_vars

\* The responsePending timer of a routine runs exactly while an answer is owed:
\* the tester is never left waiting in silence, and no 0x78 follows an answer.
RoutineSupervised ==
  routine_timer <=>
    owed.routine # None /\ rx \notin {"start_status", "start_timer"}

\* Same for 0x14, where the callback restarts its own one-shot timer and may
\* fire between the worker's flag and its k_timer_stop; the last 10 ms before
\* the answer are silent.
ClearSupervised ==
  clear_timer /\ ~worker_done <=>
    /\ owed.clear # None
    /\ rx \notin {"clear_flag", "clear_timer"}
    /\ worker \notin {"clear_done", "clear_sleep"}

\* Each accepted request has its hook run once, with its own argument, while
\* the tester is told to wait, and is answered once: threads, timers, and the
\* statics that successive requests share, keep to that in every interleaving.
RunOnceAnswerOnce == Deferred!Spec

\* An accepted routine, or clear request, is eventually answered, also when
\* the other one occupies the workqueue or its predecessor is still sending.
RoutineServed == owed.routine # None ~> owed.routine = None
ClearServed == owed.clear # None ~> owed.clear = None

\* uds_clear_dtc.c:68, "Persistent clearance finished. Transmitting
\* confirmation frame.": a clear request is confirmed when the entries were
\* cleared.  Violated: the confirmation ignores what the hook returned.
ConfirmedOnlyIfCleared ==
  [][owed.clear # None /\ owed'.clear = None => ret = "ok"]_vars
=============================================================================
