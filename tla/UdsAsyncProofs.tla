--------------------------- MODULE UdsAsyncProofs ---------------------------
(***************************************************************************)
(* Theorems about UdsAsync for every set of routines and groups.           *)
(***************************************************************************)
EXTENDS UdsAsync, TLAPS, SequenceTheorems

Items == {"routine", "clear"}
Queues == {<<>>, <<"routine">>, <<"clear">>,
           <<"routine", "clear">>, <<"clear", "routine">>}

----------------------------------------------------------------------------
(* The queue.                                                              *)

\* A second item goes behind the first.
LEMMA AppendPair ==
  ASSUME NEW x \in Items, NEW y \in Items
  PROVE  Append(<<x>>, y) = <<x, y>>
<1>1. <<x>> \in Seq(Items) /\ <<x, y>> \in Seq(Items)
  OBVIOUS
<1>2. /\ Append(<<x>>, y) \in Seq(Items)
      /\ Len(Append(<<x>>, y)) = 2
      /\ Append(<<x>>, y)[1] = x
      /\ Append(<<x>>, y)[2] = y
  BY <1>1, AppendProperties
<1>3. \A k \in 1..2 : Append(<<x>>, y)[k] = <<x, y>>[k]
  BY <1>2
<1> QED BY <1>1, <1>2, <1>3, SeqEqual

\* The worker takes the first of two items.
LEMMA TailPair ==
  ASSUME NEW x \in Items, NEW y \in Items
  PROVE  Head(<<x, y>>) = x /\ Tail(<<x, y>>) = <<y>>
<1>1. <<x>> \in Seq(Items) /\ <<x>> # <<>>
  OBVIOUS
<1>2. Tail(<<x>>) = <<>> /\ Append(<<>>, y) = <<y>> /\ Head(<<x>>) = x
  BY SMT
<1> QED BY <1>1, <1>2, AppendPair, HeadTailAppend

\* Which items a queue holds.
Holds ==
  queue \in Queues =>
    /\ Queued("routine") <=> queue # <<>> /\ queue # <<"clear">>
    /\ Queued("clear") <=> queue # <<>> /\ queue # <<"routine">>

LEMMA QueueHolds == Holds
<1> SUFFICES ASSUME queue \in Queues PROVE Holds
  BY DEF Holds
<1>1. CASE queue = <<>>
  BY <1>1, SMT DEF Holds, Queued
<1>2. CASE queue = <<"routine">>
  BY <1>2, SMT DEF Holds, Queued
<1>3. CASE queue = <<"clear">>
  BY <1>3, SMT DEF Holds, Queued
<1>4. CASE queue = <<"routine", "clear">>
  BY <1>4, SMT DEF Holds, Queued
<1>5. CASE queue = <<"clear", "routine">>
  BY <1>5, SMT DEF Holds, Queued
<1> QED BY <1>1, <1>2, <1>3, <1>4, <1>5 DEF Queues

LEMMA QueueHoldsNext == Holds'
BY QueueHolds, PTL

\* Submitting an item queues it, once, and leaves the other one alone.
LEMMA SubmitFacts ==
  ASSUME queue \in Queues, NEW item \in Items, Submit(item)
  PROVE  /\ queue' \in Queues
         /\ Queued(item)'
         /\ \A other \in Items \ {item} : Queued(other)' <=> Queued(other)
<1>1. CASE Queued(item)
  <2>1. queue' = queue
    BY <1>1 DEF Submit
  <2> QED BY <1>1, <2>1 DEF Queued
<1>2. CASE ~Queued(item)
  <2>1. queue' = Append(queue, item)
    BY <1>2 DEF Submit
  <2>2. CASE queue = <<>>
    <3>1. queue' = <<item>>
      BY <2>1, <2>2, SMT
    <3> QED BY <2>2, <3>1, SMT DEF Queued, Queues, Items
  <2>3. CASE queue # <<>>
    <3>1. PICK other \in Items \ {item} : queue = <<other>>
      BY <1>2, <2>3, QueueHolds, SMT DEF Holds, Queues, Items
    <3>2. queue' = <<other, item>>
      BY <2>1, <3>1, AppendPair
    <3> QED BY <3>1, <3>2, SMT DEF Queued, Queues, Items
  <2> QED BY <2>2, <2>3
<1> QED BY <1>1, <1>2

\* The worker takes the first item, and only that.
LEMMA DequeueFacts ==
  ASSUME queue \in Queues, queue # <<>>, queue' = Tail(queue)
  PROVE  /\ queue' \in Queues
         /\ \E item \in Items :
              /\ item = Head(queue) /\ Queued(item) /\ ~Queued(item)'
              /\ \A other \in Items \ {item} : Queued(other)' <=> Queued(other)
<1>1. CASE queue = <<"routine">>
  <2>1. Head(queue) = "routine" /\ queue' = <<>>
    BY <1>1, SMT
  <2> QED BY <1>1, <2>1, QueueHolds, QueueHoldsNext, SMT DEF Holds, Queues,
      Items
<1>2. CASE queue = <<"clear">>
  <2>1. Head(queue) = "clear" /\ queue' = <<>>
    BY <1>2, SMT
  <2> QED BY <1>2, <2>1, QueueHolds, QueueHoldsNext, SMT DEF Holds, Queues,
      Items
<1>3. CASE queue = <<"routine", "clear">>
  <2>1. Head(queue) = "routine" /\ queue' = <<"clear">>
    BY <1>3, TailPair DEF Items
  <2> QED BY <1>3, <2>1, QueueHolds, QueueHoldsNext, SMT DEF Holds, Queues,
      Items
<1>4. CASE queue = <<"clear", "routine">>
  <2>1. Head(queue) = "clear" /\ queue' = <<"routine">>
    BY <1>4, TailPair DEF Items
  <2> QED BY <1>4, <2>1, QueueHolds, QueueHoldsNext, SMT DEF Holds, Queues,
      Items
<1> QED BY <1>1, <1>2, <1>3, <1>4 DEF Queues

LEMMA QueueSame ==
  ASSUME UNCHANGED queue
  PROVE  \A item \in Items : Queued(item)' <=> Queued(item)
BY DEF Queued

----------------------------------------------------------------------------
(* The inductive invariant.                                                *)

\* A routine occupies one stage at a time, status and statics are those of the
\* request under way, and the RX thread accepts no other before its answer.
RoutineTie ==
  /\ rx \in {"start_id", "start_status", "start_timer", "start_submit"} =>
       /\ arg \in Routines
       /\ ~Queued("routine") /\ worker \notin {"routine_hook", "routine_done"}
  /\ Queued("routine") => worker \notin {"routine_hook", "routine_done"}
  /\ rx \in {"start_id", "start_status"} => erase_routine_status # "RUNNING"
  /\ erase_routine_status = "RUNNING" <=>
       \/ rx \in {"start_timer", "start_submit"}
       \/ Queued("routine") \/ worker = "routine_hook"
  /\ owed.routine # None => owed.routine = active_routine_id
  /\ worker \in {"routine_hook", "routine_done"} => hooked = active_routine_id
  /\ worker = "routine_done" => (erase_routine_status = "COMPLETED" <=> ret = "ok")

\* The same for a clear request, with the flag that stops its timer.
ClearTie ==
  /\ rx \in {"clear_group", "clear_flag", "clear_timer", "clear_submit"} =>
       arg \in Groups /\ ~Queued("clear") /\ ~Executing("clear")
  /\ Queued("clear") => ~Executing("clear")
  /\ owed.clear # None => owed.clear = target_dtc_group
  /\ worker \in {"clear_hook", "clear_done", "clear_sleep"} =>
       hooked = target_dtc_group
  /\ rx \in {"clear_timer", "clear_submit"} \/ Queued("clear")
       \/ worker = "clear_hook" => ~worker_done
  /\ worker \in {"clear_done", "clear_sleep"} => worker_done
  /\ clear_timer => /\ owed.clear # None
                    /\ rx \notin {"clear_flag", "clear_timer"}
                    /\ worker # "clear_sleep"

Inv == /\ TypeOK /\ WorkMatchesDebt /\ RoutineSupervised /\ ClearSupervised
       /\ RoutineTie /\ ClearTie

\* The SMT backend does not see this by itself.
LEMMA FalseIsBoolean == \A b : b = FALSE => b \in BOOLEAN
BY Zenon

USE AsyncAssumption DEF Inv, TypeOK, WorkMatchesDebt, RoutineSupervised,
    ClearSupervised, RoutineTie, ClearTie, vars, routine_vars, clear_vars,
    history, worker_vars, Rx, RxRuns, Executing, Items

LEMMA InitInv == Init => Inv
<1>1. Init => ~Queued("routine") /\ ~Queued("clear")
  BY QueueHolds, SMT DEF Init, Holds, Queues
<1> QED BY <1>1, FalseIsBoolean, SMT DEF Init

LEMMA RxInv ==
  ASSUME Inv, RoutineStart \/ ClearRequest \/ RxHandles
  PROVE  Inv'
<1>1. CASE RoutineStart
  BY <1>1, QueueSame, SMT DEF RoutineStart, StartTest
<1>2. CASE ClearRequest
  BY <1>2, QueueSame, SMT DEF ClearRequest, Pending
<1>3. CASE StoreId
  BY <1>3, QueueSame, SMT DEF StoreId
<1>4. CASE StoreStatus
  BY <1>4, QueueSame, SMT DEF StoreStatus
<1>5. CASE StartTimer
  BY <1>5, QueueSame, SMT DEF StartTimer
<1>6. CASE StartSubmit
  <2>1. Submit("routine")
    BY <1>6 DEF StartSubmit
  <2>2. /\ queue' \in Queues /\ Queued("routine")'
        /\ \A other \in Items \ {"routine"} : Queued(other)' <=> Queued(other)
    BY <2>1, SubmitFacts DEF Queues
  <2> QED BY <1>6, <2>2, SMT DEF StartSubmit, Queues
<1>7. CASE StoreGroup
  BY <1>7, QueueSame, SMT DEF StoreGroup
<1>8. CASE StoreFlag
  BY <1>8, QueueSame, FalseIsBoolean, SMT DEF StoreFlag
<1>9. CASE ClearTimer
  BY <1>9, QueueSame, SMT DEF ClearTimer
<1>10. CASE ClearSubmit
  <2>1. Submit("clear")
    BY <1>10 DEF ClearSubmit
  <2>2. /\ queue' \in Queues /\ Queued("clear")'
        /\ \A other \in Items \ {"clear"} : Queued(other)' <=> Queued(other)
    BY <2>1, SubmitFacts DEF Queues
  <2> QED BY <1>10, <2>2, SMT DEF ClearSubmit, Queues
<1> QED BY <1>1, <1>2, <1>3, <1>4, <1>5, <1>6, <1>7, <1>8, <1>9, <1>10
    DEF RxHandles

LEMMA WorkInv ==
  ASSUME Inv, Work
  PROVE  Inv'
<1>1. CASE Dequeue
  <2>1. /\ queue' \in Queues
        /\ \E item \in Items :
             /\ item = Head(queue) /\ Queued(item) /\ ~Queued(item)'
             /\ \A other \in Items \ {item} : Queued(other)' <=> Queued(other)
    BY <1>1, DequeueFacts DEF Dequeue, Queues
  <2> QED BY <1>1, <2>1, SMT DEF Dequeue, Queues
<1>2. CASE RoutineHook
  BY <1>2, QueueSame, SMT DEF RoutineHook
<1>3. CASE RoutineAnswer
  BY <1>3, QueueSame, FalseIsBoolean, SMT DEF RoutineAnswer
<1>4. CASE ClearHook
  BY <1>4, QueueSame, SMT DEF ClearHook
<1>5. CASE ClearStop
  BY <1>5, QueueSame, FalseIsBoolean, SMT DEF ClearStop
<1>6. CASE ClearAnswer
  BY <1>6, QueueSame, SMT DEF ClearAnswer
<1>7. CASE Sent
  BY <1>7, QueueSame, SMT DEF Sent
<1> QED BY <1>1, <1>2, <1>3, <1>4, <1>5, <1>6, <1>7 DEF Work

LEMMA NextInv == Inv /\ [Next]_vars => Inv'
<1> SUFFICES ASSUME Inv, [Next]_vars PROVE Inv' OBVIOUS
<1>1. CASE RoutineStart \/ ClearRequest \/ RxHandles
  BY <1>1, RxInv
<1>2. CASE Work
  BY <1>2, WorkInv
<1>3. CASE ClearPending
  <2>1. CASE worker_done
    <3>1. clear_timer' = FALSE
      BY <1>3, <2>1, Zenon DEF ClearPending
    <3> QED BY <1>3, <3>1, QueueSame, FalseIsBoolean, SMT DEF ClearPending
  <2>2. CASE ~worker_done
    <3>1. clear_timer' = TRUE
      BY <1>3, <2>2, Zenon DEF ClearPending
    <3> QED BY <1>3, <3>1, QueueSame, SMT DEF ClearPending
  <2> QED BY <2>1, <2>2
<1>4. CASE UNCHANGED vars
  BY <1>4, QueueSame, SMT
<1> QED BY <1>1, <1>2, <1>3, <1>4 DEF Next

\* The two action properties: the answer is given by the steps of the worker.
LEMMA AnswerSteps ==
  ASSUME Inv, [Next]_vars
  PROVE  /\ owed.routine # None /\ owed'.routine = None =>
              /\ hooked = owed.routine
              /\ answer' = [sid |-> "0x71", id |-> owed.routine, ok |-> ret = "ok"]
         /\ owed.clear # None /\ owed'.clear = None => hooked = owed.clear
<1>1. CASE RoutineAnswer
  <2>1. (erase_routine_status = "COMPLETED") = (ret = "ok")
    BY <1>1, SMT DEF RoutineAnswer
  <2> QED BY <1>1, <2>1, SMT DEF RoutineAnswer
<1>2. CASE ClearAnswer
  BY <1>2, SMT DEF ClearAnswer
<1>3. CASE StoreId
  BY <1>3, SMT DEF StoreId
<1>4. CASE StoreGroup
  BY <1>4, SMT DEF StoreGroup
<1>5. CASE UNCHANGED owed
  BY <1>5
<1> QED
  BY <1>1, <1>2, <1>3, <1>4, <1>5, SMT DEF Next, RxHandles, Work, RoutineStart,
     ClearRequest, StoreStatus, StartTimer, StartSubmit, StoreFlag, ClearTimer,
     ClearSubmit, Dequeue, RoutineHook, ClearHook, ClearStop, Sent,
    ClearPending

HIDE DEF Inv, TypeOK, WorkMatchesDebt, RoutineSupervised, ClearSupervised,
    RoutineTie, ClearTie, vars

LEMMA Invariance == Spec => []Inv
BY InitInv, NextInv, PTL DEF Spec

\* Every variable keeps its type, and the workqueue holds no item twice,
\* whatever requests arrive while thread, worker and timers interleave.
THEOREM TypeCorrect == Spec => []TypeOK
<1>1. Inv => TypeOK
  BY DEF Inv
<1> QED BY <1>1, Invariance, PTL

\* A work item waits or runs exactly while its request is owed an answer.
THEOREM WorkMatched == Spec => []WorkMatchesDebt
<1>1. Inv => WorkMatchesDebt
  BY DEF Inv
<1> QED BY <1>1, Invariance, PTL

\* A routine's responsePending timer runs exactly while its answer is owed.
THEOREM RoutinesSupervised == Spec => []RoutineSupervised
<1>1. Inv => RoutineSupervised
  BY DEF Inv
<1> QED BY <1>1, Invariance, PTL

\* So does that of a clear request, up to the last 10 ms.
THEOREM ClearsSupervised == Spec => []ClearSupervised
<1>1. Inv => ClearSupervised
  BY DEF Inv
<1> QED BY <1>1, Invariance, PTL

\* The answer to startRoutine is about the routine that was asked for.
THEOREM RoutinesAnswered == Spec => RoutineAnswered
<1>1. Inv /\ [Next]_vars =>
        [owed.routine # None /\ owed'.routine = None =>
           /\ hooked = owed.routine
           /\ answer' = [sid |-> "0x71", id |-> owed.routine, ok |-> ret = "ok"]]_vars
  BY AnswerSteps
<1> QED BY <1>1, Invariance, PTL DEF Spec, RoutineAnswered

\* The group that is cleared is the group that was asked for.
THEOREM ClearsAnswered == Spec => ClearAnswered
<1>1. Inv /\ [Next]_vars =>
        [owed.clear # None /\ owed'.clear = None => hooked = owed.clear]_vars
  BY AnswerSteps
<1> QED BY <1>1, Invariance, PTL DEF Spec, ClearAnswered

----------------------------------------------------------------------------
(* Refinement.                                                             *)

\* What is kept for each of the two services, read and updated.
LEMMA BothFacts ==
  ASSUME NEW r, NEW c
  PROVE  /\ DOMAIN Both(r, c) = Items
         /\ Both(r, c)["routine"] = r /\ Both(r, c)["clear"] = c
         /\ [s \in Items |-> r] = Both(r, r)
BY DEF Both, Items

LEMMA BothUpdate ==
  ASSUME NEW r, NEW c, NEW x
  PROVE  /\ [Both(r, c) EXCEPT !["routine"] = x] = Both(x, c)
         /\ [Both(r, c) EXCEPT !["clear"] = x] = Both(r, x)
<1>1. [Both(r, c) EXCEPT !["routine"] = x] = Both(x, c)
  <2> DEFINE u == [Both(r, c) EXCEPT !["routine"] = x]
  <2>1. u["routine"] = x /\ u["clear"] = c /\ DOMAIN u = Items
    BY DEF Both, Items
  <2>2. u = [s \in Items |-> IF s = "routine" THEN x ELSE c]
    BY <2>1 DEF Items
  <2>3. Both(x, c) = [s \in Items |-> IF s = "routine" THEN x ELSE c]
    BY DEF Both, Items
  <2> QED BY <2>2, <2>3
<1>2. [Both(r, c) EXCEPT !["clear"] = x] = Both(r, x)
  BY DEF Both
<1> QED BY <1>1, <1>2

\* The arguments of a service.
LEMMA ServiceFacts ==
  /\ Deferred!Services = Items
  /\ "routine" \in Items /\ "clear" \in Items
BY BothFacts DEF Deferred!Services, Items

\* A step that neither starts nor ends a hook leaves what has run alone.
LEMMA RanSame ==
  ASSUME \/ UNCHANGED worker_vars
         \/ worker \in {"idle", "routine_hook", "routine_send", "clear_hook",
                        "clear_send"}
            /\ worker' \in {"idle", "routine_hook", "routine_send", "clear_hook",
                            "clear_send"}
  PROVE  UNCHANGED <<HookedIf(RoutineRan), HookedIf(ClearRan),
                     ReturnedIf(RoutineRan), ReturnedIf(ClearRan)>>
BY SMT DEF worker_vars, HookedIf, ReturnedIf, RoutineRan, ClearRan

\* What the hooks have done is read off the worker.
Ran == Both(HookedIf(RoutineRan), HookedIf(ClearRan))
Results == Both(ReturnedIf(RoutineRan), ReturnedIf(ClearRan))
Waiting == Both(routine_timer, ClearWaits)

LEMMA RanFacts ==
  /\ Ran["routine"] = IF worker = "routine_done" THEN hooked ELSE None
  /\ Results["routine"] = IF worker = "routine_done" THEN ret ELSE "none"
  /\ Ran["clear"] = IF worker \in {"clear_done", "clear_sleep"} THEN hooked ELSE None
  /\ Results["clear"] = IF worker \in {"clear_done", "clear_sleep"} THEN ret ELSE "none"
BY BothFacts DEF Ran, Results, HookedIf, ReturnedIf, RoutineRan, ClearRan

LEMMA RanKept ==
  ASSUME \/ UNCHANGED worker_vars
         \/ worker \in {"idle", "routine_hook", "routine_send", "clear_hook",
                        "clear_send"}
            /\ worker' \in {"idle", "routine_hook", "routine_send", "clear_hook",
                            "clear_send"}
  PROVE  UNCHANGED <<Ran, Results>>
BY RanSame, Zenon DEF Ran, Results

LEMMA WaitingKept ==
  ASSUME UNCHANGED <<routine_timer, clear_timer, worker_done>>
  PROVE  UNCHANGED Waiting
BY Zenon DEF Waiting, ClearWaits

LEMMA WaitingSet ==
  ASSUME NEW x
  PROVE  /\ [Waiting EXCEPT !["routine"] = x] = Both(x, ClearWaits)
         /\ [Waiting EXCEPT !["clear"] = x] = Both(routine_timer, x)
BY BothUpdate DEF Waiting

LEMMA RanSet ==
  ASSUME NEW x
  PROVE  /\ [Ran EXCEPT !["routine"] = x] = Both(x, HookedIf(ClearRan))
         /\ [Ran EXCEPT !["clear"] = x] = Both(HookedIf(RoutineRan), x)
         /\ [Results EXCEPT !["routine"] = x] = Both(x, ReturnedIf(ClearRan))
         /\ [Results EXCEPT !["clear"] = x] = Both(ReturnedIf(RoutineRan), x)
BY BothUpdate DEF Ran, Results

\* A request is accepted by the step that makes it owed.
LEMMA AcceptImplements ==
  ASSUME Inv, StoreId \/ StoreGroup
  PROVE  Deferred!Next
<1>1. UNCHANGED <<Ran, Results, Waiting, answer>>
  BY RanKept, WaitingKept, Zenon DEF StoreId, StoreGroup
<1>2. CASE StoreId
  <2>1. owed["routine"] = None /\ arg \in Both(Routines, Groups)["routine"]
    <3>1. owed.routine = None /\ arg \in Routines
      BY <1>2, SMT DEF StoreId, Inv, TypeOK, WorkMatchesDebt, RoutineTie, Rx
    <3> QED BY <3>1, BothFacts
  <2>2. owed' = [owed EXCEPT !["routine"] = arg]
    BY <1>2 DEF StoreId
  <2>3. Deferred!Accept("routine")
    BY <1>1, <2>1, <2>2, Zenon DEF Deferred!Accept, Ran, Results, Waiting
  <2> QED BY <2>3, ServiceFacts DEF Deferred!Next
<1>3. CASE StoreGroup
  <2>1. owed["clear"] = None /\ arg \in Both(Routines, Groups)["clear"]
    <3>1. owed.clear = None /\ arg \in Groups
      BY <1>3, SMT DEF StoreGroup, Inv, TypeOK, WorkMatchesDebt, ClearTie, Rx,
         Executing
    <3> QED BY <3>1, BothFacts
  <2>2. owed' = [owed EXCEPT !["clear"] = arg]
    BY <1>3 DEF StoreGroup
  <2>3. Deferred!Accept("clear")
    BY <1>1, <2>1, <2>2, Zenon DEF Deferred!Accept, Ran, Results, Waiting
  <2> QED BY <2>3, ServiceFacts DEF Deferred!Next
<1> QED BY <1>2, <1>3

\* The timer is started before the item is submitted.
LEMMA SuperviseImplements ==
  ASSUME Inv, StartTimer \/ ClearTimer
  PROVE  Deferred!Next
<1>1. UNCHANGED <<Ran, Results, owed, answer>>
  BY RanKept, Zenon DEF StartTimer, ClearTimer, history
<1>2. CASE StartTimer
  <2>1. owed["routine"] # None /\ Ran["routine"] = None
    BY <1>2, RanFacts, SMT DEF StartTimer, Inv, TypeOK, WorkMatchesDebt,
       RoutineTie, Rx
  <2>2. routine_timer' = TRUE /\ UNCHANGED <<clear_timer, worker_done>>
    BY <1>2 DEF StartTimer, clear_vars
  <2>3. Waiting' = [Waiting EXCEPT !["routine"] = TRUE]
    BY <2>2, WaitingSet, Zenon DEF Waiting, ClearWaits
  <2>4. Deferred!Supervise("routine")
    BY <1>1, <2>1, <2>3, Zenon DEF Deferred!Supervise, Ran, Results, Waiting
  <2> QED BY <2>4, ServiceFacts DEF Deferred!Next
<1>3. CASE ClearTimer
  <2>1. owed["clear"] # None /\ Ran["clear"] = None /\ ~worker_done
    BY <1>3, RanFacts, SMT DEF ClearTimer, Inv, TypeOK, WorkMatchesDebt,
       ClearTie, Rx, Executing
  <2>2. clear_timer' = TRUE /\ UNCHANGED <<routine_timer, worker_done>>
    BY <1>3 DEF ClearTimer, routine_vars
  <2>3. ClearWaits' = TRUE
    BY <2>1, <2>2 DEF ClearWaits
  <2>4. Waiting' = [Waiting EXCEPT !["clear"] = TRUE]
    BY <2>2, <2>3, WaitingSet, Zenon DEF Waiting
  <2>5. Deferred!Supervise("clear")
    BY <1>1, <2>1, <2>4, Zenon DEF Deferred!Supervise, Ran, Results, Waiting
  <2> QED BY <2>5, ServiceFacts DEF Deferred!Next
<1> QED BY <1>2, <1>3

LEMMA RunImplements ==
  ASSUME Inv, RoutineHook \/ ClearHook
  PROVE  Deferred!Next
<1>1. UNCHANGED <<hooked, owed, answer, routine_timer, clear_timer>>
      /\ ret' \in {"ok", "error"}
  BY Zenon DEF RoutineHook, ClearHook, history, routine_vars, clear_vars
<1>2. CASE RoutineHook
  <2>1. /\ owed["routine"] # None /\ Ran["routine"] = None
        /\ hooked = owed["routine"] /\ routine_timer = TRUE
    BY <1>2, RanFacts, SMT DEF RoutineHook, Inv, TypeOK, WorkMatchesDebt,
       RoutineTie, RoutineSupervised
  <2>2. Waiting["routine"]
    BY <2>1, BothFacts DEF Waiting
  <2>3. worker = "routine_hook" /\ worker' = "routine_done" /\ UNCHANGED worker_done
    BY <1>2 DEF RoutineHook, clear_vars
  <2>4. Ran' = [Ran EXCEPT !["routine"] = owed["routine"]]
    <3>1. HookedIf(RoutineRan)' = owed["routine"] /\ HookedIf(ClearRan) = None
          /\ HookedIf(ClearRan)' = None
      BY <1>1, <2>1, <2>3 DEF HookedIf, RoutineRan, ClearRan
    <3> QED BY <3>1, RanSet, Zenon DEF Ran
  <2>5. Results' = [Results EXCEPT !["routine"] = ret']
    <3>1. ReturnedIf(RoutineRan)' = ret' /\ ReturnedIf(ClearRan) = "none"
          /\ ReturnedIf(ClearRan)' = "none"
      BY <2>3 DEF ReturnedIf, RoutineRan, ClearRan
    <3> QED BY <3>1, RanSet, Zenon DEF Results
  <2>6. Waiting' = Waiting
    BY <1>1, <2>3, WaitingKept
  <2>7. Deferred!Run("routine")
    BY <1>1, <2>1, <2>2, <2>4, <2>5, <2>6, Zenon
       DEF Deferred!Run, Ran, Results, Waiting
  <2> QED BY <2>7, ServiceFacts DEF Deferred!Next
<1>3. CASE ClearHook
  <2>1. /\ owed["clear"] # None /\ Ran["clear"] = None
        /\ hooked = owed["clear"] /\ ClearWaits = TRUE
    BY <1>3, RanFacts, SMT DEF ClearHook, Inv, TypeOK, WorkMatchesDebt,
       ClearTie, ClearSupervised, Executing, ClearWaits
  <2>2. Waiting["clear"]
    BY <2>1, BothFacts DEF Waiting
  <2>3. worker = "clear_hook" /\ worker' = "clear_done" /\ worker_done' = TRUE
    BY <1>3 DEF ClearHook
  <2>4. Ran' = [Ran EXCEPT !["clear"] = owed["clear"]]
    <3>1. HookedIf(ClearRan)' = owed["clear"] /\ HookedIf(RoutineRan) = None
          /\ HookedIf(RoutineRan)' = None
      BY <1>1, <2>1, <2>3 DEF HookedIf, RoutineRan, ClearRan
    <3> QED BY <3>1, RanSet, Zenon DEF Ran
  <2>5. Results' = [Results EXCEPT !["clear"] = ret']
    <3>1. ReturnedIf(ClearRan)' = ret' /\ ReturnedIf(RoutineRan) = "none"
          /\ ReturnedIf(RoutineRan)' = "none"
      BY <2>3 DEF ReturnedIf, RoutineRan, ClearRan
    <3> QED BY <3>1, RanSet, Zenon DEF Results
  <2>6. Waiting' = [Waiting EXCEPT !["clear"] = FALSE]
    <3>1. ClearWaits' = FALSE
      BY <2>3 DEF ClearWaits
    <3> QED BY <1>1, <3>1, WaitingSet, Zenon DEF Waiting
  <2>7. Deferred!Run("clear")
    BY <1>1, <2>1, <2>2, <2>4, <2>5, <2>6, Zenon
       DEF Deferred!Run, Ran, Results, Waiting
  <2> QED BY <2>7, ServiceFacts DEF Deferred!Next
<1> QED BY <1>2, <1>3

LEMMA AnswerImplements ==
  ASSUME Inv, RoutineAnswer \/ ClearAnswer
  PROVE  Deferred!Next
<1>1. UNCHANGED <<hooked, ret, clear_timer, worker_done>>
  BY Zenon DEF RoutineAnswer, ClearAnswer, clear_vars
<1>2. CASE RoutineAnswer
  <2>1. worker = "routine_done" /\ worker' = "routine_send"
    BY <1>2 DEF RoutineAnswer
  <2>2. /\ Ran["routine"] = active_routine_id /\ Ran["routine"] # None
        /\ Results["routine"] = ret
        /\ (erase_routine_status = "COMPLETED") = (ret = "ok")
    BY <2>1, RanFacts, SMT DEF Inv, TypeOK, WorkMatchesDebt, RoutineTie
  <2>3. answer' = [sid |-> Both("0x71", "0x54")["routine"],
                   id |-> Ran["routine"],
                   ok |-> "routine" \in {"routine"} => Results["routine"] = "ok"]
    <3>1. answer' = [sid |-> "0x71", id |-> Ran["routine"], ok |-> ret = "ok"]
      BY <1>2, <2>2, Zenon DEF RoutineAnswer
    <3>2. ("routine" \in {"routine"} => Results["routine"] = "ok") = (ret = "ok")
      BY <2>2
    <3>3. Both("0x71", "0x54")["routine"] = "0x71"
      BY BothFacts
    <3> QED BY <3>1, <3>2, <3>3, Zenon
  <2>4. owed' = [owed EXCEPT !["routine"] = None]
    BY <1>2 DEF RoutineAnswer
  <2>5. Ran' = [Ran EXCEPT !["routine"] = None]
    <3>1. HookedIf(RoutineRan)' = None /\ HookedIf(ClearRan) = None
          /\ HookedIf(ClearRan)' = None
      BY <2>1 DEF HookedIf, RoutineRan, ClearRan
    <3> QED BY <3>1, RanSet, Zenon DEF Ran
  <2>6. Results' = [Results EXCEPT !["routine"] = "none"]
    <3>1. ReturnedIf(RoutineRan)' = "none" /\ ReturnedIf(ClearRan) = "none"
          /\ ReturnedIf(ClearRan)' = "none"
      BY <2>1 DEF ReturnedIf, RoutineRan, ClearRan
    <3> QED BY <3>1, RanSet, Zenon DEF Results
  <2>7. Waiting' = [Waiting EXCEPT !["routine"] = FALSE]
    <3>1. routine_timer' = FALSE
      BY <1>2 DEF RoutineAnswer
    <3> QED BY <1>1, <3>1, WaitingSet, Zenon DEF Waiting, ClearWaits
  <2>8. Deferred!Answer("routine")
    BY <2>2, <2>3, <2>4, <2>5, <2>6, <2>7, Zenon
       DEF Deferred!Answer, Ran, Results, Waiting
  <2> QED BY <2>8, ServiceFacts DEF Deferred!Next
<1>3. CASE ClearAnswer
  <2>1. worker = "clear_sleep" /\ worker' = "clear_send"
    BY <1>3 DEF ClearAnswer
  <2>2. /\ Ran["clear"] = target_dtc_group /\ Ran["clear"] # None
        /\ clear_timer = FALSE
    BY <2>1, RanFacts, SMT DEF Inv, TypeOK, WorkMatchesDebt, ClearTie
  <2>3. answer' = [sid |-> Both("0x71", "0x54")["clear"],
                   id |-> Ran["clear"],
                   ok |-> "clear" \in {"routine"} => Results["clear"] = "ok"]
    <3>1. answer' = [sid |-> "0x54", id |-> Ran["clear"], ok |-> TRUE]
      BY <1>3, <2>2, Zenon DEF ClearAnswer
    <3>2. ("clear" \in {"routine"} => Results["clear"] = "ok") = TRUE
      OBVIOUS
    <3>3. Both("0x71", "0x54")["clear"] = "0x54"
      BY BothFacts
    <3> QED BY <3>1, <3>2, <3>3, Zenon
  <2>4. owed' = [owed EXCEPT !["clear"] = None]
    BY <1>3 DEF ClearAnswer
  <2>5. Ran' = [Ran EXCEPT !["clear"] = None]
    <3>1. HookedIf(ClearRan)' = None /\ HookedIf(RoutineRan) = None
          /\ HookedIf(RoutineRan)' = None
      BY <2>1 DEF HookedIf, RoutineRan, ClearRan
    <3> QED BY <3>1, RanSet, Zenon DEF Ran
  <2>6. Results' = [Results EXCEPT !["clear"] = "none"]
    <3>1. ReturnedIf(ClearRan)' = "none" /\ ReturnedIf(RoutineRan) = "none"
          /\ ReturnedIf(RoutineRan)' = "none"
      BY <2>1 DEF ReturnedIf, RoutineRan, ClearRan
    <3> QED BY <3>1, RanSet, Zenon DEF Results
  <2>7. Waiting' = [Waiting EXCEPT !["clear"] = FALSE]
    <3>1. ClearWaits' = FALSE /\ routine_timer' = routine_timer
      BY <1>1, <1>3, <2>2, Zenon DEF ClearAnswer, ClearWaits, routine_vars
    <3> QED BY <3>1, WaitingSet, Zenon DEF Waiting
  <2>8. Deferred!Answer("clear")
    BY <2>2, <2>3, <2>4, <2>5, <2>6, <2>7, Zenon
       DEF Deferred!Answer, Ran, Results, Waiting
  <2> QED BY <2>8, ServiceFacts DEF Deferred!Next
<1> QED BY <1>2, <1>3

\* The other steps are the service's own business.
LEMMA OthersImplement ==
  ASSUME Inv,
         \/ RoutineStart \/ ClearRequest \/ StoreStatus \/ StartSubmit
         \/ StoreFlag \/ ClearSubmit \/ Dequeue \/ ClearStop \/ Sent
         \/ ClearPending \/ UNCHANGED vars
  PROVE  UNCHANGED <<owed, answer, Waiting, Ran, Results>>
<1>1. UNCHANGED <<owed, answer, routine_timer>>
  BY Zenon DEF RoutineStart, ClearRequest, StoreStatus, StartSubmit, StoreFlag,
     ClearSubmit, Dequeue, ClearStop, Sent, ClearPending, vars, history,
     routine_vars
<1>2. UNCHANGED <<Ran, Results>>
  <2>1. CASE Dequeue
    <3>1. worker = "idle" /\ worker' \in {"routine_hook", "clear_hook"}
      BY <2>1, Zenon DEF Dequeue
    <3> QED BY <3>1, RanKept
  <2>2. CASE Sent
    BY <2>2, RanKept DEF Sent
  <2>3. CASE ClearStop
    <3>1. /\ worker = "clear_done" /\ worker' = "clear_sleep"
          /\ UNCHANGED <<hooked, ret>>
      BY <2>3 DEF ClearStop
    <3>2. /\ UNCHANGED <<HookedIf(RoutineRan), HookedIf(ClearRan)>>
          /\ UNCHANGED <<ReturnedIf(RoutineRan), ReturnedIf(ClearRan)>>
      BY <3>1 DEF HookedIf, ReturnedIf, RoutineRan, ClearRan
    <3> QED BY <3>2, Zenon DEF Ran, Results
  <2>4. CASE ~(Dequeue \/ Sent \/ ClearStop)
    <3>1. UNCHANGED worker_vars
      BY <2>4, Zenon DEF RoutineStart, ClearRequest, StoreStatus, StartSubmit,
         StoreFlag, ClearSubmit, ClearPending, vars
    <3> QED BY <3>1, RanKept
  <2> QED BY <2>1, <2>2, <2>3, <2>4
<1>3. ClearWaits' = ClearWaits
  <2>1. CASE StoreFlag
    <3>1. clear_timer = FALSE /\ clear_timer' = clear_timer
      <4>1. rx = "clear_flag" /\ ClearTie /\ TypeOK
        BY <2>1 DEF StoreFlag, Inv, Rx
      <4>2. ~clear_timer
        BY <4>1, SMT DEF ClearTie
      <4> QED BY <2>1, <4>1, <4>2 DEF StoreFlag, TypeOK
    <3> QED BY <3>1 DEF ClearWaits
  <2>2. CASE ClearStop
    <3>1. worker = "clear_done" /\ ClearTie /\ worker_done' = worker_done
      BY <2>2 DEF ClearStop, Inv
    <3>2. worker_done
      BY <3>1, SMT DEF ClearTie
    <3> QED BY <3>1, <3>2 DEF ClearWaits
  <2>3. CASE ClearPending
    BY <2>3 DEF ClearPending, ClearWaits
  <2>4. CASE ~(StoreFlag \/ ClearStop \/ ClearPending)
    <3>1. UNCHANGED <<clear_timer, worker_done>>
      BY <2>4, Zenon DEF RoutineStart, ClearRequest, StoreStatus, StartSubmit,
         ClearSubmit, Dequeue, Sent, vars, clear_vars
    <3> QED BY <3>1 DEF ClearWaits
  <2> QED BY <2>1, <2>2, <2>3, <2>4
<1> QED BY <1>1, <1>2, <1>3, Zenon DEF Waiting

LEMMA NextImplements ==
  ASSUME Inv, [Next]_vars
  PROVE  [Deferred!Next]_(Deferred!service)
<1>1. CASE StoreId \/ StoreGroup
  BY <1>1, AcceptImplements
<1>2. CASE StartTimer \/ ClearTimer
  BY <1>2, SuperviseImplements
<1>3. CASE RoutineHook \/ ClearHook
  BY <1>3, RunImplements
<1>4. CASE RoutineAnswer \/ ClearAnswer
  BY <1>4, AnswerImplements
<1>5. CASE \/ RoutineStart \/ ClearRequest \/ StoreStatus \/ StartSubmit
           \/ StoreFlag \/ ClearSubmit \/ Dequeue \/ ClearStop \/ Sent
           \/ ClearPending \/ UNCHANGED vars
  <2>1. UNCHANGED <<owed, answer, Waiting, Ran, Results>>
    BY <1>5, OthersImplement
  <2> QED BY <2>1, Zenon DEF Deferred!service, Waiting, Ran, Results
<1> QED
  BY <1>1, <1>2, <1>3, <1>4, <1>5, Zenon DEF Next, RxHandles, Work

LEMMA InitImplements == Init => Deferred!Init
<1> SUFFICES ASSUME Init PROVE Deferred!Init
  OBVIOUS
<1>1. /\ owed = Both(None, None) /\ Waiting = Both(FALSE, FALSE)
      /\ answer = Deferred!NoAnswer
  <2>1. ClearWaits = FALSE /\ routine_timer = FALSE
    BY DEF Init, ClearWaits
  <2> QED BY <2>1, Zenon DEF Init, Waiting, Both, Deferred!NoAnswer
<1>2. Ran = Both(None, None) /\ Results = Both("none", "none")
  <2>1. HookedIf(RoutineRan) = None /\ HookedIf(ClearRan) = None
        /\ ReturnedIf(RoutineRan) = "none" /\ ReturnedIf(ClearRan) = "none"
    BY DEF Init, HookedIf, ReturnedIf, RoutineRan, ClearRan
  <2> QED BY <2>1, Zenon DEF Ran, Results
<1>3. \A x : [s \in Items |-> x] = Both(x, x)
  BY BothFacts
<1> QED
  BY <1>1, <1>2, <1>3, ServiceFacts, Zenon DEF Deferred!Init, Waiting, Ran,
     Results

\* For every set of routines and of groups: RX thread, worker, timers and the
\* statics they share do what DeferredService promises, each accepted request
\* has its hook run once, with its own argument, and is answered once.
THEOREM Refinement == Spec => RunOnceAnswerOnce
<1>1. Inv /\ [Next]_vars => [Deferred!Next]_(Deferred!service)
  BY NextImplements
<1> QED
  BY <1>1, InitImplements, Invariance, PTL
     DEF Spec, RunOnceAnswerOnce, Deferred!Spec
=============================================================================
