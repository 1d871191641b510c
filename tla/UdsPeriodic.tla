---------------------------- MODULE UdsPeriodic ----------------------------
(***************************************************************************)
(* ReadDataByPeriodicIdentifier (0x2A, uds_periodic.c).  The RX thread     *)
(* edits a table of identifiers that a second thread walks every 10 ms and *)
(* samples; nothing guards the table.  The sampling thread has priority 6  *)
(* and the RX thread 7, so the sampling thread preempts the RX thread      *)
(* between any two of its accesses, while the RX thread runs only when the *)
(* other one sleeps or is blocked in the hook or in a transmission.        *)
(***************************************************************************)
EXTENDS Integers

CONSTANTS Dids,       \* periodic identifiers
          NoDid,      \* what a slot holds before its first use
          Slots,      \* 5
          StoreFirst  \* active_periodic_dids[active_did_count++] = req[2] leaves
                      \* the order of its two writes open: which one comes first?

ASSUME PeriodicAssumption ==
  NoDid \notin Dids /\ Slots \in Nat \ {0} /\ StoreFirst \in BOOLEAN

VARIABLES active_periodic_dids, active_did_count,
          rx,      \* control point of the RX thread
          did,     \* the identifier it registers
          thread,  \* control point of the sampling thread
          i,       \* its loop index, from 1
          sample   \* the identifier in its transmission buffer

\* History: identifiers asked for since the last stop, and frames sent since
\* then for others.
VARIABLES asked, late

table == <<active_periodic_dids, active_did_count>>
vars == <<table, rx, did, thread, i, sample, asked, late>>

RxRuns == thread \in {"sleep", "hook", "send"}
Rx(from, to) == RxRuns /\ rx = from /\ rx' = to

----------------------------------------------------------------------------
(* uds_handle_periodic_request.                                            *)

BugRoom == active_did_count <= Slots
Room == active_did_count < Slots

\* sendAtFastRate; with a full table the request is refused.  An identifier
\* may be registered twice.
Start ==
  /\ Rx("recv", "register")
  /\ Room
  /\ did' \in Dids
  /\ asked' = asked \cup {did'}
  /\ UNCHANGED <<table, thread, i, sample, late>>

StoreDid(slot) ==
  /\ active_periodic_dids' = [active_periodic_dids EXCEPT ![slot] = did]
  /\ UNCHANGED active_did_count

Count == /\ active_did_count' = active_did_count + 1
         /\ UNCHANGED active_periodic_dids

\* The two writes, in the order the build chose.
Register ==
  /\ \/ /\ Rx("register", "registered")
        /\ IF StoreFirst THEN StoreDid(active_did_count + 1) ELSE Count
     \/ /\ Rx("registered", "recv")
        /\ IF StoreFirst THEN Count ELSE StoreDid(active_did_count)
  /\ UNCHANGED <<did, thread, i, sample, asked, late>>

\* stopTransmission, whatever identifiers it names.
BugStop ==
  /\ Rx("recv", "recv")
  /\ active_did_count' = IF active_did_count = 0 THEN 0 ELSE active_did_count - 1
  /\ asked' = {} /\ late' = 0
  /\ UNCHANGED <<active_periodic_dids, did, thread, i, sample>>
Stop ==
  /\ Rx("recv", "recv")
  /\ active_did_count' = 0
  /\ asked' = {} /\ late' = 0
  /\ UNCHANGED <<active_periodic_dids, did, thread, i, sample>>

----------------------------------------------------------------------------
(* uds_periodic_thread_handler.                                            *)

BugFirst == 2
First == 1

\* k_msleep ends and the loop begins.
Wake ==
  /\ thread = "sleep" /\ thread' = "loop"
  /\ i' = First
  /\ UNCHANGED <<table, rx, did, sample, asked, late>>

BugMore == i <= Slots
More == i <= active_did_count

\* The count is read again in every round.
Sample ==
  /\ thread = "loop"
  /\ \/ /\ More
        /\ thread' = "hook" /\ sample' = active_periodic_dids[i]
     \/ /\ ~More
        /\ thread' = "sleep" /\ UNCHANGED sample
  /\ UNCHANGED <<table, rx, did, i, asked, late>>

\* uds_app_get_periodic_did delivers a value, or fails and nothing is sent.
Hook ==
  /\ thread = "hook"
  /\ \/ /\ thread' = "send"
        /\ late' = IF sample \in asked THEN late ELSE late + 1
        /\ UNCHANGED i
     \/ /\ thread' = "loop" /\ i' = i + 1
        /\ UNCHANGED late
  /\ UNCHANGED <<table, rx, did, sample, asked>>

Sent ==
  /\ thread = "send" /\ thread' = "loop"
  /\ i' = i + 1
  /\ UNCHANGED <<table, rx, did, sample, asked, late>>

----------------------------------------------------------------------------
Init ==
  /\ active_periodic_dids = [s \in 1..Slots |-> NoDid] /\ active_did_count = 0
  /\ rx = "recv" /\ did = NoDid
  /\ thread = "sleep" /\ i = 1 /\ sample = NoDid
  /\ asked = {} /\ late = 0

Walk == Wake \/ Sample \/ Hook \/ Sent

Next == Start \/ Register \/ Stop \/ Walk

Spec == Init /\ [][Next]_vars

\* Both threads are scheduled; hooks and transmissions end.
Fairness == WF_vars(Walk) /\ SF_vars(Register)

FairSpec == Spec /\ Fairness

----------------------------------------------------------------------------
(* Properties.                                                             *)

\* Every variable keeps its type; no index leaves the table of Slots entries.
TypeOK ==
  /\ active_periodic_dids \in [1..Slots -> Dids \cup {NoDid}]
  /\ active_did_count \in 0..Slots
  /\ rx \in {"recv", "register", "registered"} /\ did \in Dids \cup {NoDid}
  /\ thread \in {"sleep", "loop", "hook", "send"}
  /\ i \in 1..Slots + 1 /\ sample \in Dids \cup {NoDid}
  /\ asked \subseteq Dids /\ late \in Nat

\* uds_periodic.c:23, "Active list containing registered periodic diagnostic
\* identifiers": the thread samples an identifier only if it was asked for
\* since the last stop.  It depends on the order of the two writes in l.99:
\* violated when the count is written first, for the thread then reads a slot
\* that still holds zero or an identifier from before the stop.
OnlyRegisteredSampled ==
  [][thread = "loop" /\ thread' = "hook" => sample' \in asked]_vars

\* Whichever write of l.99 comes first, only the slot of a registration under
\* way is ever sampled unasked: once a registration has ended, and in every
\* other slot, the thread finds what was asked for.
StrayOnlyWhileRegistering ==
  [][thread = "loop" /\ thread' = "hook" =>
       \/ sample' \in asked
       \/ rx = "registered" /\ i = active_did_count]_vars

\* After a stop at most one frame of the old identifiers still leaves, the one
\* whose sample was being taken, even when new identifiers are registered
\* while the thread is inside its loop.
LateFramesBounded == late <= 1

\* A registered identifier is eventually sampled, unless it is stopped.
RegisteredSampled ==
  \A d \in Dids : d \in asked ~> (thread = "hook" /\ sample = d) \/ d \notin asked
============================================================================
