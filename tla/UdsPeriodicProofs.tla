------------------------- MODULE UdsPeriodicProofs -------------------------
(***************************************************************************)
(* Theorems about UdsPeriodic for every set of identifiers and every size  *)
(* of the table.                                                           *)
(***************************************************************************)
EXTENDS UdsPeriodic, TLAPS

\* Where RX thread and sampling thread are, the index they use is in the
\* table; the slot counted first is still to be written.
Control ==
  /\ rx # "recv" => did \in asked
  /\ rx = "register" => active_did_count < Slots
  /\ rx = "registered" =>
       IF StoreFirst
       THEN active_did_count < Slots
              /\ active_periodic_dids[active_did_count + 1] = did
       ELSE active_did_count > 0
  /\ thread \in {"hook", "send"} => i <= Slots

\* What is counted was asked for, except the slot that was counted first.
Counted ==
  \A s \in 1..active_did_count :
    \/ active_periodic_dids[s] \in asked
    \/ ~StoreFirst /\ rx = "registered" /\ s = active_did_count

\* If the slot is written first, a sample of something that was not asked for
\* is followed by no other.
Tie ==
  /\ late \in 0..1
  /\ thread = "hook" => sample \in asked \/ late = 0

Inv == TypeOK /\ Control /\ Counted /\ (StoreFirst => Tie)

USE PeriodicAssumption DEF Inv, TypeOK, Control, Counted, vars, table, Rx, RxRuns

LEMMA InitInv == Init => Inv
BY SMT DEF Init, Tie

LEMMA StartInv == ASSUME Inv, Start PROVE Inv'
BY SMT DEF Start, Room, Tie

LEMMA RegisterInv ==
  ASSUME Inv, Register
  PROVE  Inv'
<1>1. CASE rx = "register" /\ StoreFirst
  <2>1. StoreDid(active_did_count + 1)
    BY <1>1 DEF Register
  <2> QED BY <1>1, <2>1, SMT DEF Register, StoreDid, Tie
<1>2. CASE rx = "register" /\ ~StoreFirst
  BY <1>2, SMT DEF Register, Count
<1>3. CASE rx = "registered" /\ StoreFirst
  BY <1>3, SMT DEF Register, Count, Tie
<1>4. CASE rx = "registered" /\ ~StoreFirst
  <2>1. StoreDid(active_did_count)
    BY <1>4 DEF Register
  <2> QED BY <1>4, <2>1, SMT DEF Register, StoreDid
<1> QED BY <1>1, <1>2, <1>3, <1>4 DEF Register

LEMMA StopInv == ASSUME Inv, Stop PROVE Inv'
BY SMT DEF Stop, Tie

LEMMA WalkInv ==
  ASSUME Inv, Walk
  PROVE  Inv'
<1>1. CASE Wake
  BY <1>1, SMT DEF Wake, First, Tie
<1>2. CASE Sample
  BY <1>2, SMT DEF Sample, More, Tie
<1>3. CASE Hook
  BY <1>3, SMT DEF Hook, Tie
<1>4. CASE Sent
  BY <1>4, SMT DEF Sent, Tie
<1> QED BY <1>1, <1>2, <1>3, <1>4 DEF Walk

LEMMA NextInv == Inv /\ [Next]_vars => Inv'
<1> SUFFICES ASSUME Inv, [Next]_vars PROVE Inv'
  OBVIOUS
<1>1. CASE UNCHANGED vars
  BY <1>1, SMT DEF Tie
<1> QED BY <1>1, StartInv, RegisterInv, StopInv, WalkInv DEF Next

\* Whatever leaves the loop with an identifier found it in the counted slots.
LEMMA SampleStep ==
  ASSUME Inv, [Next]_vars, thread = "loop", thread' = "hook"
  PROVE  \/ sample' \in asked
         \/ ~StoreFirst /\ rx = "registered" /\ i = active_did_count
<1>1. Sample /\ More
  BY SMT DEF Next, Start, Register, Stop, Walk, Wake, Sample, Hook, Sent
<1> QED BY <1>1, SMT DEF Sample, More

HIDE DEF Inv, TypeOK, Control, Counted, vars, table, Rx, RxRuns

LEMMA Invariance == Spec => []Inv
BY InitInv, NextInv, PTL DEF Spec

\* Every variable keeps its type, and no index of either thread leaves the
\* table, in whichever order the two writes of a registration happen.
THEOREM TypeCorrect == Spec => []TypeOK
<1>1. Inv => TypeOK
  BY DEF Inv
<1> QED BY <1>1, Invariance, PTL

\* If the slot is written before the count, at most one frame of an identifier
\* that was stopped still leaves (uds_periodic.c:88).
THEOREM LateFrames == ASSUME StoreFirst PROVE Spec => []LateFramesBounded
<1>1. Inv => LateFramesBounded
  BY SMT DEF Inv, Tie, LateFramesBounded
<1> QED BY <1>1, Invariance, PTL

\* And the thread then samples only what was asked for since the last stop.
THEOREM OnlyRegistered == ASSUME StoreFirst PROVE Spec => OnlyRegisteredSampled
<1>1. Inv /\ [Next]_vars =>
        [thread = "loop" /\ thread' = "hook" => sample' \in asked]_vars
  BY SampleStep
<1> QED BY <1>1, Invariance, PTL DEF Spec, OnlyRegisteredSampled

\* Whichever write comes first, all it can leave to the thread is the one slot
\* whose registration is under way (uds_periodic.c:99).
THEOREM Stray == Spec => StrayOnlyWhileRegistering
<1>1. Inv /\ [Next]_vars =>
        [thread = "loop" /\ thread' = "hook" =>
           \/ sample' \in asked
           \/ rx = "registered" /\ i = active_did_count]_vars
  BY SampleStep
<1> QED BY <1>1, Invariance, PTL DEF Spec, StrayOnlyWhileRegistering
============================================================================
