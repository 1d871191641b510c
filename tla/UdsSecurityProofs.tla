------------------------- MODULE UdsSecurityProofs -------------------------
(***************************************************************************)
(* Theorems about UdsSecurity for every value of its constants.            *)
(*                                                                         *)
(* Control is inductive whatever NVS does; Record and Count, which relate  *)
(* the counters in RAM and in NVS, need Control and NVS accesses that      *)
(* work, and Count reboots too few to wrap the counter.                    *)
(***************************************************************************)
EXTENDS UdsSecurity, TLAPS

\* From the lockout test of the request to the verdict on the key.
Unblocked == {"relock", "seed", "seed_store", "key", "verify", "grant",
              "grant_nvs", "deny", "deny_nvs", "judge", "nrc35", "boot"}

\* What ties the control point of the RX thread to the state it works on.
Control ==
  /\ pc \in Unblocked => security_status # "BRUTE_FORCE_LOCKOUT"
  /\ pc = "set_session" => security_status # "UNLOCKED"
  /\ pc \in {"stop", "set_stop"} => current_session = "DEFAULT"
  /\ pc \in {"verify", "grant"} /\ current_session # "DEFAULT" => verify_fresh
  /\ pc = "gate" /\ security_status = "UNLOCKED" => SessionGate(req)
  /\ pc \in {"set_session", "relock"} => req \in Sessions
  /\ pc \in {"lock_nvs", "lock_timer"} => ~lockout_timer
  /\ isr # "none" => /\ security_status = "LOCKED" /\ failed_attempts_counter = 0
                     /\ pc \notin Unblocked \cup {"lock_nvs", "lock_timer"}

\* Each reboot lets the counter run at most one further past the limit.
Bounded ==
  /\ failed_attempts_counter <= MAX_FAILED_ATTEMPTS + reboots
  /\ nvs_counter <= MAX_FAILED_ATTEMPTS + reboots
  /\ security_status # "BRUTE_FORCE_LOCKOUT" /\ pc \notin {"deny_nvs", "judge"}
       => failed_attempts_counter <= MAX_FAILED_ATTEMPTS - 1 + reboots
  /\ pc = "boot" => nvs_counter <= MAX_FAILED_ATTEMPTS - 1 + reboots

Inv == TypeOK /\ S3Supervised /\ LockoutSupervised /\ FreshGrant
         /\ Control /\ Bounded

\* The SMT backend does not see this by itself.
LEMMA FalseIsBoolean == \A b : b = FALSE => b \in BOOLEAN
BY Zenon

LEMMA InitInv == Init => Inv
BY SecurityAssumption, FalseIsBoolean, SMT DEF Init, Inv, TypeOK,
  S3Supervised, LockoutSupervised,
   FreshGrant, Control, Bounded, Unblocked, ControlPoints, Sessions, Statuses,
   Requests, SessionGate

USE SecurityAssumption DEF Inv, TypeOK, S3Supervised, LockoutSupervised,
    FreshGrant, Control, Bounded, Unblocked, ControlPoints, Sessions, Statuses,
    Requests, SessionGate, vars, session_vars, access_vars, nvs_vars, history,
    Rx, NvsWrite, NvsRead

LEMMA HandleInv == Inv /\ Handle => Inv'
<1> SUFFICES ASSUME Inv, Handle PROVE Inv' OBVIOUS
<1>1. CASE RefreshTimer
  <2>1. CASE RefreshTest("refresh", "start", "stop")
    BY <2>1, SMT DEF RefreshTest, NeedsS3
  <2>2. CASE RefreshAct("start", "dispatch", TRUE)
    BY <2>2, SMT DEF RefreshAct
  <2>3. CASE RefreshAct("stop", "dispatch", FALSE)
    BY <2>3, FalseIsBoolean, SMT DEF RefreshAct
  <2> QED BY <1>1, <2>1, <2>2, <2>3 DEF RefreshTimer
<1>2. CASE OtherRequest
  BY <1>2, SMT DEF OtherRequest
<1>3. CASE ResetLockTest
  BY <1>3, SMT DEF ResetLockTest, ResetLock
<1>4. CASE Relock
  BY <1>4, SMT DEF Relock
<1>5. CASE SetSession
  BY <1>5, FalseIsBoolean, SMT DEF SetSession
<1>6. CASE SetRefresh
  <2>1. CASE RefreshTest("set_refresh", "set_start", "set_stop")
    BY <2>1, SMT DEF RefreshTest, NeedsS3
  <2>2. CASE RefreshAct("set_start", "recv", TRUE)
    BY <2>2, SMT DEF RefreshAct
  <2>3. CASE RefreshAct("set_stop", "recv", FALSE)
    BY <2>3, FalseIsBoolean, SMT DEF RefreshAct
  <2> QED BY <1>6, <2>1, <2>2, <2>3 DEF SetRefresh
<1>7. CASE SecurityEntry
  BY <1>7, SMT DEF SecurityEntry
<1>8. CASE SeedTest
  BY <1>8, SMT DEF SeedTest
<1>9. CASE SeedStore
  BY <1>9, SMT DEF SeedStore
<1>10. CASE KeyTest
  BY <1>10, SMT DEF KeyTest
<1>11. CASE Verify
  BY <1>11, SMT DEF Verify
<1>12. CASE Granted
  BY <1>12, SMT DEF Granted
<1>13. CASE PersistCounter("grant_nvs", "recv")
  BY <1>13, SMT DEF PersistCounter
<1>14. CASE Denied
  BY <1>14, SMT DEF Denied
<1>15. CASE PersistCounter("deny_nvs", "judge")
  BY <1>15, SMT DEF PersistCounter
<1>16. CASE Judge
  BY <1>16, SMT DEF Judge
<1>17. CASE PersistLockout
  BY <1>17, SMT DEF PersistLockout
<1>18. CASE StartLockout
  BY <1>18, SMT DEF StartLockout
<1>19. CASE AnswerWrongKey
  BY <1>19, SMT DEF AnswerWrongKey
<1>20. CASE GateSession
  BY <1>20, SMT DEF GateSession
<1>21. CASE GateSecurity
  BY <1>21, SMT DEF GateSecurity
<1>22. CASE HookReturns
  BY <1>22, SMT DEF HookReturns
<1> QED
  BY <1>1, <1>2, <1>3, <1>4, <1>5, <1>6, <1>7, <1>8, <1>9, <1>10, <1>11,
     <1>12, <1>13, <1>14, <1>15, <1>16, <1>17, <1>18, <1>19, <1>20, <1>21,
     <1>22 DEF Handle

LEMMA NextInv == Inv /\ [Next]_vars => Inv'
<1> SUFFICES ASSUME Inv, [Next]_vars PROVE Inv' OBVIOUS
<1>1. CASE Receive
  BY <1>1, SMT DEF Receive
<1>2. CASE Handle
  BY <1>2, HandleInv
<1>3. CASE S3Expiry
  BY <1>3, FalseIsBoolean, SMT DEF S3Expiry, ResetLock
<1>4. CASE LockoutExpiry
  BY <1>4, FalseIsBoolean, SMT DEF LockoutExpiry
<1>5. CASE ClearNvs
  BY <1>5, SMT DEF ClearNvs
<1>6. CASE Reboot
  BY <1>6, FalseIsBoolean, SMT DEF Reboot
<1>7. CASE Boot
  BY <1>7, FalseIsBoolean, SMT DEF Boot, Restore
<1>8. CASE UNCHANGED vars
  BY <1>8, SMT
<1> QED
  BY <1>1, <1>2, <1>3, <1>4, <1>5, <1>6, <1>7, <1>8 DEF Next

HIDE DEF Inv, TypeOK, S3Supervised, LockoutSupervised, FreshGrant, Control,
    Bounded, vars

LEMMA Invariance == Spec => []Inv
BY InitInv, NextInv, PTL DEF Spec

\* Every variable keeps its type, whatever the interleaving of thread,
\* callbacks and reboots, and whatever NVS does.
THEOREM TypeCorrect == Spec => []TypeOK
BY Invariance, PTL DEF Inv

\* A non-default session is never left without its timer.
THEOREM SessionsSupervised == Spec => []S3Supervised
BY Invariance, PTL DEF Inv

\* The lockout status and the timer that ends it go together.
THEOREM LockoutsSupervised == Spec => []LockoutSupervised
BY Invariance, PTL DEF Inv

\* No grant is carried into a session.
THEOREM GrantsFresh == Spec => []FreshGrant
BY Invariance, PTL DEF Inv

\* A gate that lets a request through read a session and a status that hold
\* together at that moment.
THEOREM GatesHold == Spec => GateHolds
<1>1. Inv /\ [Next]_vars =>
        [pc = "gate" /\ pc' = "hook" => SessionGate(req) /\ fresh]_vars
  <2> SUFFICES ASSUME Inv, [Next]_vars, pc = "gate", pc' = "hook"
               PROVE  SessionGate(req) /\ fresh
    OBVIOUS
  <2>1. GateSecurity
    BY SMT DEF Next, Handle, vars, Receive, RefreshTimer, RefreshTest,
      RefreshAct, OtherRequest,
       ResetLockTest, Relock, SetSession, SetRefresh, SecurityEntry, SeedTest,
       SeedStore, KeyTest, Verify, Granted, PersistCounter, Denied, Judge,
       PersistLockout, StartLockout, AnswerWrongKey, GateSession, HookReturns,
       S3Expiry, LockoutExpiry, ClearNvs, Reboot, Boot
  <2> QED BY <2>1, SMT DEF GateSecurity, Inv, Control, FreshGrant, TypeOK
<1> QED BY <1>1, Invariance, PTL DEF Spec, GateHolds

\* The key that wraps the counter to 0, and is counted as none, comes only
\* after as many reboots as the counter has values from the limit on.
THEOREM WrapsRare == Spec => WrapNeedsReboots
<1>1. Inv /\ [Next]_vars =>
        [pc = "deny" /\ pc' = "deny_nvs" /\ failed_attempts_counter' = 0
           => ~CounterHolds]_vars
  <2> SUFFICES ASSUME Inv, [Next]_vars, pc = "deny", pc' = "deny_nvs",
                      failed_attempts_counter' = 0
               PROVE  ~CounterHolds
    OBVIOUS
  <2>1. Denied
    BY SMT DEF Next, Handle, vars, Receive, RefreshTimer, RefreshTest,
      RefreshAct, OtherRequest,
       ResetLockTest, Relock, SetSession, SetRefresh, SecurityEntry, SeedTest,
       SeedStore, KeyTest, Verify, Granted, PersistCounter, GateSecurity, Judge,
       PersistLockout, StartLockout, AnswerWrongKey, GateSession, HookReturns,
       S3Expiry, LockoutExpiry, ClearNvs, Reboot, Boot
  <2> QED BY <2>1, SMT DEF Denied, Inv, Control, Bounded, TypeOK, CounterHolds
<1> QED BY <1>1, Invariance, PTL DEF Spec, WrapNeedsReboots

----------------------------------------------------------------------------
(* With NVS accesses that work.                                            *)

\* The key that causes a lockout, from the verdict to the answer.
Locking == {"lock_nvs", "lock_timer", "nrc36"}

\* What NVS holds, against RAM and the control points.
Record ==
  /\ nvs_lockout = 1 /\ pc # "boot" /\ isr = "none" =>
       security_status = "BRUTE_FORCE_LOCKOUT"
  /\ isr = "none" /\ security_status # "BRUTE_FORCE_LOCKOUT"
       /\ pc \notin {"boot", "grant_nvs", "deny_nvs"} =>
         failed_attempts_counter = nvs_counter
  /\ isr = "lockout" => nvs_counter = 0
  /\ pc = "grant_nvs" => failed_attempts_counter = 0
  /\ pc \in {"lock_timer", "nrc36"} /\ security_status = "BRUTE_FORCE_LOCKOUT"
       => nvs_lockout = 1

\* How the tester's log follows the counters, while they have not wrapped.
Count ==
  /\ isr # "none" \/ pc = "grant_nvs" => answered = 0
  /\ pc = "deny_nvs" => failed_attempts_counter = nvs_counter + 1
  /\ pc = "nrc35" => nvs_counter < MAX_FAILED_ATTEMPTS
  /\ pc \in {"judge", "nrc35"} => answered < nvs_counter
  /\ pc \in Locking /\ security_status = "BRUTE_FORCE_LOCKOUT" =>
       answered < nvs_counter /\ answered < MAX_FAILED_ATTEMPTS
  /\ nvs_lockout = 0 => answered < MAX_FAILED_ATTEMPTS
  /\ answered <= nvs_counter /\ answered <= MAX_FAILED_ATTEMPTS

USE DEF Inv, TypeOK, LockoutSupervised, Control, Bounded, vars, Record, Count,
    CounterHolds, Locking

LEMMA InitCount == Init => Record /\ Count
BY SMT DEF Init

LEMMA HandleCount ==
  ASSUME ~NvsFaults, Inv, Record, CounterHolds => Count, Handle
  PROVE  Record' /\ (CounterHolds => Count)'
<1>1. CASE RefreshTimer
  BY <1>1, SMT DEF RefreshTimer, RefreshTest, RefreshAct, NeedsS3
<1>2. CASE OtherRequest
  BY <1>2, SMT DEF OtherRequest
<1>3. CASE ResetLockTest
  BY <1>3, SMT DEF ResetLockTest, ResetLock
<1>4. CASE Relock
  BY <1>4, SMT DEF Relock
<1>5. CASE SetSession
  BY <1>5, SMT DEF SetSession
<1>6. CASE SetRefresh
  BY <1>6, SMT DEF SetRefresh, RefreshTest, RefreshAct, NeedsS3
<1>7. CASE SecurityEntry
  BY <1>7, SMT DEF SecurityEntry
<1>8. CASE SeedTest
  BY <1>8, SMT DEF SeedTest
<1>9. CASE SeedStore
  BY <1>9, SMT DEF SeedStore
<1>10. CASE KeyTest
  BY <1>10, SMT DEF KeyTest
<1>11. CASE Verify
  BY <1>11, SMT DEF Verify
<1>12. CASE Granted
  BY <1>12, SMT DEF Granted
<1>13. CASE PersistCounter("grant_nvs", "recv")
  BY <1>13, SMT DEF PersistCounter
<1>14. CASE Denied
  BY <1>14, SMT DEF Denied
<1>15. CASE PersistCounter("deny_nvs", "judge")
  BY <1>15, SMT DEF PersistCounter
<1>16. CASE Judge
  BY <1>16, SMT DEF Judge
<1>17. CASE PersistLockout
  BY <1>17, SMT DEF PersistLockout
<1>18. CASE StartLockout
  BY <1>18, SMT DEF StartLockout
<1>19. CASE AnswerWrongKey
  BY <1>19, SMT DEF AnswerWrongKey
<1>20. CASE GateSession
  BY <1>20, SMT DEF GateSession
<1>21. CASE GateSecurity
  BY <1>21, SMT DEF GateSecurity
<1>22. CASE HookReturns
  BY <1>22, SMT DEF HookReturns
<1> QED
  BY <1>1, <1>2, <1>3, <1>4, <1>5, <1>6, <1>7, <1>8, <1>9, <1>10, <1>11,
     <1>12, <1>13, <1>14, <1>15, <1>16, <1>17, <1>18, <1>19, <1>20, <1>21,
     <1>22 DEF Handle

LEMMA NextCount ==
  ASSUME ~NvsFaults, Inv, Record, CounterHolds => Count, [Next]_vars
  PROVE  Record' /\ (CounterHolds => Count)'
<1>1. CASE Receive
  BY <1>1, SMT DEF Receive
<1>2. CASE Handle
  BY <1>2, HandleCount
<1>3. CASE S3Expiry
  BY <1>3, SMT DEF S3Expiry, ResetLock
<1>4. CASE LockoutExpiry
  BY <1>4, SMT DEF LockoutExpiry
<1>5. CASE ClearNvs
  BY <1>5, SMT DEF ClearNvs
<1>6. CASE Reboot
  BY <1>6, SMT DEF Reboot
<1>7. CASE Boot
  BY <1>7, SMT DEF Boot, Restore
<1>8. CASE UNCHANGED vars
  BY <1>8, SMT
<1> QED
  BY <1>1, <1>2, <1>3, <1>4, <1>5, <1>6, <1>7, <1>8 DEF Next

HIDE DEF Inv, TypeOK, LockoutSupervised, Control, Bounded, vars, Record, Count,
    CounterHolds, Locking

LEMMA CountInvariance ==
  ASSUME ~NvsFaults PROVE Spec => [](Record /\ (CounterHolds => Count))
BY Invariance, InitCount, NextCount, PTL DEF Spec

\* At most MAX_FAILED_ATTEMPTS wrong keys are answered between two clearings
\* of the count, wherever reboots cut the handling short, until they are enough
\* to wrap the counter.
THEOREM FailuresBounded == Spec => []AnsweredFailuresBounded
<1>1. CASE NvsFaults
  <2>1. AnsweredFailuresBounded BY <1>1 DEF AnsweredFailuresBounded
  <2> QED BY <2>1, PTL
<1>2. CASE ~NvsFaults
  <2>1. (CounterHolds => Count) => AnsweredFailuresBounded
    BY DEF Count, AnsweredFailuresBounded
  <2> QED BY <1>2, <2>1, CountInvariance, PTL
<1> QED BY <1>1, <1>2

\* No key is verified while NVS holds a lockout.
THEOREM NoVerification == Spec => []NoVerifyUnderStoredLockout
<1>1. CASE NvsFaults
  <2>1. NoVerifyUnderStoredLockout BY <1>1 DEF NoVerifyUnderStoredLockout
  <2> QED BY <2>1, PTL
<1>2. CASE ~NvsFaults
  <2>1. Inv /\ Record => NoVerifyUnderStoredLockout
    BY SMT DEF Inv, TypeOK, Control, Record, NoVerifyUnderStoredLockout
  <2> QED BY <1>2, <2>1, Invariance, CountInvariance, PTL
<1> QED BY <1>1, <1>2

----------------------------------------------------------------------------
(* Refinement.                                                             *)

\* A step that touches none of the three promised variables is a stutter.
LEMMA Stutter ==
  ASSUME UNCHANGED <<current_session, security_status, nvs_lockout>>
  PROVE  UNCHANGED Promise!access
BY DEF Promise!access

LEMMA HandleImplements ==
  ASSUME Inv, Record, ~NvsFaults, Handle
  PROVE  [Promise!Next]_(Promise!access)
<1> USE DEF Inv, TypeOK, Control, Record, Locking
<1>1. CASE RefreshTimer \/ OtherRequest \/ ResetLockTest \/ SetRefresh
  BY <1>1, Stutter DEF RefreshTimer, RefreshTest, RefreshAct, OtherRequest,
     ResetLockTest, SetRefresh
<1>2. CASE SecurityEntry \/ SeedTest \/ KeyTest \/ Verify \/ Denied
  BY <1>2, Stutter DEF SecurityEntry, SeedTest, KeyTest, Verify, Denied
<1>3. CASE \/ PersistCounter("grant_nvs", "recv")
           \/ PersistCounter("deny_nvs", "judge")
  BY <1>3, Stutter DEF PersistCounter
<1>4. CASE \/ StartLockout \/ AnswerWrongKey
           \/ GateSession \/ GateSecurity \/ HookReturns
  BY <1>4, Stutter DEF StartLockout, AnswerWrongKey, GateSession,
     GateSecurity, HookReturns
<1>5. CASE Relock \/ SeedStore \/ Judge
  <2>1. Promise!Revoke
    BY <1>5, SMT DEF Relock, SeedStore, Judge, Promise!Revoke
  <2> QED BY <2>1 DEF Promise!Next, Promise!Request
<1>6. CASE SetSession
  <2>1. Promise!EnterSession(req)
    BY <1>6, SMT DEF SetSession, Promise!EnterSession
  <2>2. req \in Promise!Sessions
    BY <1>6, SMT DEF SetSession, Sessions, Promise!Sessions
  <2> QED BY <2>1, <2>2 DEF Promise!Next, Promise!Request
<1>7. CASE Granted
  <2>1. Promise!Grant
    BY <1>7, SMT DEF Granted, Promise!Grant
  <2> QED BY <2>1 DEF Promise!Next, Promise!Request
<1>8. CASE PersistLockout
  <2>1. security_status = "BRUTE_FORCE_LOCKOUT"
    BY <1>8, SMT DEF PersistLockout, LockoutSupervised
  <2>2. Promise!Block
    BY <1>8, <2>1, SMT DEF PersistLockout, Promise!Block
  <2> QED BY <2>2 DEF Promise!Next, Promise!Request
<1> QED
  BY <1>1, <1>2, <1>3, <1>4, <1>5, <1>6, <1>7, <1>8 DEF Handle

LEMMA NextImplements ==
  ASSUME Inv, Record, ~NvsFaults, [Next]_vars
  PROVE  [Promise!Next]_(Promise!access)
<1> USE DEF Inv, TypeOK, Control, Record
<1>1. CASE Receive
  BY <1>1, Stutter DEF Receive
<1>2. CASE Handle
  BY <1>2, HandleImplements
<1>3. CASE S3Expiry
  <2>1. CASE current_session # "DEFAULT"
    <3>1. Promise!Timeout
      BY <1>3, <2>1, SMT DEF S3Expiry, ResetLock, Promise!Timeout
    <3> QED BY <3>1 DEF Promise!Next, Promise!Expiry
  <2>2. CASE current_session = "DEFAULT"
    BY <1>3, <2>2, Stutter DEF S3Expiry
  <2> QED BY <2>1, <2>2
<1>4. CASE LockoutExpiry
  <2>1. Promise!Revoke
    BY <1>4, SMT DEF LockoutExpiry, Promise!Revoke
  <2> QED BY <2>1 DEF Promise!Next, Promise!Request
<1>5. CASE ClearNvs
  <2>1. CASE isr = "counter"
    BY <1>5, <2>1, Stutter, SMT DEF ClearNvs
  <2>2. CASE isr # "counter"
    <3>1. Promise!Unblock
      BY <1>5, <2>2, SMT DEF ClearNvs, Promise!Unblock
    <3> QED BY <3>1 DEF Promise!Next, Promise!Expiry
  <2> QED BY <2>1, <2>2
<1>6. CASE Reboot
  <2>1. Promise!Restart
    BY <1>6, SMT DEF Reboot, Promise!Restart
  <2> QED BY <2>1 DEF Promise!Next
<1>7. CASE Boot
  <2>1. security_status' # "UNLOCKED"
    BY <1>7, SMT DEF Boot, Restore
  <2>2. Promise!Revoke
    BY <1>7, <2>1, SMT DEF Boot, Promise!Revoke
  <2> QED BY <2>2 DEF Promise!Next, Promise!Request
<1>8. CASE UNCHANGED vars
  BY <1>8, Stutter DEF vars
<1> QED
  BY <1>1, <1>2, <1>3, <1>4, <1>5, <1>6, <1>7, <1>8 DEF Next

\* While NVS accesses work, the two files with all their interleavings do what
\* AccessControl promises to the gated services.
THEOREM Refinement == ASSUME ~NvsFaults PROVE Spec => ImplementsAccessControl
<1>1. Init => Promise!Init
  BY SMT DEF Init, Promise!Init
<1>2. Inv /\ Record /\ [Next]_vars => [Promise!Next]_(Promise!access)
  BY NextImplements
<1> QED
  BY <1>1, <1>2, Invariance, CountInvariance, PTL
     DEF Spec, ImplementsAccessControl, Promise!Spec

----------------------------------------------------------------------------
(* Refinement when NVS accesses may fail.                                  *)

LEMMA GrantsStutter ==
  ASSUME UNCHANGED <<current_session, security_status>>
  PROVE  UNCHANGED Grants!access
BY DEF Grants!access

LEMMA HandleGrants ==
  ASSUME Inv, Handle
  PROVE  [Grants!Next]_(Grants!access)
<1> USE DEF Inv, TypeOK, Control
<1>1. CASE RefreshTimer \/ OtherRequest \/ ResetLockTest \/ SetRefresh
  BY <1>1, GrantsStutter DEF RefreshTimer, RefreshTest, RefreshAct,
     OtherRequest, ResetLockTest, SetRefresh
<1>2. CASE SecurityEntry \/ SeedTest \/ KeyTest \/ Verify \/ Denied
  BY <1>2, GrantsStutter DEF SecurityEntry, SeedTest, KeyTest, Verify, Denied
<1>3. CASE \/ PersistCounter("grant_nvs", "recv")
           \/ PersistCounter("deny_nvs", "judge")
           \/ PersistLockout
  BY <1>3, GrantsStutter DEF PersistCounter, PersistLockout
<1>4. CASE \/ StartLockout \/ AnswerWrongKey
           \/ GateSession \/ GateSecurity \/ HookReturns
  BY <1>4, GrantsStutter DEF StartLockout, AnswerWrongKey, GateSession,
     GateSecurity, HookReturns
<1>5. CASE Relock \/ SeedStore \/ Judge
  <2>1. Grants!Revoke
    BY <1>5, SMT DEF Relock, SeedStore, Judge, Grants!Revoke
  <2> QED BY <2>1 DEF Grants!Next, Grants!Request
<1>6. CASE SetSession
  <2>1. Grants!EnterSession(req)
    BY <1>6, SMT DEF SetSession, Grants!EnterSession
  <2>2. req \in Grants!Sessions
    BY <1>6, SMT DEF SetSession, Sessions, Grants!Sessions
  <2> QED BY <2>1, <2>2 DEF Grants!Next, Grants!Request
<1>7. CASE Granted
  <2>1. Grants!Grant
    BY <1>7, SMT DEF Granted, Grants!Grant
  <2> QED BY <2>1 DEF Grants!Next, Grants!Request
<1> QED
  BY <1>1, <1>2, <1>3, <1>4, <1>5, <1>6, <1>7 DEF Handle

LEMMA NextGrants ==
  ASSUME Inv, [Next]_vars
  PROVE  [Grants!Next]_(Grants!access)
<1>1. CASE Receive \/ ClearNvs
  BY <1>1, GrantsStutter DEF Receive, ClearNvs
<1>2. CASE Handle
  BY <1>2, HandleGrants
<1>3. CASE S3Expiry
  <2>1. CASE current_session # "DEFAULT"
    <3>1. Grants!Timeout
      BY <1>3, <2>1, SMT DEF S3Expiry, ResetLock, Grants!Timeout
    <3> QED BY <3>1 DEF Grants!Next, Grants!Expiry
  <2>2. CASE current_session = "DEFAULT"
    BY <1>3, <2>2, GrantsStutter DEF S3Expiry
  <2> QED BY <2>1, <2>2
<1>4. CASE LockoutExpiry
  <2>1. Grants!Revoke
    BY <1>4, SMT DEF LockoutExpiry, Grants!Revoke
  <2> QED BY <2>1 DEF Grants!Next, Grants!Request
<1>5. CASE Boot
  <2>1. security_status' # "UNLOCKED"
    BY <1>5, SMT DEF Boot, Restore
  <2>2. Grants!Revoke
    BY <1>5, <2>1, SMT DEF Boot, Grants!Revoke
  <2> QED BY <2>2 DEF Grants!Next, Grants!Request
<1>6. CASE Reboot
  <2>1. Grants!Restart
    BY <1>6, SMT DEF Reboot, Grants!Restart
  <2> QED BY <2>1 DEF Grants!Next
<1>7. CASE UNCHANGED vars
  BY <1>7, GrantsStutter DEF vars
<1> QED
  BY <1>1, <1>2, <1>3, <1>4, <1>5, <1>6, <1>7 DEF Next

\* Whatever NVS accesses fail, sessions and grants change only as AccessControl
\* says: the theorems of UdsFlash, whose gate depends on no record of a
\* lockout, do not need NVS to work.
THEOREM RefinementWithoutNvs == Spec => GrantsWithoutNvs
<1>1. Init => Grants!Init
  BY SMT DEF Init, Grants!Init
<1>2. Inv /\ [Next]_vars => [Grants!Next]_(Grants!access)
  BY NextGrants
<1> QED
  BY <1>1, <1>2, Invariance, PTL DEF Spec, GrantsWithoutNvs, Grants!Spec
============================================================================
