---------------------------- MODULE UdsSecurity ----------------------------
(***************************************************************************)
(* Diagnostic session (uds_session.c), SecurityAccess (uds_security.c) and *)
(* the part of the request loop (uds_server.c) that drives them.           *)
(*                                                                         *)
(* Three parties share this state.  The RX thread handles one request at a *)
(* time; pc is its control point and a step ends wherever a timer callback *)
(* may preempt it between two accesses to shared state.  The S3 and the    *)
(* lockout timer callbacks run in interrupt context: no thread step        *)
(* happens inside them.  A reboot (sys_reboot, power loss) may cut off     *)
(* anything, the lockout callback between its two NVS writes included; it  *)
(* clears the statics and keeps what is in NVS.                            *)
(***************************************************************************)
EXTENDS Integers

CONSTANTS MAX_FAILED_ATTEMPTS, \* CONFIG_UDS_SEC_MAX_FAILED_ATTEMPTS
          CounterModulus,      \* 256: failed_attempts_counter is a uint8_t
          MaxReboots,          \* bound on the reboots of a behaviour
          NvsFaults            \* may an NVS read or write fail?

ASSUME SecurityAssumption ==
  /\ MAX_FAILED_ATTEMPTS \in 1..10
  /\ CounterModulus \in Nat /\ CounterModulus > MAX_FAILED_ATTEMPTS
  /\ MaxReboots \in Nat
  /\ NvsFaults \in BOOLEAN

VARIABLES current_session,         \* uds_session.c
          s3_timer,                \* is it running?
          security_status,         \* uds_security.c
          failed_attempts_counter, \* uint8_t, 0..CounterModulus - 1
          lockout_timer,           \* is it running?
          nvs_counter,             \* NVS entry 1, 0 when absent
          nvs_lockout,             \* NVS entry 2, 0 when absent
          pc,                      \* control point of the RX thread
          req,                     \* the request it is handling
          isr,                     \* control point of the lockout callback
          reboots                  \* reboots so far

\* History variables: read by properties only.
VARIABLES answered,     \* wrong keys answered since the count was last cleared
          fresh,        \* a key was accepted since the session was last written
          verify_fresh  \* as above, for the verification that is under way

session_vars == <<current_session, s3_timer>>
access_vars == <<security_status, failed_attempts_counter, lockout_timer>>
nvs_vars == <<nvs_counter, nvs_lockout>>
history == <<answered, fresh, verify_fresh>>
vars == <<session_vars, access_vars, nvs_vars, pc, req, isr, reboots, history>>

Sessions == {"DEFAULT", "PROGRAMMING", "EXTENDED"}

Statuses == {"LOCKED", "SEED_REQUESTED", "UNLOCKED", "BRUTE_FORCE_LOCKOUT"}

\* A SessionControl request is named by the session it asks for; "download"
\* is 0x34, "actuate" stands for 0x2E and 0x2F, which share their gate, and
\* "other" for every request that only restarts the S3 timer.
Requests == Sessions \cup {"seed", "key", "download", "actuate", "other"}

\* The RX thread moves from one control point to the next.
Rx(from, to) == isr = "none" /\ pc = from /\ pc' = to

\* The outcome of nvs_write, whose result the code ignores.
NvsWrite(old, new) == IF NvsFaults THEN {old, new} ELSE {new}

\* The value nvs_read delivers; 0 is what the caller holds when it fails.
NvsRead(stored) == IF NvsFaults THEN {stored, 0} ELSE {stored}

----------------------------------------------------------------------------
(* uds_process_request: every request first restarts the S3 timer.         *)

Receive ==
  /\ Rx("recv", "refresh")
  /\ req' \in Requests
  /\ UNCHANGED <<session_vars, access_vars, nvs_vars, isr, reboots, history>>

BugNeedsS3(s) == s = "PROGRAMMING"
NeedsS3(s) == s # "DEFAULT"

\* uds_session_refresh_timer reads the session, then starts or stops the
\* timer; it runs at the head of every request and inside uds_session_set.
RefreshTest(at, start, stop) ==
  /\ Rx(at, IF NeedsS3(current_session) THEN start ELSE stop)
  /\ UNCHANGED <<session_vars, access_vars, nvs_vars, req, isr, reboots, history>>

RefreshAct(at, to, running) ==
  /\ Rx(at, to)
  /\ s3_timer' = running
  /\ UNCHANGED <<current_session, access_vars, nvs_vars, req, isr, reboots, history>>

RefreshTimer ==
  \/ RefreshTest("refresh", "start", "stop")
  \/ RefreshAct("start", "dispatch", TRUE)
  \/ RefreshAct("stop", "dispatch", FALSE)

\* A request that changes nothing else: 0x3E, malformed ones, 0x27 received
\* on the functional address, and the services of other components.
OtherRequest ==
  /\ Rx("dispatch", "recv")
  /\ req = "other"
  /\ UNCHANGED <<session_vars, access_vars, nvs_vars, req, isr, reboots, history>>

----------------------------------------------------------------------------
(* 0x10: uds_security_reset_lock, then uds_session_set.                    *)

BugResetLock(status) == "LOCKED"
ResetLock(status) ==
  IF status # "BRUTE_FORCE_LOCKOUT" THEN "LOCKED" ELSE status

ResetLockTest ==
  /\ Rx("dispatch", IF ResetLock(security_status) = "LOCKED"
                    THEN "relock" ELSE "set_session")
  /\ req \in Sessions
  /\ UNCHANGED <<session_vars, access_vars, nvs_vars, req, isr, reboots, history>>

BugRelock == Rx("relock", "set_session") /\ UNCHANGED
  <<session_vars, access_vars, nvs_vars, req, isr, reboots, history>>
Relock ==
  /\ Rx("relock", "set_session")
  /\ security_status' = "LOCKED"
  /\ UNCHANGED <<session_vars, failed_attempts_counter, lockout_timer,
                 nvs_vars, req, isr, reboots, history>>

SetSession ==
  /\ Rx("set_session", "set_refresh")
  /\ current_session' = req
  /\ fresh' = FALSE /\ verify_fresh' = FALSE
  /\ UNCHANGED <<s3_timer, access_vars, nvs_vars, req, isr, reboots, answered>>

SetRefresh ==
  \/ RefreshTest("set_refresh", "set_start", "set_stop")
  \/ RefreshAct("set_start", "recv", TRUE)
  \/ RefreshAct("set_stop", "recv", FALSE)

----------------------------------------------------------------------------
(* 0x27: uds_security_handle_request.                                      *)

SecurityEntry ==
  /\ req \in {"seed", "key"}
  /\ Rx("dispatch", IF security_status = "BRUTE_FORCE_LOCKOUT"
                    THEN "recv" ELSE req)
  /\ UNCHANGED <<session_vars, access_vars, nvs_vars, req, isr, reboots, history>>

\* While unlocked the seed is all zero and the status stays.
SeedTest ==
  /\ Rx("seed", IF security_status = "UNLOCKED" THEN "recv" ELSE "seed_store")
  /\ UNCHANGED <<session_vars, access_vars, nvs_vars, req, isr, reboots, history>>

SeedStore ==
  /\ Rx("seed_store", "recv")
  /\ security_status' = "SEED_REQUESTED"
  /\ UNCHANGED <<session_vars, failed_attempts_counter, lockout_timer,
                 nvs_vars, req, isr, reboots, history>>

KeyTest ==
  /\ Rx("key", IF security_status = "SEED_REQUESTED" THEN "verify" ELSE "recv")
  /\ verify_fresh' = (security_status = "SEED_REQUESTED")
  /\ UNCHANGED <<session_vars, access_vars, nvs_vars, req, isr, reboots,
                 answered, fresh>>

\* uds_app_verify_key_krypto, an application hook: either verdict.
Verify ==
  /\ Rx("verify", "grant") \/ Rx("verify", "deny")
  /\ UNCHANGED <<session_vars, access_vars, nvs_vars, req, isr, reboots, history>>

Granted ==
  /\ Rx("grant", "grant_nvs")
  /\ security_status' = "UNLOCKED"
  /\ failed_attempts_counter' = 0
  /\ answered' = 0 /\ fresh' = verify_fresh
  /\ UNCHANGED <<session_vars, lockout_timer, nvs_vars, req, isr, reboots,
                 verify_fresh>>

\* nvs_write of the counter, after either verdict.
BugPersistCounter(at, to) == Rx(at, to) /\ UNCHANGED
  <<session_vars, access_vars, nvs_vars, req, isr, reboots, history>>
PersistCounter(at, to) ==
  /\ Rx(at, to)
  /\ nvs_counter' \in NvsWrite(nvs_counter, failed_attempts_counter)
  /\ UNCHANGED <<session_vars, access_vars, nvs_lockout, req, isr, reboots,
                 history>>

BugDenied ==
  /\ Rx("deny", "deny_nvs")
  /\ failed_attempts_counter' = failed_attempts_counter + 1
  /\ UNCHANGED <<session_vars, security_status, lockout_timer, nvs_vars, req,
                 isr, reboots, history>>
Denied ==
  /\ Rx("deny", "deny_nvs")
  /\ failed_attempts_counter' = (failed_attempts_counter + 1) % CounterModulus
  /\ UNCHANGED <<session_vars, security_status, lockout_timer, nvs_vars, req,
                 isr, reboots, history>>

BugJudge ==
  /\ \/ /\ failed_attempts_counter > MAX_FAILED_ATTEMPTS
        /\ Rx("judge", "lock_nvs")
        /\ security_status' = "BRUTE_FORCE_LOCKOUT"
     \/ /\ failed_attempts_counter <= MAX_FAILED_ATTEMPTS
        /\ Rx("judge", "nrc35")
        /\ security_status' = "LOCKED"
  /\ UNCHANGED <<session_vars, failed_attempts_counter, lockout_timer,
                 nvs_vars, req, isr, reboots, history>>
\* MAX_FAILED_ATTEMPTS reached: lock out; otherwise back to locked.
Judge ==
  /\ \/ /\ failed_attempts_counter >= MAX_FAILED_ATTEMPTS
        /\ Rx("judge", "lock_nvs")
        /\ security_status' = "BRUTE_FORCE_LOCKOUT"
     \/ /\ failed_attempts_counter < MAX_FAILED_ATTEMPTS
        /\ Rx("judge", "nrc35")
        /\ security_status' = "LOCKED"
  /\ UNCHANGED <<session_vars, failed_attempts_counter, lockout_timer,
                 nvs_vars, req, isr, reboots, history>>

PersistLockout ==
  /\ Rx("lock_nvs", "lock_timer")
  /\ nvs_lockout' \in NvsWrite(nvs_lockout, 1)
  /\ UNCHANGED <<session_vars, access_vars, nvs_counter, req, isr, reboots,
                 history>>

StartLockout ==
  /\ Rx("lock_timer", "nrc36")
  /\ lockout_timer' = TRUE
  /\ UNCHANGED <<session_vars, security_status, failed_attempts_counter,
                 nvs_vars, req, isr, reboots, history>>

\* NRC 0x35, or 0x36 when the key caused a lockout.  An answer that leaves
\* after its lockout has already been served counts for no open round.
AnswerWrongKey ==
  /\ Rx("nrc35", "recv") \/ Rx("nrc36", "recv")
  /\ answered' = IF pc = "nrc35" \/ security_status = "BRUTE_FORCE_LOCKOUT"
                 THEN answered + 1 ELSE answered
  /\ UNCHANGED <<session_vars, access_vars, nvs_vars, req, isr, reboots,
                 fresh, verify_fresh>>

----------------------------------------------------------------------------
(* The gate of the protected services: the session is read first, then the *)
(* security status, then the application hook is called.                   *)

SessionGate(request) ==
  IF request = "download" THEN current_session # "DEFAULT"
                          ELSE current_session = "EXTENDED"

GateSession ==
  /\ req \in {"download", "actuate"}
  /\ Rx("dispatch", IF SessionGate(req) THEN "gate" ELSE "recv")
  /\ UNCHANGED <<session_vars, access_vars, nvs_vars, req, isr, reboots, history>>

GateSecurity ==
  /\ Rx("gate", IF security_status = "UNLOCKED" THEN "hook" ELSE "recv")
  /\ UNCHANGED <<session_vars, access_vars, nvs_vars, req, isr, reboots, history>>

HookReturns ==
  /\ Rx("hook", "recv")
  /\ UNCHANGED <<session_vars, access_vars, nvs_vars, req, isr, reboots, history>>

----------------------------------------------------------------------------
(* Timer callbacks, in interrupt context.                                  *)

BugS3Expiry ==
  /\ isr = "none" /\ s3_timer
  /\ s3_timer' = FALSE
  /\ current_session' = "DEFAULT"
  /\ fresh' = FALSE /\ verify_fresh' = FALSE
  /\ UNCHANGED <<access_vars, nvs_vars, pc, req, isr, reboots, answered>>
S3Expiry ==
  /\ isr = "none" /\ s3_timer
  /\ s3_timer' = FALSE
  /\ IF current_session # "DEFAULT"
     THEN /\ current_session' = "DEFAULT"
          /\ security_status' = ResetLock(security_status)
          /\ fresh' = FALSE /\ verify_fresh' = FALSE
     ELSE UNCHANGED <<current_session, security_status, fresh, verify_fresh>>
  /\ UNCHANGED <<failed_attempts_counter, lockout_timer, nvs_vars, pc, req,
                 isr, reboots, answered>>

\* lockout_timer_expiry_cb: RAM first, then the two NVS entries.
LockoutExpiry ==
  /\ isr = "none" /\ lockout_timer
  /\ lockout_timer' = FALSE
  /\ security_status' = "LOCKED"
  /\ failed_attempts_counter' = 0
  /\ isr' = "counter"
  /\ answered' = 0
  /\ UNCHANGED <<session_vars, nvs_vars, pc, req, reboots, fresh, verify_fresh>>

ClearNvs ==
  /\ \/ /\ isr = "counter" /\ isr' = "lockout"
        /\ nvs_counter' \in NvsWrite(nvs_counter, 0)
        /\ UNCHANGED nvs_lockout
     \/ /\ isr = "lockout" /\ isr' = "none"
        /\ nvs_lockout' \in NvsWrite(nvs_lockout, 0)
        /\ UNCHANGED nvs_counter
  /\ UNCHANGED <<session_vars, access_vars, pc, req, reboots, history>>

----------------------------------------------------------------------------
(* Reboot and uds_init: uds_session_init, uds_security_init, RX thread.    *)

Reboot ==
  /\ pc # "boot" /\ reboots < MaxReboots
  /\ reboots' = reboots + 1
  /\ pc' = "boot" /\ req' = "other" /\ isr' = "none"
  /\ current_session' = "DEFAULT" /\ s3_timer' = FALSE
  /\ security_status' = "LOCKED" /\ failed_attempts_counter' = 0
  /\ lockout_timer' = FALSE
  /\ fresh' = FALSE /\ verify_fresh' = FALSE
  /\ UNCHANGED <<nvs_vars, answered>>

\* What uds_security_init makes of the two NVS entries.
BugRestore(lockout, counter) ==
  IF lockout = 1
  THEN [status |-> "BRUTE_FORCE_LOCKOUT", attempts |-> MAX_FAILED_ATTEMPTS,
        timer |-> FALSE]
  ELSE [status |-> "LOCKED", attempts |-> counter, timer |-> FALSE]
BugForget(lockout, counter) ==
  [status |-> "LOCKED", attempts |-> counter, timer |-> FALSE]
Restore(lockout, counter) ==
  IF lockout = 1
  THEN [status |-> "BRUTE_FORCE_LOCKOUT", attempts |-> MAX_FAILED_ATTEMPTS,
        timer |-> TRUE]
  ELSE [status |-> "LOCKED", attempts |-> counter, timer |-> FALSE]

Boot ==
  /\ Rx("boot", "recv")
  /\ \E lockout \in NvsRead(nvs_lockout), counter \in NvsRead(nvs_counter) :
       LET restored == Restore(lockout, counter)
       IN  /\ security_status' = restored.status
           /\ failed_attempts_counter' = restored.attempts
           /\ lockout_timer' = restored.timer
  /\ UNCHANGED <<session_vars, nvs_vars, req, isr, reboots, history>>

----------------------------------------------------------------------------
Init ==
  /\ current_session = "DEFAULT" /\ s3_timer = FALSE
  /\ security_status = "LOCKED" /\ failed_attempts_counter = 0
  /\ lockout_timer = FALSE
  /\ nvs_counter = 0 /\ nvs_lockout = 0
  /\ pc = "boot" /\ req = "other" /\ isr = "none" /\ reboots = 0
  /\ answered = 0 /\ fresh = FALSE /\ verify_fresh = FALSE

\* What the RX thread does once it has a request.
Handle ==
  \/ RefreshTimer \/ OtherRequest
  \/ ResetLockTest \/ Relock \/ SetSession \/ SetRefresh
  \/ SecurityEntry \/ SeedTest \/ SeedStore
  \/ KeyTest \/ Verify \/ Granted \/ PersistCounter("grant_nvs", "recv")
  \/ Denied \/ PersistCounter("deny_nvs", "judge") \/ Judge
  \/ PersistLockout \/ StartLockout \/ AnswerWrongKey
  \/ GateSession \/ GateSecurity \/ HookReturns

Next ==
  \/ Receive \/ Handle
  \/ S3Expiry \/ LockoutExpiry \/ ClearNvs
  \/ Reboot \/ Boot

Spec == Init /\ [][Next]_vars

\* The RX thread is scheduled and hooks return; a running kernel timer
\* expires, the S3 timer only if no request keeps restarting it.  The tester
\* and reboots are under no obligation.
Fairness ==
  /\ WF_vars(Boot) /\ WF_vars(Handle) /\ WF_vars(ClearNvs)
  /\ WF_vars(LockoutExpiry)
  /\ WF_vars(pc = "recv" /\ S3Expiry)

FairSpec == Spec /\ Fairness

----------------------------------------------------------------------------
(* Properties.                                                             *)

ControlPoints ==
  {"boot", "recv", "refresh", "start", "stop", "dispatch",
   "relock", "set_session", "set_refresh", "set_start", "set_stop",
   "seed", "seed_store", "key", "verify", "grant", "grant_nvs",
   "deny", "deny_nvs", "judge", "nrc35", "lock_nvs", "lock_timer", "nrc36",
   "gate", "hook"}

\* Every variable keeps its type.
TypeOK ==
  /\ current_session \in Sessions /\ s3_timer \in BOOLEAN
  /\ security_status \in Statuses
  /\ failed_attempts_counter \in 0..CounterModulus - 1
  /\ lockout_timer \in BOOLEAN
  /\ nvs_counter \in 0..CounterModulus - 1
  /\ nvs_lockout \in 0..1
  /\ pc \in ControlPoints /\ req \in Requests
  /\ isr \in {"none", "counter", "lockout"}
  /\ reboots \in 0..MaxReboots
  /\ answered \in Nat
  /\ fresh \in BOOLEAN /\ verify_fresh \in BOOLEAN

\* A session other than the default one is never left without the timer that
\* ends it, although the callback may fire between the test and the start in
\* uds_session_refresh_timer.
S3Supervised ==
  current_session # "DEFAULT" =>
    s3_timer \/ pc \in {"set_refresh", "set_start"}

\* The lockout status lasts exactly as long as its timer runs: neither a
\* session change, nor the S3 callback, nor a reboot ends it early or leaves
\* it without an end.
LockoutSupervised ==
  security_status = "BRUTE_FORCE_LOCKOUT" <=>
    lockout_timer \/ pc \in {"lock_nvs", "lock_timer"}

\* Outside the default session, unlocked means that a key was verified after
\* that session was entered, even when S3 expired during the verification.
FreshGrant ==
  security_status = "UNLOCKED" /\ current_session # "DEFAULT" => fresh

\* The two reads of a gate are not atomic, yet when it lets a request through
\* both still hold together: S3 takes the session and the grant away at once.
GateHolds == [][pc = "gate" /\ pc' = "hook" => SessionGate(req) /\ fresh]_vars

\* Too few reboots so far for the uint8_t counter to have wrapped.
CounterHolds == MAX_FAILED_ATTEMPTS + reboots < CounterModulus

\* uds_security.c compares the counter with the limit only after adding one
\* to it, so a reboot between the two can push it past the limit.  It takes
\* one reboot for each such key: the key that wraps the counter to 0 cannot
\* come before reboots have used up all values above the limit.
WrapNeedsReboots ==
  [][pc = "deny" /\ pc' = "deny_nvs" /\ failed_attempts_counter' = 0
       => ~CounterHolds]_vars

\* Between two clearings of the count at most MAX_FAILED_ATTEMPTS wrong keys
\* get an answer, however reboots cut the handling short, as long as they are
\* too few to wrap the counter.
AnsweredFailuresBounded ==
  ~NvsFaults /\ CounterHolds => answered <= MAX_FAILED_ATTEMPTS

\* No key is verified while NVS holds a lockout (uds_security_init brings it
\* back before the first request).
NoVerifyUnderStoredLockout ==
  ~NvsFaults => (pc = "verify" => nvs_lockout = 0)

\* Session and security implement the promise of AccessControl.
Promise == INSTANCE AccessControl WITH
  session <- current_session,
  granted <- security_status = "UNLOCKED",
  blocked <- nvs_lockout = 1
ImplementsAccessControl == Promise!Spec

\* What is left of that promise when NVS fails: sessions and grants, on which
\* the gated services depend, follow it whether or not lockouts are recorded.
Grants == INSTANCE AccessControl WITH
  session <- current_session,
  granted <- security_status = "UNLOCKED",
  blocked <- FALSE
GrantsWithoutNvs == Grants!Spec

\* A tester that falls silent leaves the server in the default session.
QuietReturnsToDefault == <>[](pc = "recv") => <>[](current_session = "DEFAULT")

\* A lockout on record is eventually served, across reboots.
StoredLockoutServed == nvs_lockout = 1 ~> nvs_lockout = 0

\* Kconfig.uds, UDS_SEC_MAX_FAILED_ATTEMPTS: the number of consecutive
\* incorrect keys allowed before locking out is never exceeded.  Violated: a
\* reboot after the counter is written and before the lockout is leaves a
\* counter at the limit, which uds_security_init does not act on.
AttemptsWithinLimit == failed_attempts_counter <= MAX_FAILED_ATTEMPTS

\* Kconfig.uds, UDS_S3_TIMEOUT_MS: without tester communication security is
\* locked again.  Violated: the default session can be unlocked, and the S3
\* timer does not run there.
QuietLocks == <>[](pc = "recv") => <>[](security_status # "UNLOCKED")
============================================================================
