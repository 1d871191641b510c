-------------------------- MODULE DeferredService --------------------------
(***************************************************************************)
(* What the services that answer later promise their testers: an accepted  *)
(* request has its hook run once, with its own argument, while the tester  *)
(* is told to wait; then it is answered once, by its own answer.  UdsAsync *)
(* implements this specification with two threads, a work queue, timers    *)
(* and statics that one request leaves to the next; UdsDtc, with reboots,  *)
(* implements CrashSpec.                                                   *)
(***************************************************************************)
CONSTANTS Arguments, \* of each service: the arguments of a request
          Positive,  \* of each service: the identifier of its answer
          Reporting, \* the services whose answer tells the hook's result
          None

Services == DOMAIN Arguments

VARIABLES owed,    \* of each service: the request to be answered, or None
          waiting, \*   is its tester told to wait?
          ran,     \*   the argument its hook was run with, or None,
          result,  \*   and what the hook returned
          answer   \* the last answer

service == <<owed, waiting, ran, result, answer>>

NoAnswer == [sid |-> "none", id |-> None, ok |-> FALSE]

Init ==
  /\ owed = [s \in Services |-> None]
  /\ waiting = [s \in Services |-> FALSE]
  /\ ran = [s \in Services |-> None]
  /\ result = [s \in Services |-> "none"]
  /\ answer = NoAnswer

\* One request of a service at a time.
Accept(s) ==
  /\ owed[s] = None
  /\ \E a \in Arguments[s] : owed' = [owed EXCEPT ![s] = a]
  /\ UNCHANGED <<waiting, ran, result, answer>>

\* responsePending is sent from now on, until the hook has returned at least.
Supervise(s) ==
  /\ owed[s] # None /\ ran[s] = None
  /\ waiting' = [waiting EXCEPT ![s] = TRUE]
  /\ UNCHANGED <<owed, ran, result, answer>>

Run(s) ==
  /\ owed[s] # None /\ waiting[s] /\ ran[s] = None
  /\ ran' = [ran EXCEPT ![s] = owed[s]]
  /\ \E r \in {"ok", "error"} : result' = [result EXCEPT ![s] = r]
  /\ waiting' \in {waiting, [waiting EXCEPT ![s] = FALSE]}
  /\ UNCHANGED <<owed, answer>>

Answer(s) ==
  /\ ran[s] # None
  /\ answer' = [sid |-> Positive[s], id |-> ran[s],
                ok |-> s \in Reporting => result[s] = "ok"]
  /\ owed' = [owed EXCEPT ![s] = None]
  /\ waiting' = [waiting EXCEPT ![s] = FALSE]
  /\ ran' = [ran EXCEPT ![s] = None]
  /\ result' = [result EXCEPT ![s] = "none"]

\* A reboot: nothing of the requests is left.
Restart ==
  /\ owed' = [s \in Services |-> None]
  /\ waiting' = [s \in Services |-> FALSE]
  /\ ran' = [s \in Services |-> None]
  /\ result' = [s \in Services |-> "none"]
  /\ answer' = NoAnswer

Next == \E s \in Services : Accept(s) \/ Supervise(s) \/ Run(s) \/ Answer(s)

Spec == Init /\ [][Next]_service

CrashSpec == Init /\ [][Next \/ Restart]_service
=============================================================================
