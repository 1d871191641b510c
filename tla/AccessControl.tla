--------------------------- MODULE AccessControl ---------------------------
(***************************************************************************)
(* What the session and security services (0x10, 0x27) promise to the      *)
(* services that are gated by them: three variables and the only ways they *)
(* may change.  UdsSecurity implements this specification; UdsFlash uses   *)
(* it as the environment of the flashing pipeline.                         *)
(***************************************************************************)

Sessions == {"DEFAULT", "PROGRAMMING", "EXTENDED"}

VARIABLES session,  \* the active diagnostic session
          granted,  \* security access is unlocked
          blocked   \* a brute-force lockout is recorded in non-volatile memory

access == <<session, granted, blocked>>

Init == session = "DEFAULT" /\ granted = FALSE /\ blocked = FALSE

\* An open grant is withdrawn.
Revoke == granted' = FALSE /\ UNCHANGED <<session, blocked>>

\* A session is entered on request, and no grant is carried into it.
EnterSession(s) == ~granted /\ session' = s /\ UNCHANGED <<granted, blocked>>

\* A key was accepted; impossible while a lockout is on record.
Grant == ~blocked /\ granted' = TRUE /\ UNCHANGED <<session, blocked>>

\* A lockout is put on record.
Block == ~granted /\ blocked' = TRUE /\ UNCHANGED <<session, granted>>

\* The S3 timeout takes the session and the grant away in one step.
Timeout == session' = "DEFAULT" /\ granted' = FALSE /\ UNCHANGED blocked

\* The lockout time has been served.
Unblock == ~granted /\ blocked' = FALSE /\ UNCHANGED <<session, granted>>

\* A reboot loses the session and the grant, never the lockout on record.
Restart == session' = "DEFAULT" /\ granted' = FALSE /\ UNCHANGED blocked

\* The steps taken on behalf of a request, and those of the kernel timers.
Request == Revoke \/ Grant \/ Block \/ \E s \in Sessions : EnterSession(s)
Expiry == Timeout \/ Unblock

Next == Request \/ Expiry \/ Restart

Spec == Init /\ [][Next]_access
============================================================================
