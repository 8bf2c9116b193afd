--------------------------- MODULE CircuitBreaker ---------------------------
(***************************************************************************)
(* The circuit breaker "external_service_standard" that guards every       *)
(* request to the report service: the object the circuitbreaker library    *)
(* builds from src/utils/circuit_breaker.py.  One object exists per        *)
(* process, so all concurrent calls of the process share it.               *)
(*                                                                         *)
(* Time is counted in units of the recovery timeout: openRemaining is the  *)
(* library's open_remaining, the time until an open breaker lets a call    *)
(* through again.  failureCount is only ever compared with the threshold,  *)
(* so it saturates there.                                                  *)
(***************************************************************************)
EXTENDS Integers

CONSTANTS
  FailureThreshold,   \* CB_FAILURE_THRESHOLD_STANDARD
  RecoveryTimeout     \* CB_RECOVERY_TIMEOUT_STANDARD

\* The library replaces a threshold or a timeout of 0 by its default.
ASSUME BreakerAssumption ==
  /\ FailureThreshold \in Nat \ {0}
  /\ RecoveryTimeout \in Nat \ {0}

VARIABLES
  breakerState,       \* _state: "closed" or "open"
  failureCount,       \* _failure_count
  openRemaining       \* open_remaining, 0 while the breaker is closed

breakerVars == <<breakerState, failureCount, openRemaining>>

BreakerTypeOK ==
  /\ breakerState \in {"closed", "open"}
  /\ failureCount \in 0 .. FailureThreshold
  /\ openRemaining \in 0 .. RecoveryTimeout

BreakerInit ==
  /\ breakerState = "closed"
  /\ failureCount = 0
  /\ openRemaining = 0

-----------------------------------------------------------------------------

\* The breaker refuses calls.  Once the recovery timeout is over the library
\* reports "half_open" and lets every caller through, not just one.
Opened == breakerState = "open" /\ openRemaining > 0

\* Mutant of CallSucceeded: the breaker closes but goes on counting.
CallSucceededKeepingCount ==
  /\ breakerState' = "closed"
  /\ openRemaining' = 0
  /\ UNCHANGED failureCount

\* A call ended with anything but ExternalServiceUnavailableException: a
\* result, or an exception the breaker was not told to expect.
CallSucceeded ==
  /\ breakerState' = "closed"
  /\ failureCount' = 0
  /\ openRemaining' = 0

\* A call ended with ExternalServiceUnavailableException.  The count is not
\* reset when the breaker opens, so a failed probe opens it again at once.
CallFailed ==
  /\ failureCount' = IF failureCount < FailureThreshold
                     THEN failureCount + 1
                     ELSE FailureThreshold
  /\ IF failureCount' >= FailureThreshold
     THEN breakerState' = "open" /\ openRemaining' = RecoveryTimeout
     ELSE UNCHANGED <<breakerState, openRemaining>>

\* Mutant of RecoveryTick: the breaker closes by itself after the timeout.
RecoveryTickClosing ==
  /\ openRemaining > 0
  /\ openRemaining' = openRemaining - 1
  /\ IF openRemaining = 1
     THEN breakerState' = "closed" /\ failureCount' = 0
     ELSE UNCHANGED <<breakerState, failureCount>>

\* Mutant of RecoveryTick: the last instant of the timeout never passes.
RecoveryTickStuck ==
  /\ openRemaining > 1
  /\ openRemaining' = openRemaining - 1
  /\ UNCHANGED <<breakerState, failureCount>>

\* Time passes for an open breaker.
RecoveryTick ==
  /\ openRemaining > 0
  /\ openRemaining' = openRemaining - 1
  /\ UNCHANGED <<breakerState, failureCount>>

=============================================================================
