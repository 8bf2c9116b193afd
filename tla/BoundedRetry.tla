---------------------------- MODULE BoundedRetry ----------------------------
(***************************************************************************)
(* What ReportServiceClient.post_reports_batch promises its callers,       *)
(* without the breaker, the backoff and the HTTP statuses:                 *)
(*   - a call sends at least one request and at most MaxAttempts, or is    *)
(*     refused by the breaker before it sends any;                         *)
(*   - "Unavailable" is reported only after MaxAttempts requests;          *)
(*   - every call ends, with exactly one outcome.                          *)
(***************************************************************************)
EXTENDS Integers

CONSTANTS
  Callers,       \* concurrent calls of one process
  MaxAttempts,   \* requests a call may send
  Outcomes       \* what a call may end with

VARIABLES
  phase,         \* "idle", "running" or "ended", for each caller
  sent,          \* requests the caller's current call has sent
  outcome        \* what the caller's current call ended with, or "none"

vars == <<phase, sent, outcome>>

Init ==
  /\ phase = [c \in Callers |-> "idle"]
  /\ sent = [c \in Callers |-> 0]
  /\ outcome = [c \in Callers |-> "none"]

Start(c) ==
  /\ phase[c] = "idle"
  /\ phase' = [phase EXCEPT ![c] = "running"]
  /\ sent' = [sent EXCEPT ![c] = 1]
  /\ UNCHANGED outcome

StartRefused(c) ==
  /\ phase[c] = "idle"
  /\ phase' = [phase EXCEPT ![c] = "ended"]
  /\ outcome' = [outcome EXCEPT ![c] = "BreakerOpen"]
  /\ UNCHANGED sent

Resend(c) ==
  /\ phase[c] = "running"
  /\ sent[c] < MaxAttempts
  /\ sent' = [sent EXCEPT ![c] = @ + 1]
  /\ UNCHANGED <<phase, outcome>>

End(c, o) ==
  /\ phase[c] = "running"
  /\ o = "Unavailable" => sent[c] = MaxAttempts
  /\ o = "BreakerOpen" => sent[c] < MaxAttempts
  /\ phase' = [phase EXCEPT ![c] = "ended"]
  /\ outcome' = [outcome EXCEPT ![c] = o]
  /\ UNCHANGED sent

Collect(c) ==
  /\ phase[c] = "ended"
  /\ phase' = [phase EXCEPT ![c] = "idle"]
  /\ sent' = [sent EXCEPT ![c] = 0]
  /\ outcome' = [outcome EXCEPT ![c] = "none"]

Next ==
  \E c \in Callers :
    \/ Start(c)
    \/ StartRefused(c)
    \/ Resend(c)
    \/ \E o \in Outcomes : End(c, o)
    \/ Collect(c)

SafeSpec == Init /\ [][Next]_vars

\* Every call ends.
Spec ==
  /\ SafeSpec
  /\ \A c \in Callers : WF_vars(Resend(c) \/ \E o \in Outcomes : End(c, o))

=============================================================================
