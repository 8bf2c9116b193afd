---------------------------- MODULE ReportClient ----------------------------
(***************************************************************************)
(* ReportServiceClient.post_reports_batch: the retry decorator around the  *)
(* circuit breaker around one HTTP request, for all the concurrent calls   *)
(* of one process (src/clients/report_service_client.py,                   *)
(* src/utils/retry_client.py, src/utils/circuit_breaker.py).               *)
(*                                                                         *)
(* asyncio switches tasks only where a coroutine waits: in the HTTP        *)
(* request and in the backoff sleep.  Everything between two waits is one  *)
(* action, so the breaker's check and the start of the request are one     *)
(* step, and so are the reply, the breaker's update and the retry          *)
(* decision.  How long a sleep lasts is left open.                         *)
(***************************************************************************)
EXTENDS CircuitBreaker

CONSTANTS
  Callers,       \* concurrent calls of post_reports_batch in one process
  MaxAttempts    \* STOP_RETRY_AFTER_ATTEMPT_BASE

ASSUME ClientAssumption == MaxAttempts \in Nat \ {0}

VARIABLES
  pc,            \* "idle", "inflight", "backoff" or "done", for each caller
  attempt,       \* tenacity's attempt_number for the caller's current call
  result,        \* how the caller's current call ended, or "none"
  streak         \* history: the requests in a row, of any calls, that found the
                 \* service unavailable, as far as FailureThreshold

callVars == <<pc, attempt, result>>
vars == <<breakerVars, callVars, streak>>

-----------------------------------------------------------------------------

(* What a reply of the report service turns into. *)

\* One status for every branch of _create_exception, and a success.
HTTPStatus == {200, 400, 404, 429, 500, 502, 503, 504}

\* "network" is a TimeoutError or an aiohttp.ClientError; "malformed" is a
\* success whose body is not a list of TaskAPIResponseSchema.
Reply == [kind : {"http"}, status : HTTPStatus]
           \cup [kind : {"network", "malformed"}, status : {0}]

ErrorMapping ==
  [s \in {404, 429, 502, 503, 504} |->
     IF s = 404 THEN "NotFound" ELSE "Unavailable"]

CreateException(status) ==
  IF status \in DOMAIN ErrorMapping THEN ErrorMapping[status]
  ELSE IF status >= 500 THEN "Unavailable" ELSE "Client"

HandleResponse(status) ==
  IF status < 400 THEN "reports" ELSE CreateException(status)

Ending(reply) ==
  CASE reply.kind = "network"   -> "Unavailable"
    [] reply.kind = "malformed" -> "Unexpected"
    [] OTHER                    -> HandleResponse(reply.status)

Results ==
  {"reports", "Unavailable", "NotFound", "Client", "Unexpected", "BreakerOpen"}

NetworkExceptions == {"Unavailable"}          \* what the retry repeats
CircuitBreakerExceptions == {"Unavailable"}   \* what the breaker counts

-----------------------------------------------------------------------------

Init ==
  /\ BreakerInit
  /\ pc = [c \in Callers |-> "idle"]
  /\ attempt = [c \in Callers |-> 0]
  /\ result = [c \in Callers |-> "none"]
  /\ streak = 0

\* The n-th attempt of a call: refused by an open breaker, which raises
\* CircuitBreakerError and is not retried, or on its way to the service.
Attempt(c, n) ==
  /\ attempt' = [attempt EXCEPT ![c] = n]
  /\ \/ /\ Opened
        /\ pc' = [pc EXCEPT ![c] = "done"]
        /\ result' = [result EXCEPT ![c] = "BreakerOpen"]
     \/ /\ ~Opened
        /\ pc' = [pc EXCEPT ![c] = "inflight"]
        /\ UNCHANGED result
  /\ UNCHANGED <<breakerVars, streak>>

Call(c) ==
  /\ pc[c] = "idle"
  /\ Attempt(c, 1)

\* Mutants of Wake: with the two decorators swapped the breaker guards the call
\* as a whole and its retries pass unchecked; every retry counts from one again.
WakeUnchecked(c) ==
  /\ pc[c] = "backoff"
  /\ pc' = [pc EXCEPT ![c] = "inflight"]
  /\ attempt' = [attempt EXCEPT ![c] = @ + 1]
  /\ UNCHANGED <<breakerVars, result, streak>>
WakeForgetting(c) == pc[c] = "backoff" /\ Attempt(c, 1)

\* The backoff sleep (exponential, with jitter) is over.
Wake(c) ==
  /\ pc[c] = "backoff"
  /\ Attempt(c, attempt[c] + 1)

\* Mutants of Retried: one attempt too many, one too few.
RetriedOnceMore(c, ending) ==
  ending \in NetworkExceptions /\ attempt[c] <= MaxAttempts
RetriedOnceLess(c, ending) ==
  ending \in NetworkExceptions /\ attempt[c] + 1 < MaxAttempts

\* stop_after_attempt: there are attempts left for an exception that the
\* retry repeats.
Retried(c, ending) == ending \in NetworkExceptions /\ attempt[c] < MaxAttempts

\* Mutant of Count: the breaker counts failed calls, not failed requests.
CountCalls(c, ending) ==
  IF Retried(c, ending) THEN UNCHANGED breakerVars
  ELSE IF ending \in CircuitBreakerExceptions THEN CallFailed ELSE CallSucceeded

\* The breaker, inside the retry, counts how each request ended.
Count(c, ending) ==
  IF ending \in CircuitBreakerExceptions THEN CallFailed ELSE CallSucceeded

\* What the history makes of a request that ended.
Streak(ending) ==
  IF ending # "Unavailable" THEN 0
  ELSE IF streak < FailureThreshold THEN streak + 1 ELSE streak

\* The reply arrives, or the request fails or times out.
Respond(c, reply) ==
  LET ending == Ending(reply) IN
  /\ pc[c] = "inflight"
  /\ Count(c, ending)
  /\ streak' = Streak(ending)
  /\ \/ /\ Retried(c, ending)
        /\ pc' = [pc EXCEPT ![c] = "backoff"]
        /\ UNCHANGED result
     \/ /\ ~Retried(c, ending)
        /\ pc' = [pc EXCEPT ![c] = "done"]
        /\ result' = [result EXCEPT ![c] = ending]
  /\ UNCHANGED attempt

\* The caller takes the result or the exception and may call again later.
Return(c) ==
  /\ pc[c] = "done"
  /\ pc' = [pc EXCEPT ![c] = "idle"]
  /\ attempt' = [attempt EXCEPT ![c] = 0]
  /\ result' = [result EXCEPT ![c] = "none"]
  /\ UNCHANGED <<breakerVars, streak>>

Tick == RecoveryTick /\ UNCHANGED <<callVars, streak>>

Next ==
  \/ \E c \in Callers :
       \/ Call(c)
       \/ Wake(c)
       \/ \E reply \in Reply : Respond(c, reply)
       \/ Return(c)
  \/ Tick

\* A sleep ends, ClientTimeout bounds every request, and time passes.
Fairness ==
  /\ \A c \in Callers : WF_vars(Wake(c))
  /\ \A c \in Callers : WF_vars(\E reply \in Reply : Respond(c, reply))
  /\ WF_vars(Tick)

Spec == Init /\ [][Next]_vars
FairSpec == Spec /\ Fairness

-----------------------------------------------------------------------------

\* The breaker and the calls keep their types; no call makes more than
\* MaxAttempts attempts.
TypeOK ==
  /\ BreakerTypeOK
  /\ pc \in [Callers -> {"idle", "inflight", "backoff", "done"}]
  /\ attempt \in [Callers -> 0 .. MaxAttempts]
  /\ result \in [Callers -> Results \cup {"none"}]
  /\ streak \in 0 .. FailureThreshold

\* The breaker is open exactly when the last FailureThreshold requests that ended
\* found the service unavailable, whichever calls made them: retries count one by
\* one, and any other ending, an error of the client or a malformed body
\* included, starts the count anew.
OpenAfterUnavailable == breakerState = "open" <=> streak = FailureThreshold

\* While the breaker refuses calls no request joins those already in flight,
\* not even the retry of a call that was sleeping when the breaker opened.
NoRequestWhileOpen ==
  [][Opened => \A c \in Callers : pc'[c] = "inflight" => pc[c] = "inflight"]_vars

\* The breaker closes only because a request in flight was answered with
\* something else than unavailability; the recovery timeout alone does not
\* close it.  A request sent before the breaker opened may do so.
ClosesOnlyOnAnswer ==
  [][breakerState = "open" /\ breakerState' = "closed" =>
       \E c \in Callers : /\ pc[c] = "inflight"
                          /\ pc'[c] = "done"
                          /\ result'[c] \notin {"Unavailable", "BreakerOpen"}]_vars

\* A request that fails while the breaker is open, be it a probe after the
\* timeout or a straggler, starts the recovery timeout from the beginning.
FailureRestartsRecovery ==
  [][\A c \in Callers :
       /\ breakerState = "open" /\ pc[c] = "inflight"
       /\ pc'[c] = "backoff" \/ result'[c] = "Unavailable"
       => Opened' /\ openRemaining' = RecoveryTimeout]_vars

\* Every call ends, whatever the service and the other callers do.
CallEnds ==
  \A c \in Callers : pc[c] \in {"inflight", "backoff"} ~> pc[c] = "done"

\* An open breaker stops refusing calls: stragglers that fail can restart
\* the recovery timeout only as often as there are requests in flight.
BreakerRecovers == Opened ~> ~Opened

-----------------------------------------------------------------------------

(* The client implements BoundedRetry. *)

Phase ==
  [c \in Callers |->
     IF pc[c] \in {"inflight", "backoff"} THEN "running"
     ELSE IF pc[c] = "done" THEN "ended" ELSE "idle"]

\* The attempt that the breaker refuses sends nothing.
Sent ==
  [c \in Callers |->
     IF result[c] = "BreakerOpen" THEN attempt[c] - 1 ELSE attempt[c]]

Promise == INSTANCE BoundedRetry
             WITH Outcomes <- Results,
                  phase <- Phase, sent <- Sent, outcome <- result

\* The retry, the breaker and the error mapping together keep the promise of
\* a bounded call, the end of every call included.
ImplementsBoundedRetry == Promise!Spec

=============================================================================
