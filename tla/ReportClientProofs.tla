------------------------- MODULE ReportClientProofs -------------------------
(***************************************************************************)
(* Proofs about ReportClient, for any number of concurrent calls and any   *)
(* threshold, recovery timeout and number of attempts.                     *)
(***************************************************************************)
EXTENDS ReportClient, TLAPS

\* Whatever the service replies, a request ends with one of the outcomes the
\* callers know; only the breaker itself ends a call as "BreakerOpen".
LEMMA EndingType ==
  ASSUME NEW reply \in Reply
  PROVE  Ending(reply) \in Results \ {"BreakerOpen"}
<1>1. CASE reply.kind = "network"
  BY <1>1 DEF Ending, Results
<1>2. CASE reply.kind = "malformed"
  BY <1>2 DEF Ending, Results
<1>3. CASE reply.kind = "http"
  <2>1. reply.status \in HTTPStatus
    BY <1>3 DEF Reply
  <2>2. CreateException(reply.status) \in {"NotFound", "Unavailable", "Client"}
    BY <2>1 DEF CreateException, ErrorMapping, HTTPStatus
  <2>3. HandleResponse(reply.status) \in {"reports", "NotFound", "Unavailable", "Client"}
    BY <2>2 DEF HandleResponse
  <2> QED
    BY <1>3, <2>3 DEF Ending, Results
<1> QED
  BY <1>1, <1>2, <1>3 DEF Reply

-----------------------------------------------------------------------------

\* What the state of one caller says about its call: an idle caller has no
\* call, a sleeping one has attempts left, and only a call that has ended has
\* a result.
CallOK(c) ==
  /\ pc[c] = "idle" => attempt[c] = 0
  /\ pc[c] # "idle" => attempt[c] \in 1 .. MaxAttempts
  /\ pc[c] = "backoff" => attempt[c] < MaxAttempts
  /\ pc[c] = "done" <=> result[c] # "none"
  /\ result[c] = "Unavailable" => attempt[c] = MaxAttempts

\* The count of the breaker is that of the requests which found the service
\* unavailable; it is open exactly when the count has reached the threshold, and
\* closed it has no recovery time left to wait for.
BreakerOK ==
  /\ failureCount = streak
  /\ breakerState = "open" <=> failureCount = FailureThreshold
  /\ breakerState = "closed" => openRemaining = 0

Inv ==
  /\ TypeOK
  /\ BreakerOK
  /\ \A c \in Callers : CallOK(c)

LEMMA InitInv == Init => Inv
BY BreakerAssumption, ClientAssumption
   DEF Init, Inv, TypeOK, BreakerTypeOK, BreakerInit, BreakerOK, CallOK

\* The breaker's own part of the invariant: each request that ends is counted by
\* the breaker and by the history alike.
BreakerInv == BreakerTypeOK /\ BreakerOK /\ streak \in 0 .. FailureThreshold

LEMMA BreakerStep ==
  ASSUME BreakerInv,
         \/ \E c \in Callers : \E ending : Count(c, ending) /\ streak' = Streak(ending)
         \/ RecoveryTick /\ UNCHANGED streak
         \/ UNCHANGED <<breakerVars, streak>>
  PROVE  BreakerInv'
<1>1. ASSUME NEW c \in Callers, NEW ending, Count(c, ending), streak' = Streak(ending)
      PROVE  BreakerInv'
  <2>1. CASE ending = "Unavailable"
    BY <1>1, <2>1, BreakerAssumption
       DEF Count, CircuitBreakerExceptions, CallFailed, Streak,
           BreakerInv, BreakerTypeOK, BreakerOK
  <2>2. CASE ending # "Unavailable"
    BY <1>1, <2>2, BreakerAssumption
       DEF Count, CircuitBreakerExceptions, CallSucceeded, Streak,
           BreakerInv, BreakerTypeOK, BreakerOK
  <2> QED
    BY <2>1, <2>2
<1>2. CASE RecoveryTick /\ UNCHANGED streak
  BY <1>2, BreakerAssumption
     DEF RecoveryTick, BreakerInv, BreakerTypeOK, BreakerOK
<1>3. CASE UNCHANGED <<breakerVars, streak>>
  BY <1>3 DEF breakerVars, BreakerInv, BreakerTypeOK, BreakerOK
<1> QED
  BY <1>1, <1>2, <1>3

LEMMA NextInv == Inv /\ [Next]_vars => Inv'
<1> SUFFICES ASSUME Inv, [Next]_vars
             PROVE  Inv'
  OBVIOUS
<1> USE ClientAssumption
<1>0. BreakerInv
  BY DEF Inv, TypeOK, BreakerInv
<1>1. ASSUME NEW c \in Callers, Call(c)
      PROVE  Inv'
  <2>1. BreakerInv'
    BY <1>0, <1>1, BreakerStep DEF Call, Attempt
  <2>2. QED
    BY <1>1, <2>1 DEF Call, Attempt, Inv, TypeOK, BreakerInv, CallOK, Results
<1>2. ASSUME NEW c \in Callers, Wake(c)
      PROVE  Inv'
  <2>1. BreakerInv'
    BY <1>0, <1>2, BreakerStep DEF Wake, Attempt
  <2>2. QED
    BY <1>2, <2>1 DEF Wake, Attempt, Inv, TypeOK, BreakerInv, CallOK, Results
<1>3. ASSUME NEW c \in Callers, NEW reply \in Reply, Respond(c, reply)
      PROVE  Inv'
  <2>1. BreakerInv'
    BY <1>0, <1>3, BreakerStep DEF Respond, Count
  <2>2. QED
    BY <1>3, <2>1, EndingType
       DEF Respond, Retried, NetworkExceptions, Inv, TypeOK, BreakerInv, CallOK, Results
<1>4. ASSUME NEW c \in Callers, Return(c)
      PROVE  Inv'
  <2>1. BreakerInv'
    BY <1>0, <1>4, BreakerStep DEF Return
  <2>2. QED
    BY <1>4, <2>1 DEF Return, Inv, TypeOK, BreakerInv, CallOK, Results
<1>5. CASE Tick
  <2>1. BreakerInv'
    BY <1>0, <1>5, BreakerStep DEF Tick
  <2>2. QED
    BY <1>5, <2>1 DEF Tick, callVars, Inv, TypeOK, BreakerInv, CallOK
<1>6. CASE UNCHANGED vars
  <2>1. BreakerInv'
    BY <1>0, <1>6, BreakerStep DEF vars
  <2>2. QED
    BY <1>6, <2>1 DEF vars, callVars, Inv, TypeOK, BreakerInv, CallOK
<1> QED
  BY <1>1, <1>2, <1>3, <1>4, <1>5, <1>6 DEF Next

LEMMA Invariance == Spec => []Inv
BY InitInv, NextInv, PTL DEF Spec

\* The variables of the breaker and of every call stay in their types.
THEOREM TypeCorrect == Spec => []TypeOK
<1>1. Inv => TypeOK
  BY DEF Inv
<1> QED
  BY <1>1, Invariance, PTL

\* However many concurrent calls share the breaker, it is open exactly when the
\* last FailureThreshold requests to end, of any of them, found the service
\* unavailable.
THEOREM BreakerCounts == Spec => []OpenAfterUnavailable
<1>1. Inv => OpenAfterUnavailable
  BY DEF Inv, BreakerOK, OpenAfterUnavailable
<1> QED
  BY <1>1, Invariance, PTL

-----------------------------------------------------------------------------

\* While the breaker refuses calls no request is sent, by no call, new or
\* retried.
THEOREM RefusesRequests == Spec => NoRequestWhileOpen
<1>1. Inv /\ [Next]_vars =>
        [Opened => \A c \in Callers : pc'[c] = "inflight" => pc[c] = "inflight"]_vars
  <2> SUFFICES ASSUME Inv, Next, Opened, NEW d \in Callers, pc'[d] = "inflight"
               PROVE  pc[d] = "inflight"
    OBVIOUS
  <2> USE DEF Inv, TypeOK
  <2>1. ASSUME NEW c \in Callers, Call(c)
        PROVE  pc[d] = "inflight"
    BY <2>1 DEF Call, Attempt
  <2>2. ASSUME NEW c \in Callers, Wake(c)
        PROVE  pc[d] = "inflight"
    BY <2>2 DEF Wake, Attempt
  <2>3. ASSUME NEW c \in Callers, NEW reply \in Reply, Respond(c, reply)
        PROVE  pc[d] = "inflight"
    BY <2>3 DEF Respond
  <2>4. ASSUME NEW c \in Callers, Return(c)
        PROVE  pc[d] = "inflight"
    BY <2>4 DEF Return
  <2>5. CASE Tick
    BY <2>5 DEF Tick, callVars
  <2> QED
    BY <2>1, <2>2, <2>3, <2>4, <2>5 DEF Next
<1> QED
  BY <1>1, Invariance, PTL DEF Spec, NoRequestWhileOpen

\* An open breaker closes only because a request in flight is answered with
\* something else than unavailability.
THEOREM ClosesOnAnswer == Spec => ClosesOnlyOnAnswer
<1> DEFINE Answered(c) == /\ pc[c] = "inflight"
                          /\ pc'[c] = "done"
                          /\ result'[c] \notin {"Unavailable", "BreakerOpen"}
<1>1. Inv /\ [Next]_vars =>
        [breakerState = "open" /\ breakerState' = "closed" =>
           \E c \in Callers : Answered(c)]_vars
  <2> SUFFICES ASSUME Inv, Next, breakerState = "open", breakerState' = "closed"
               PROVE  \E c \in Callers : Answered(c)
    OBVIOUS
  <2> USE DEF Inv, TypeOK
  <2>1. ASSUME NEW c \in Callers, Call(c) \/ Wake(c) \/ Return(c)
        PROVE  FALSE
    BY <2>1 DEF Call, Wake, Return, Attempt, breakerVars
  <2>2. ASSUME NEW c \in Callers, NEW reply \in Reply, Respond(c, reply)
        PROVE  Answered(c)
    <3>1. Ending(reply) # "Unavailable"
      BY <2>2 DEF Respond, Count, CircuitBreakerExceptions, CallFailed
    <3>2. pc'[c] = "done" /\ result'[c] = Ending(reply)
      BY <2>2, <3>1 DEF Respond, Retried, NetworkExceptions
    <3> QED
      BY <2>2, <3>1, <3>2, EndingType DEF Respond
  <2>3. CASE Tick
    BY <2>3 DEF Tick, RecoveryTick
  <2> QED
    BY <2>1, <2>2, <2>3 DEF Next
<1> QED
  BY <1>1, Invariance, PTL DEF Spec, ClosesOnlyOnAnswer

\* A failure while the breaker is open, from a probe or from a straggler,
\* starts the whole recovery timeout again.
THEOREM FailureRestarts == Spec => FailureRestartsRecovery
<1> DEFINE Failed(c) == /\ breakerState = "open" /\ pc[c] = "inflight"
                        /\ pc'[c] = "backoff" \/ result'[c] = "Unavailable"
<1>1. Inv /\ [Next]_vars =>
        [\A c \in Callers :
           Failed(c) => Opened' /\ openRemaining' = RecoveryTimeout]_vars
  <2> SUFFICES ASSUME Inv, Next, NEW d \in Callers, Failed(d)
               PROVE  Opened' /\ openRemaining' = RecoveryTimeout
    OBVIOUS
  <2> USE DEF Inv, TypeOK, CallOK
  <2>1. ASSUME NEW c \in Callers, Call(c) \/ Wake(c) \/ Return(c)
        PROVE  FALSE
    BY <2>1 DEF Call, Wake, Return, Attempt
  <2>2. ASSUME NEW c \in Callers, NEW reply \in Reply, Respond(c, reply)
        PROVE  Opened' /\ openRemaining' = RecoveryTimeout
    <3>1. c = d
      BY <2>2 DEF Respond
    <3>2. Ending(reply) = "Unavailable"
      BY <2>2, <3>1 DEF Respond, Retried, NetworkExceptions
    <3>3. CallFailed
      BY <2>2, <3>2 DEF Respond, Count, CircuitBreakerExceptions
    <3> QED
      BY <3>3, BreakerAssumption
         DEF CallFailed, Opened, BreakerOK, BreakerTypeOK
  <2>3. CASE Tick
    BY <2>3 DEF Tick, callVars
  <2> QED
    BY <2>1, <2>2, <2>3 DEF Next
<1> QED
  BY <1>1, Invariance, PTL DEF Spec, FailureRestartsRecovery

-----------------------------------------------------------------------------

(* The safety part of the refinement of BoundedRetry. *)

LEMMA InitPromise == Init => Promise!Init
BY DEF Init, Promise!Init, Phase, Sent

\* Every step of the client is a step of the bounded call, or leaves it as it
\* is: the breaker's ticks and the backoff are invisible.
LEMMA NextPromise ==
  ASSUME Inv, [Next]_vars
  PROVE  [Promise!Next]_Promise!vars
<1> USE ClientAssumption DEF Inv, TypeOK, CallOK
<1>1. ASSUME NEW c \in Callers, Call(c), Opened
      PROVE  Promise!StartRefused(c)
  <2>1. pc[c] = "idle" /\ attempt[c] = 0 /\ result[c] = "none"
    BY <1>1 DEF Call
  <2>2. /\ pc' = [pc EXCEPT ![c] = "done"]
        /\ attempt' = [attempt EXCEPT ![c] = 1]
        /\ result' = [result EXCEPT ![c] = "BreakerOpen"]
    BY <1>1 DEF Call, Attempt
  <2>3. Phase[c] = "idle" /\ Phase' = [Phase EXCEPT ![c] = "ended"]
    BY <2>1, <2>2 DEF Phase
  <2>4. Sent' = Sent
    BY <2>1, <2>2 DEF Sent
  <2> QED
    BY <2>2, <2>3, <2>4 DEF Promise!StartRefused
<1>2. ASSUME NEW c \in Callers, Call(c), ~Opened
      PROVE  Promise!Start(c)
  BY <1>2 DEF Call, Attempt, Promise!Start, Phase, Sent, Results
<1>3. ASSUME NEW c \in Callers, Wake(c), Opened
      PROVE  Promise!End(c, "BreakerOpen")
  <2>1. pc[c] = "backoff" /\ attempt[c] < MaxAttempts /\ result[c] = "none"
    BY <1>3 DEF Wake
  <2>2. /\ pc' = [pc EXCEPT ![c] = "done"]
        /\ attempt' = [attempt EXCEPT ![c] = @ + 1]
        /\ result' = [result EXCEPT ![c] = "BreakerOpen"]
    BY <1>3 DEF Wake, Attempt
  <2>3. Phase[c] = "running" /\ Phase' = [Phase EXCEPT ![c] = "ended"]
    BY <2>1, <2>2 DEF Phase
  <2>4. Sent[c] < MaxAttempts /\ Sent' = Sent
    BY <2>1, <2>2 DEF Sent
  <2> QED
    BY <2>2, <2>3, <2>4 DEF Promise!End
<1>4. ASSUME NEW c \in Callers, Wake(c), ~Opened
      PROVE  Promise!Resend(c)
  BY <1>4 DEF Wake, Attempt, Promise!Resend, Phase, Sent, Results
<1>5. ASSUME NEW c \in Callers, NEW reply \in Reply, Respond(c, reply),
             Retried(c, Ending(reply))
      PROVE  UNCHANGED Promise!vars
  BY <1>5 DEF Respond, Promise!vars, Phase, Sent
<1>6. ASSUME NEW c \in Callers, NEW reply \in Reply, Respond(c, reply),
             ~Retried(c, Ending(reply))
      PROVE  Promise!End(c, Ending(reply))
  <2> DEFINE ending == Ending(reply)
  <2>1. /\ pc[c] = "inflight"
        /\ pc' = [pc EXCEPT ![c] = "done"]
        /\ result' = [result EXCEPT ![c] = ending]
        /\ attempt' = attempt
    BY <1>6 DEF Respond
  <2>2. result[c] = "none" /\ ending # "BreakerOpen" /\ attempt[c] \in 1 .. MaxAttempts
    BY <2>1, EndingType
  <2>3. ending = "Unavailable" => attempt[c] = MaxAttempts
    BY <1>6, <2>2 DEF Retried, NetworkExceptions
  <2> HIDE DEF ending
  <2>4. Phase[c] = "running" /\ Phase' = [Phase EXCEPT ![c] = "ended"]
    BY <2>1 DEF Phase
  <2>5. Sent[c] = attempt[c] /\ Sent' = Sent
    BY <2>1, <2>2 DEF Sent
  <2>6. Promise!End(c, ending)
    BY <2>1, <2>2, <2>3, <2>4, <2>5 DEF Promise!End
  <2> QED
    BY <2>6 DEF ending
<1>7. ASSUME NEW c \in Callers, Return(c)
      PROVE  Promise!Collect(c)
  BY <1>7 DEF Return, Promise!Collect, Phase, Sent
<1>8. CASE Tick \/ UNCHANGED vars
  BY <1>8 DEF Tick, vars, callVars, Promise!vars, Phase, Sent
<1> QED
  BY <1>1, <1>2, <1>3, <1>4, <1>5, <1>6, <1>7, <1>8, EndingType
     DEF Next, Promise!Next, Results

\* A call sends between one and MaxAttempts requests, or is refused before it
\* sends any; it reports "Unavailable" only when all of them have failed.
THEOREM KeepsPromise == Spec => Promise!SafeSpec
BY InitPromise, NextPromise, Invariance, PTL DEF Spec, Promise!SafeSpec

-----------------------------------------------------------------------------

(* The variant of a call: the safety half of CallEnds. *)

Calling(c) == pc[c] \in {"inflight", "backoff"}

\* The requests of a call and the sleeps between them, those before this moment.
Spent(c) == 2 * attempt[c] + (IF pc[c] = "backoff" THEN 1 ELSE 0)

CallGoesOn ==
  [][\A c \in Callers :
       Calling(c) /\ Calling(c)' =>
         \/ UNCHANGED <<pc[c], attempt[c]>>
         \/ Spent(c)' = Spent(c) + 1 /\ Spent(c)' <= 2 * MaxAttempts]_vars

\* Whatever the service replies and the other callers do to the breaker, each
\* step of a call brings it nearer to its end, and there are at most
\* 2 * MaxAttempts of them.
THEOREM CallProgress == Spec => CallGoesOn
<1> DEFINE Step(c) == \/ UNCHANGED <<pc[c], attempt[c]>>
                      \/ Spent(c)' = Spent(c) + 1 /\ Spent(c)' <= 2 * MaxAttempts
<1>1. ASSUME Inv, Next, NEW d \in Callers, Calling(d), Calling(d)'
      PROVE  Step(d)
  <2> USE ClientAssumption DEF Inv, TypeOK, CallOK, Calling, Spent
  <2>1. ASSUME NEW c \in Callers, Call(c) \/ Return(c)
        PROVE  Step(d)
    BY <1>1, <2>1 DEF Call, Attempt, Return
  <2>2. ASSUME NEW c \in Callers, Wake(c)
        PROVE  Step(d)
    BY <1>1, <2>2 DEF Wake, Attempt
  <2>3. ASSUME NEW c \in Callers, NEW reply \in Reply, Respond(c, reply)
        PROVE  Step(d)
    BY <1>1, <2>3 DEF Respond, Retried
  <2>4. CASE Tick
    BY <2>4 DEF Tick, callVars
  <2> QED
    BY <1>1, <2>1, <2>2, <2>3, <2>4 DEF Next
<1>2. Inv /\ [Next]_vars =>
        [\A c \in Callers : Calling(c) /\ Calling(c)' => Step(c)]_vars
  BY <1>1
<1> QED
  BY <1>2, Invariance, PTL DEF Spec, CallGoesOn

=============================================================================
