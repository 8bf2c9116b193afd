------------------------- MODULE RegistrationProofs -------------------------
(***************************************************************************)
(* Proofs about Registration, for any number of concurrent POSTs and any   *)
(* settings of the client.  The invariant of the client's calls and of its *)
(* breaker is taken from ReportClientProofs, through an instance of it;    *)
(* here it is shown that every step of Registration is a step of that      *)
(* client, leaves it alone or starts it anew.                              *)
(***************************************************************************)
EXTENDS Registration, TLAPS

ClientProofs == INSTANCE ReportClientProofs WITH Callers <- Requests, pc <- call

-----------------------------------------------------------------------------

(* The client that Registration uses is the one that was proved about. *)

LEMMA SameEnding ==
  ASSUME NEW reply
  PROVE  Client!Ending(reply) = ClientProofs!Ending(reply)
<1>1. Client!ErrorMapping = ClientProofs!ErrorMapping
  BY DEF Client!ErrorMapping, ClientProofs!ErrorMapping
<1>2. ASSUME NEW s
      PROVE  Client!CreateException(s) = ClientProofs!CreateException(s)
  BY <1>1 DEF Client!CreateException, ClientProofs!CreateException
<1>3. ASSUME NEW s
      PROVE  Client!HandleResponse(s) = ClientProofs!HandleResponse(s)
  BY <1>2 DEF Client!HandleResponse, ClientProofs!HandleResponse
<1> QED
  BY <1>3 DEF Client!Ending, ClientProofs!Ending

LEMMA SameAttempt ==
  ASSUME NEW r, NEW n, Client!Attempt(r, n)
  PROVE  ClientProofs!Attempt(r, n)
BY DEF Client!Attempt, ClientProofs!Attempt, Client!Opened, ClientProofs!Opened,
       Client!breakerVars, ClientProofs!breakerVars

LEMMA SameRespond ==
  ASSUME NEW r, NEW reply, Client!Respond(r, reply)
  PROVE  ClientProofs!Respond(r, reply)
<1>1. ASSUME NEW ending
      PROVE  /\ Client!Count(r, ending) => ClientProofs!Count(r, ending)
             /\ Client!Retried(r, ending) <=> ClientProofs!Retried(r, ending)
  BY DEF Client!Count, ClientProofs!Count,
         Client!CallFailed, ClientProofs!CallFailed,
         Client!CallSucceeded, ClientProofs!CallSucceeded,
         Client!CircuitBreakerExceptions, ClientProofs!CircuitBreakerExceptions,
         Client!Retried, ClientProofs!Retried,
         Client!NetworkExceptions, ClientProofs!NetworkExceptions
<1>2. \A ending : Client!Streak(ending) = ClientProofs!Streak(ending)
  BY DEF Client!Streak, ClientProofs!Streak
<1> QED
  BY <1>1, <1>2, SameEnding DEF Client!Respond, ClientProofs!Respond

\* A step of the call of a request is a step of the client.
LEMMA CallingIsNext ==
  ASSUME NEW r \in Requests, Calling(r)
  PROVE  ClientProofs!Next
<1>1. CASE Client!Call(r)
  BY <1>1, SameAttempt DEF Client!Call, ClientProofs!Call, ClientProofs!Next
<1>2. CASE Client!Wake(r)
  BY <1>2, SameAttempt DEF Client!Wake, ClientProofs!Wake, ClientProofs!Next
<1>3. CASE \E reply \in Client!Reply : Client!Respond(r, reply)
  <2>1. Client!Reply = ClientProofs!Reply
    BY DEF Client!Reply, ClientProofs!Reply, Client!HTTPStatus, ClientProofs!HTTPStatus
  <2> QED
    BY <1>3, <2>1, SameRespond DEF ClientProofs!Next
<1> QED
  BY <1>1, <1>2, <1>3 DEF Calling

\* So is the end of its answer.
LEMMA ReturnIsNext ==
  ASSUME NEW r \in Requests, Client!Return(r)
  PROVE  ClientProofs!Next
BY DEF Client!Return, ClientProofs!Return, ClientProofs!Next,
       Client!breakerVars, ClientProofs!breakerVars

\* And the time that passes for the breaker.
LEMMA TickIsNext == Client!Tick => ClientProofs!Next
BY DEF Client!Tick, ClientProofs!Tick, Client!RecoveryTick, ClientProofs!RecoveryTick,
       Client!callVars, ClientProofs!callVars, ClientProofs!Next

\* The invariant of the client survives its own steps and those of others.
LEMMA ClientStep ==
  ASSUME ClientProofs!Inv, ClientProofs!Next \/ UNCHANGED clientVars
  PROVE  ClientProofs!Inv'
<1>1. [ClientProofs!Next]_(ClientProofs!vars)
  BY DEF clientVars, ClientProofs!vars, ClientProofs!breakerVars, ClientProofs!callVars
<1> QED
  BY <1>1, RegistrationAssumption, ClientProofs!NextInv DEF ClientProofs!NextInv

LEMMA ClientInit == Client!Init => ClientProofs!Inv
<1>1. Client!Init => ClientProofs!Init
  BY DEF Client!Init, ClientProofs!Init, Client!BreakerInit, ClientProofs!BreakerInit
<1> QED
  BY <1>1, RegistrationAssumption, ClientProofs!InitInv DEF ClientProofs!InitInv


-----------------------------------------------------------------------------

(* The requests. *)

Working == {"call", "flush", "commit"}

\* r has registered its email itself, and is not over.
Owns(r) ==
  \/ step[r] \in Working
  \/ step[r] = "done" /\ result[r] # "none"

PostTypeOK ==
  /\ up \in BOOLEAN
  /\ status \in [Emails -> {"absent", "pending", "completed"}]
  /\ lock \in [Emails -> Requests \cup {None}]
  /\ step \in [Requests -> {"idle", "store", "call", "flush", "commit", "done"}]
  /\ wants \in [Requests -> Emails \cup {0}]
  /\ answer \in [Requests -> {"none", "Ok", "AlreadyExists", "ServiceUnavailable",
                              "NotFound", "BadRequest", "ServerError"}]

\* What the state of one request says about the database: the task of a request
\* at work is pending, and is locked by it in its second transaction alone.  The
\* result of its call tells an answer of the first transaction from later ones.
PostOK(r) ==
  /\ step[r] # "idle" => wants[r] \in Emails
  /\ step[r] = "idle" => wants[r] = 0
  /\ step[r] = "done" <=> answer[r] # "none"
  /\ step[r] \in Working => status[wants[r]] = "pending"
  /\ step[r] = "done" /\ ~(answer[r] = "ServerError" /\ result[r] = "none") =>
       status[wants[r]] # "absent"
  /\ up /\ step[r] \in {"idle", "store"} => result[r] = "none"
  /\ step[r] \in {"flush", "commit"} => result[r] # "none"
  /\ \A e \in Emails : lock[e] = r <=> step[r] = "commit" /\ wants[r] = e

\* One email is registered by one request, so no other request changes the
\* status on which its answer rests.
OneOwner ==
  \A r, q \in Requests : Owns(r) /\ Owns(q) /\ wants[r] = wants[q] => r = q

PostInv ==
  /\ PostTypeOK
  /\ \A r \in Requests : PostOK(r)
  /\ OneOwner
  /\ AnswerFits

Inv == ClientProofs!Inv /\ PostInv

\* What of the client's invariant the requests rely on.
LEMMA ClientFacts ==
  ASSUME ClientProofs!Inv
  PROVE  /\ result \in [Requests -> ClientProofs!Results \cup {"none"}]
         /\ attempt \in [Requests -> 0 .. MaxAttempts]
         /\ \A r \in Requests : result[r] = "Unavailable" => attempt[r] = MaxAttempts
BY DEF ClientProofs!Inv, ClientProofs!TypeOK, ClientProofs!CallOK

LEMMA InitInv == Init => Inv
<1> SUFFICES ASSUME Init PROVE Inv
  OBVIOUS
<1>1. ClientProofs!Inv
  BY ClientInit DEF Init
<1>2. PostInv
  BY RegistrationAssumption
     DEF Init, Client!Init, PostInv, PostTypeOK, PostOK, OneOwner, Owns, Working,
         AnswerFits, NeverCalled
<1> QED
  BY <1>1, <1>2 DEF Inv

\* The call of a request changes the outcome of its own call only.
LEMMA CallingFrame ==
  ASSUME ClientProofs!Inv, NEW r \in Requests, Calling(r),
         NEW q \in Requests, q # r
  PROVE  result'[q] = result[q] /\ attempt'[q] = attempt[q]
BY ClientFacts DEF Calling, Client!Call, Client!Wake, Client!Attempt, Client!Respond

LEMMA CallingInv ==
  ASSUME Inv, NEW r \in Requests, Calling(r), UNCHANGED up
  PROVE  Inv'
<1>1. ClientProofs!Inv'
  BY CallingIsNext, ClientStep DEF Inv
<1>2. \A q \in Requests \ {r} : result'[q] = result[q] /\ attempt'[q] = attempt[q]
  BY CallingFrame DEF Inv
<1>3. answer[r] = "none"
  BY DEF Inv, PostInv, PostOK, Calling
<1>4. UNCHANGED postVars
  BY DEF Calling
<1>5. AnswerFits'
  BY <1>2, <1>3, <1>4 DEF Inv, PostInv, AnswerFits, NeverCalled, postVars
<1>6. \A q \in Requests : Owns(q)' => Owns(q) /\ wants'[q] = wants[q]
  BY <1>2, <1>4 DEF Calling, Owns, Working, postVars
<1>7. ASSUME NEW q \in Requests
      PROVE  PostOK(q)'
  <2>1. PostOK(q)
    BY DEF Inv, PostInv
  <2>2. CASE q = r
    BY <1>4, <2>1, <2>2 DEF Calling, PostOK, Working, postVars
  <2>3. CASE q # r
    BY <1>2, <1>4, <2>1, <2>3 DEF PostOK, Working, postVars
  <2> QED
    BY <2>2, <2>3
<1>8. PostInv'
  BY <1>4, <1>5, <1>6, <1>7 DEF Inv, PostInv, PostTypeOK, OneOwner, postVars
<1> QED
  BY <1>1, <1>8 DEF Inv

LEMMA AskInv ==
  ASSUME Inv, NEW r \in Requests, Ask(r), UNCHANGED up
  PROVE  Inv'
<1>1. ClientProofs!Inv'
  BY ClientStep DEF Inv, Ask
<1>2. PostInv'
  BY RegistrationAssumption
     DEF Inv, PostInv, PostTypeOK, PostOK, OneOwner, Owns, Working, AnswerFits,
         NeverCalled, Ask, Goto, clientVars
<1> QED
  BY <1>1, <1>2 DEF Inv

\* A request is answered and leaves the status of its task alone: before its call,
\* or after it.
LEMMA AnswerInv ==
  ASSUME Inv, NEW r \in Requests,
         NEW a \in {"Ok", "AlreadyExists", "ServiceUnavailable",
                    "NotFound", "BadRequest", "ServerError"},
         Answer(r, a), UNCHANGED <<clientVars, up, status>>,
         \/ /\ step[r] = "store" /\ result[r] = "none"
            /\ \/ a = "AlreadyExists" /\ status[wants[r]] # "absent"
               \/ a = "ServerError"
         \/ /\ step[r] \in Working /\ result[r] # "none"
            /\ a # "AlreadyExists",
         a = "Ok" => result[r] = "Unavailable",
         a = "ServiceUnavailable" => result[r] = "BreakerOpen"
  PROVE  Inv'
<1>1. ClientProofs!Inv'
  BY ClientStep DEF Inv
<1> USE DEF Inv, PostInv, PostTypeOK
<1>2. /\ step' = [step EXCEPT ![r] = "done"]
      /\ answer' = [answer EXCEPT ![r] = a]
      /\ lock' = [e \in Emails |-> IF lock[e] = r THEN None ELSE lock[e]]
      /\ UNCHANGED <<wants, status, up, result, attempt>>
  BY DEF Answer, Goto, Release, clientVars
<1>3. PostTypeOK'
  BY <1>2
<1>4. ASSUME NEW q \in Requests
      PROVE  PostOK(q)'
  <2>1. PostOK(q)
    OBVIOUS
  <2>2. \A e \in Emails : lock'[e] = q <=> lock[e] = q /\ q # r
    BY <1>2, RegistrationAssumption
  <2>3. CASE q = r
    BY <1>2, <2>1, <2>2, <2>3 DEF PostOK, Working
  <2>4. CASE q # r
    BY <1>2, <2>1, <2>2, <2>4 DEF PostOK, Working
  <2> QED
    BY <2>3, <2>4
<1>5. OneOwner'
  <2>1. ASSUME NEW q \in Requests, Owns(q)'
        PROVE  Owns(q)
    BY <1>2, <2>1 DEF Owns, Working
  <2> QED
    BY <1>2, <2>1 DEF OneOwner
<1>6. AnswerFits'
  <2>1. result[r] = "Unavailable" => attempt[r] = MaxAttempts
    BY ClientFacts
  <2>2. step[r] \in Working => status[wants[r]] = "pending"
    BY DEF PostOK
  <2> QED
    BY <1>2, <2>1, <2>2 DEF AnswerFits, NeverCalled, Working
<1> QED
  BY <1>1, <1>3, <1>4, <1>5, <1>6

LEMMA StoreInv ==
  ASSUME Inv, NEW r \in Requests, Store(r), up, UNCHANGED up
  PROVE  Inv'
<1> USE DEF Inv, PostInv, PostTypeOK
<1>1. CASE status[wants[r]] # "absent"
  <2>1. step[r] = "store" /\ result[r] = "none"
    BY DEF Store, PostOK
  <2> QED
    BY <1>1, <2>1, AnswerInv DEF Store
<1>2. CASE status[wants[r]] = "absent"
  <2>1. ClientProofs!Inv'
    BY ClientStep DEF Store
  <2>2. /\ step[r] = "store"
        /\ step' = [step EXCEPT ![r] = "call"]
        /\ status' = [status EXCEPT ![wants[r]] = "pending"]
        /\ UNCHANGED <<lock, wants, answer, up, result, attempt>>
    BY <1>2 DEF Store, Goto, clientVars
  <2>3. wants[r] \in Emails
    BY <2>2 DEF PostOK
  <2>4. PostTypeOK'
    BY <2>2
  <2>5. \A q \in Requests :
          wants[q] = wants[r] =>
            /\ ~Owns(q)
            /\ answer[q] # "none" => answer[q] = "ServerError" /\ result[q] = "none"
    BY <1>2 DEF Owns, PostOK, Working
  <2>6. ASSUME NEW q \in Requests
        PROVE  PostOK(q)'
    <3>1. PostOK(q)
      OBVIOUS
    <3>2. CASE wants[q] = wants[r]
      BY <2>2, <2>3, <2>5, <3>1, <3>2 DEF PostOK, Owns, Working
    <3>3. CASE wants[q] # wants[r]
      BY <2>2, <2>3, <3>1, <3>3 DEF PostOK, Working
    <3> QED
      BY <3>2, <3>3
  <2>7. OneOwner'
    BY <2>2, <2>5 DEF OneOwner, Owns, Working
  <2>8. AnswerFits'
    BY <2>2, <2>3, <2>5 DEF AnswerFits, NeverCalled, PostOK
  <2> QED
    BY <2>1, <2>4, <2>6, <2>7, <2>8
<1> QED
  BY <1>1, <1>2

LEMMA StoreFailsInv ==
  ASSUME Inv, NEW r \in Requests, StoreFails(r), up, UNCHANGED up
  PROVE  Inv'
<1>1. step[r] = "store" /\ result[r] = "none"
  BY DEF Inv, PostInv, PostOK, StoreFails
<1> QED
  BY <1>1, AnswerInv DEF StoreFails

LEMMA ApplyReportsInv ==
  ASSUME Inv, NEW r \in Requests, ApplyReports(r), UNCHANGED up
  PROVE  Inv'
<1> USE DEF Inv, PostInv, PostTypeOK
<1>1. step[r] = "call" /\ result[r] # "none" /\ UNCHANGED clientVars
  BY DEF ApplyReports, AnswerTo
<1>2. ASSUME result[r] \in DOMAIN AnswerTo, Fail(r, AnswerTo[result[r]])
      PROVE  Inv'
  <2>1. /\ AnswerTo[result[r]] \in {"ServiceUnavailable", "NotFound", "BadRequest",
                                    "ServerError"}
        /\ AnswerTo[result[r]] = "ServiceUnavailable" => result[r] = "BreakerOpen"
    BY <1>2 DEF AnswerTo
  <2> QED
    BY <1>1, <1>2, <2>1, AnswerInv DEF Fail, Working
<1>3. ASSUME Fail(r, "ServerError")
      PROVE  Inv'
  BY <1>1, <1>3, AnswerInv DEF Fail, Working
<1>4. ASSUME Goto(r, "flush"), UNCHANGED <<status, lock, wants, answer>>
      PROVE  Inv'
  <2>1. ClientProofs!Inv'
    BY <1>1, ClientStep
  <2>2. PostInv'
    BY <1>1, <1>4, RegistrationAssumption
       DEF PostOK, OneOwner, Owns, Working, AnswerFits, NeverCalled, Goto, clientVars
  <2> QED
    BY <2>1, <2>2
<1>5. ASSUME result[r] = "Unavailable", Answer(r, "Ok"), UNCHANGED status
      PROVE  Inv'
  BY <1>1, <1>5, AnswerInv DEF Working
<1> QED
  BY <1>2, <1>3, <1>4, <1>5 DEF ApplyReports

LEMMA FlushInv ==
  ASSUME Inv, NEW r \in Requests, Flush(r), UNCHANGED up
  PROVE  Inv'
<1> USE DEF Inv, PostInv, PostTypeOK
<1>1. ClientProofs!Inv'
  BY ClientStep DEF Flush
<1>2. /\ step[r] = "flush"
      /\ lock[wants[r]] = None
      /\ lock' = [lock EXCEPT ![wants[r]] = r]
      /\ step' = [step EXCEPT ![r] = "commit"]
      /\ UNCHANGED <<status, wants, answer, up, result, attempt>>
  BY DEF Flush, Goto, clientVars
<1>3. wants[r] \in Emails
  BY <1>2 DEF PostOK
<1>4. PostTypeOK'
  BY <1>2
<1>5. ASSUME NEW q \in Requests
      PROVE  PostOK(q)'
  <2>1. PostOK(q)
    OBVIOUS
  <2> QED
    BY <1>2, <1>3, <2>1, RegistrationAssumption DEF PostOK, Working
<1>6. OneOwner' /\ AnswerFits'
  BY <1>2 DEF OneOwner, Owns, Working, AnswerFits, NeverCalled
<1> QED
  BY <1>1, <1>4, <1>5, <1>6

LEMMA FlushFailsInv ==
  ASSUME Inv, NEW r \in Requests, FlushFails(r), UNCHANGED up
  PROVE  Inv'
<1>1. step[r] \in Working /\ result[r] # "none"
  BY DEF Inv, PostInv, PostOK, FlushFails, Working
<1> QED
  BY <1>1, AnswerInv DEF FlushFails, Fail, Working

LEMMA CommitInv ==
  ASSUME Inv, NEW r \in Requests, Commit(r), UNCHANGED up
  PROVE  Inv'
<1> USE DEF Inv, PostInv, PostTypeOK
<1>1. ClientProofs!Inv'
  BY ClientStep DEF Commit
<1>2. /\ step[r] = "commit"
      /\ step' = [step EXCEPT ![r] = "done"]
      /\ answer' = [answer EXCEPT ![r] = "Ok"]
      /\ lock' = [e \in Emails |-> IF lock[e] = r THEN None ELSE lock[e]]
      /\ status' = [status EXCEPT ![wants[r]] = "completed"]
      /\ UNCHANGED <<wants, up, result, attempt>>
  BY DEF Commit, Answer, Goto, Release, clientVars
<1>3. wants[r] \in Emails
  BY <1>2 DEF PostOK
<1>4. PostTypeOK'
  BY <1>2
<1>5. \A q \in Requests : q # r /\ wants[q] = wants[r] => ~Owns(q)
  <2>1. Owns(r)
    BY <1>2 DEF Owns, Working
  <2> QED
    BY <2>1 DEF OneOwner
<1>6. ASSUME NEW q \in Requests
      PROVE  PostOK(q)'
  <2>1. PostOK(q)
    OBVIOUS
  <2>2. CASE q = r
    BY <1>2, <1>3, <2>1, <2>2, RegistrationAssumption DEF PostOK, Working
  <2>3. CASE q # r
    BY <1>2, <1>3, <1>5, <2>1, <2>3, RegistrationAssumption DEF PostOK, Owns, Working
  <2> QED
    BY <2>2, <2>3
<1>7. OneOwner'
  <2>1. ASSUME NEW q \in Requests, Owns(q)'
        PROVE  Owns(q)
    BY <1>2, <2>1 DEF Owns, Working
  <2> QED
    BY <1>2, <2>1 DEF OneOwner
<1>8. AnswerFits'
  <2>1. \A q \in Requests \ {r} :
          wants[q] = wants[r] /\ answer[q] # "none" => result[q] = "none"
    BY <1>5 DEF Owns, PostOK
  <2> QED
    BY <1>2, <1>3, <2>1 DEF AnswerFits, NeverCalled
<1> QED
  BY <1>1, <1>4, <1>6, <1>7, <1>8

\* A request is over, answered or lost with its process.
LEMMA LeaveInv ==
  ASSUME Inv, NEW r \in Requests, Leave(r),
         ClientProofs!Inv', UNCHANGED up, up => result'[r] = "none",
         \A q \in Requests \ {r} : result'[q] = result[q] /\ attempt'[q] = attempt[q]
  PROVE  Inv'
<1> USE DEF Inv, PostInv, PostTypeOK
<1>1. /\ step' = [step EXCEPT ![r] = "idle"]
      /\ wants' = [wants EXCEPT ![r] = 0]
      /\ answer' = [answer EXCEPT ![r] = "none"]
      /\ lock' = [e \in Emails |-> IF lock[e] = r THEN None ELSE lock[e]]
      /\ UNCHANGED <<status, up>>
  BY DEF Leave, Goto, Release
<1>2. PostTypeOK'
  BY <1>1
<1>3. ASSUME NEW q \in Requests
      PROVE  PostOK(q)'
  <2>1. PostOK(q)
    OBVIOUS
  <2>2. \A e \in Emails : lock'[e] = q <=> lock[e] = q /\ q # r
    BY <1>1, RegistrationAssumption
  <2>3. CASE q = r
    BY <1>1, <2>1, <2>2, <2>3, RegistrationAssumption DEF PostOK, Working
  <2>4. CASE q # r
    BY <1>1, <2>1, <2>2, <2>4 DEF PostOK, Working
  <2> QED
    BY <2>3, <2>4
<1>4. OneOwner'
  <2>1. ASSUME NEW q \in Requests, Owns(q)'
        PROVE  Owns(q) /\ wants'[q] = wants[q]
    BY <1>1, <2>1 DEF Owns, Working
  <2> QED
    BY <1>1, <2>1 DEF OneOwner
<1>5. AnswerFits'
  BY <1>1 DEF AnswerFits, NeverCalled
<1> QED
  BY <1>2, <1>3, <1>4, <1>5

LEMMA DoneInv ==
  ASSUME Inv, NEW r \in Requests, Done(r), UNCHANGED up
  PROVE  Inv'
<1>1. CASE call[r] = "done"
  <2>1. Client!Return(r)
    BY <1>1 DEF Done
  <2>2. ClientProofs!Inv'
    BY <2>1, ReturnIsNext, ClientStep DEF Inv
  <2>3. /\ result'[r] = "none"
        /\ \A q \in Requests \ {r} : result'[q] = result[q] /\ attempt'[q] = attempt[q]
    BY <2>1, ClientFacts DEF Client!Return, Inv
  <2> QED
    BY <2>2, <2>3, LeaveInv DEF Done
<1>2. CASE call[r] # "done"
  <2>1. result[r] = "none"
    BY <1>2 DEF Inv, ClientProofs!Inv, ClientProofs!CallOK
  <2> QED
    BY <1>2, <2>1, ClientStep, LeaveInv DEF Done, clientVars, Inv
<1> QED
  BY <1>1, <1>2

LEMMA LoseInv ==
  ASSUME Inv, NEW r \in Requests, Lose(r)
  PROVE  Inv'
BY ClientStep, LeaveInv DEF Lose, clientVars, Inv

\* The new process starts with no request, and with a client in its first state.
LEMMA RestartInv ==
  ASSUME Inv, Restart
  PROVE  Inv'
<1>1. ClientProofs!Inv'
  BY RegistrationAssumption
     DEF Restart, ClientProofs!Inv, ClientProofs!TypeOK, ClientProofs!BreakerTypeOK,
         ClientProofs!BreakerOK, ClientProofs!CallOK
<1>2. \A r \in Requests : answer[r] = "none"
  BY DEF Restart, Inv, PostInv, PostOK
<1>3. PostInv'
  BY <1>2, RegistrationAssumption
     DEF Restart, postVars, Inv, PostInv, PostTypeOK, PostOK, OneOwner, Owns,
         Working, AnswerFits, NeverCalled
<1> QED
  BY <1>1, <1>3 DEF Inv

\* Nothing of a request changes: time passes, the process is lost, nothing.
LEMMA OthersInv ==
  ASSUME Inv, UNCHANGED postVars, up' \in BOOLEAN, up' => up,
         Client!Tick \/ UNCHANGED clientVars
  PROVE  Inv'
<1>1. ClientProofs!Inv'
  BY TickIsNext, ClientStep DEF Inv
<1>2. UNCHANGED <<result, attempt>>
  BY DEF Client!Tick, Client!callVars, clientVars
<1>3. PostInv'
  BY <1>2
     DEF postVars, Inv, PostInv, PostTypeOK, PostOK, OneOwner, Owns, Working,
         AnswerFits, NeverCalled
<1> QED
  BY <1>1, <1>3 DEF Inv

LEMMA NextInv == Inv /\ [Next]_vars => Inv'
<1> SUFFICES ASSUME Inv, [Next]_vars
             PROVE  Inv'
  OBVIOUS
<1>1. CASE Serving
  <2>1. up /\ UNCHANGED up
    BY <1>1 DEF Serving
  <2>2. ASSUME NEW r \in Requests,
               Ask(r) \/ Progress(r) \/ StoreFails(r) \/ FlushFails(r) \/ Done(r)
        PROVE  Inv'
    BY <2>1, <2>2, AskInv, StoreInv, StoreFailsInv, CallingInv, ApplyReportsInv,
       FlushInv, CommitInv, FlushFailsInv, DoneInv DEF Progress
  <2>3. CASE Client!Tick /\ UNCHANGED postVars
    BY <2>1, <2>3, OthersInv DEF Inv, PostInv, PostTypeOK
  <2> QED
    BY <1>1, <2>2, <2>3 DEF Serving
<1>2. CASE Crash
  BY <1>2, OthersInv DEF Crash
<1>3. ASSUME NEW r \in Requests, Lose(r)
      PROVE  Inv'
  BY <1>3, LoseInv
<1>4. CASE Restart
  BY <1>4, RestartInv
<1>5. CASE UNCHANGED vars
  BY <1>5, OthersInv DEF vars, Inv, PostInv, PostTypeOK
<1> QED
  BY <1>1, <1>2, <1>3, <1>4, <1>5 DEF Next

LEMMA Invariance == Spec => []Inv
BY InitInv, NextInv, PTL DEF Spec

\* The variables of the requests and of their client keep their types.
THEOREM TypeCorrect == Spec => []TypeOK
<1>1. ClientProofs!TypeOK => Client!TypeOK
  BY DEF ClientProofs!TypeOK, Client!TypeOK, ClientProofs!BreakerTypeOK,
         Client!BreakerTypeOK, ClientProofs!Results, Client!Results
<1>2. Inv => TypeOK
  BY <1>1 DEF Inv, PostInv, PostTypeOK, TypeOK, ClientProofs!Inv
<1> QED
  BY <1>2, Invariance, PTL

\* Whatever a POST is answered, its email is taken: an answer that asks the
\* client to try again later cannot be followed by anything but a conflict.  Only
\* a server error from before the call of the report service is no such answer.
THEOREM AnswersTakeEmail == Spec => []AnsweredMeansTaken
<1>1. Inv => AnsweredMeansTaken
  BY DEF Inv, PostInv, PostOK, AnsweredMeansTaken, NeverCalled
<1> QED
  BY <1>1, Invariance, PTL

\* Success without reports is answered only after all attempts of the call,
\* service unavailable only when the breaker refused it, and once the call has
\* ended no other answer is given about a task whose report was saved.
THEOREM AnswersFit == Spec => []AnswerFits
<1>1. Inv => AnswerFits
  BY DEF Inv, PostInv
<1> QED
  BY <1>1, Invariance, PTL

-----------------------------------------------------------------------------

(* Registration implements the POSTs of ReportSync. *)

LEMMA SyncInit == Init => Sync!Init
<1> SUFFICES ASSUME Init PROVE Sync!Init
  OBVIOUS
<1>1. Sync!Processes = Requests
  BY DEF Sync!Processes
<1>2. ASSUME NEW F(_)
      PROVE  <<>> = [w \in {} |-> F(w)]
  OBVIOUS
<1>3. SyncPc = [r \in Requests |-> "idle"] /\ SyncRows = [r \in Requests |-> {}]
  BY DEF Init, SyncPc, SyncRows
<1> QED
  BY <1>1, <1>2, <1>3 DEF Init, Sync!Init

\* How a step of request r alone shows in the two variables of the mapping.
LEMMA SyncFrame ==
  ASSUME Inv, NEW r \in Requests,
         \A q \in Requests \ {r} : step'[q] = step[q] /\ wants'[q] = wants[q]
  PROVE  /\ SyncPc' = [SyncPc EXCEPT ![r] = SyncPc'[r]]
         /\ SyncRows' = [SyncRows EXCEPT ![r] = SyncRows'[r]]
BY DEF SyncPc, SyncRows

\* A step that ReportSync does not see.
LEMMA SyncStutter ==
  ASSUME UNCHANGED <<status, lock>>,
         \A r \in Requests :
           /\ SyncPc'[r] = SyncPc[r]
           /\ SyncPc[r] # "idle" => wants'[r] = wants[r]
  PROVE  UNCHANGED Sync!vars
<1>1. SyncPc' = SyncPc
  BY DEF SyncPc
<1>2. SyncRows' = SyncRows
  BY <1>1 DEF SyncRows
<1> QED
  BY <1>1, <1>2 DEF Sync!vars, Sync!dbVars, Sync!runVars

LEMMA StoreSync ==
  ASSUME Inv, NEW r \in Requests, Store(r)
  PROVE  Sync!CreateTasks(r) \/ UNCHANGED Sync!vars
<1> USE DEF Inv, PostInv, PostTypeOK
<1>1. CASE status[wants[r]] # "absent"
  <2>1. UNCHANGED lock
    BY <1>1 DEF Store, Answer, Release, PostOK
  <2> QED
    BY <1>1, <2>1, SyncStutter DEF Store, Answer, Goto, SyncPc
<1>2. CASE status[wants[r]] = "absent"
  <2>1. /\ step[r] = "store"
        /\ step' = [step EXCEPT ![r] = "call"]
        /\ status' = [status EXCEPT ![wants[r]] = "pending"]
        /\ UNCHANGED <<lock, wants>>
    BY <1>2 DEF Store, Goto
  <2>2. wants[r] \in Emails
    BY <2>1 DEF PostOK
  <2>3. /\ SyncPc[r] = "idle" /\ SyncPc'[r] = "call"
        /\ SyncRows'[r] = {wants[r]}
    BY <2>1 DEF SyncPc, SyncRows
  <2>4. /\ SyncPc' = [SyncPc EXCEPT ![r] = "call"]
        /\ SyncRows' = [SyncRows EXCEPT ![r] = {wants[r]}]
    BY <2>1, <2>3, SyncFrame
  <2>5. {wants[r]} \in SUBSET Sync!Absent
    BY <1>2, <2>2 DEF Sync!Absent
  <2>6. Sync!Insert({wants[r]})
    BY <2>1 DEF Sync!Insert
  <2> QED
    BY <2>3, <2>4, <2>5, <2>6 DEF Sync!CreateTasks, Sync!runVars
<1> QED
  BY <1>1, <1>2

\* The first transaction is rolled back: ReportSync sees nothing of it.
LEMMA StoreFailsSync ==
  ASSUME Inv, NEW r \in Requests, StoreFails(r)
  PROVE  UNCHANGED Sync!vars
<1> USE DEF Inv, PostInv, PostTypeOK
<1>1. UNCHANGED lock
  BY DEF StoreFails, Answer, Release, PostOK
<1> QED
  BY <1>1, SyncStutter DEF StoreFails, Answer, Goto, SyncPc

\* The end of a request, whatever its answer, with its reports or without.
LEMMA EndSync ==
  ASSUME Inv, NEW r \in Requests, step[r] \in Working,
         step'[r] \in {"idle", "done"},
         \A q \in Requests \ {r} : step'[q] = step[q] /\ wants'[q] = wants[q],
         Release(r)
  PROVE  Sync!RequestDone(r)
<1>1. SyncPc'[r] = "idle" /\ SyncRows'[r] = {}
  BY DEF SyncPc, SyncRows
<1>2. /\ SyncPc' = [SyncPc EXCEPT ![r] = "idle"]
      /\ SyncRows' = [SyncRows EXCEPT ![r] = {}]
  BY <1>1, SyncFrame
<1> QED
  BY <1>2 DEF Sync!RequestDone, Sync!Release, Release, Sync!runVars

LEMMA FailSync ==
  ASSUME Inv, NEW r \in Requests, step[r] \in Working,
         step'[r] \in {"idle", "done"},
         \A q \in Requests \ {r} : step'[q] = step[q] /\ wants'[q] = wants[q],
         Release(r), UNCHANGED status
  PROVE  Sync!RequestFails(r)
<1>1. SyncPc[r] \in {"call", "flush"}
  BY DEF SyncPc, Working
<1> QED
  BY <1>1, EndSync DEF Sync!RequestFails

LEMMA ApplyReportsSync ==
  ASSUME Inv, NEW r \in Requests, ApplyReports(r)
  PROVE  Sync!ReportsForRequest(r) \/ Sync!RequestFails(r)
<1> USE DEF Inv, PostInv, PostTypeOK
<1>1. ASSUME NEW a, Answer(r, a), UNCHANGED status
      PROVE  Sync!RequestFails(r)
  BY <1>1, FailSync DEF ApplyReports, Answer, Goto, Working
<1>2. ASSUME Goto(r, "flush"), UNCHANGED <<status, lock, wants, answer>>
      PROVE  Sync!ReportsForRequest(r)
  <2>1. SyncPc[r] = "call" /\ SyncPc'[r] = "flush" /\ SyncRows'[r] = SyncRows[r]
    BY <1>2 DEF ApplyReports, Goto, SyncPc, SyncRows
  <2>2. SyncPc' = [SyncPc EXCEPT ![r] = "flush"] /\ SyncRows' = SyncRows
    BY <1>2, <2>1, SyncFrame DEF Goto, SyncRows
  <2> QED
    BY <1>2, <2>1, <2>2 DEF Sync!ReportsForRequest, Sync!dbVars, Sync!runVars
<1> QED
  BY <1>1, <1>2 DEF ApplyReports, Fail

LEMMA FlushSync ==
  ASSUME Inv, NEW r \in Requests, Flush(r)
  PROVE  wants[r] \in Emails /\ Sync!LockRow(r, wants[r])
<1> USE DEF Inv, PostInv, PostTypeOK
<1>1. /\ step[r] = "flush"
      /\ step' = [step EXCEPT ![r] = "commit"]
      /\ lock[wants[r]] = None
      /\ lock' = [lock EXCEPT ![wants[r]] = r]
      /\ UNCHANGED <<status, wants>>
  BY DEF Flush, Goto
<1>2. wants[r] \in Emails
  BY <1>1 DEF PostOK
<1>3. SyncPc[r] = "flush" /\ SyncRows[r] = {wants[r]}
  BY <1>1 DEF SyncPc, SyncRows
<1>4. SyncPc' = SyncPc
  BY <1>1 DEF SyncPc
<1>5. SyncRows' = SyncRows
  BY <1>1, <1>4 DEF SyncRows
<1>6. Sync!RowTurn(r, wants[r])
  <2>1. wants[r] \in Nat
    BY <1>2, RegistrationAssumption
  <2>2. ~(wants[r] < wants[r])
    BY <2>1
  <2> QED
    BY <1>3, <2>2 DEF Sync!RowTurn
<1> QED
  BY <1>1, <1>2, <1>3, <1>4, <1>5, <1>6 DEF Sync!LockRow, Sync!runVars

LEMMA CommitSync ==
  ASSUME Inv, NEW r \in Requests, Commit(r)
  PROVE  Sync!CommitReports(r)
<1> USE DEF Inv, PostInv, PostTypeOK
<1>1. step[r] = "commit" /\ wants[r] \in Emails /\ lock[wants[r]] = r
  BY DEF Commit, PostOK
<1>2. SyncPc[r] = "flush" /\ SyncRows[r] = {wants[r]}
  BY <1>1 DEF SyncPc, SyncRows
<1>3. Sync!Flushed(r)
  BY <1>1, <1>2 DEF Sync!Flushed
<1>4. status' = [e \in Emails |-> IF e \in SyncRows[r] THEN "completed" ELSE status[e]]
  BY <1>1, <1>2 DEF Commit
<1>5. Sync!RequestDone(r)
  BY <1>1, EndSync DEF Commit, Answer, Goto, Working
<1> QED
  BY <1>3, <1>4, <1>5 DEF Sync!CommitReports

\* Leaving an answered request shows nowhere, losing one at work is its failure.
LEMMA LeaveSync ==
  ASSUME Inv, NEW r \in Requests, Leave(r)
  PROVE  Sync!RequestFails(r) \/ UNCHANGED Sync!vars
<1> USE DEF Inv, PostInv, PostTypeOK
<1>1. CASE step[r] \in Working
  BY <1>1, FailSync DEF Leave, Goto
<1>2. CASE step[r] \notin Working
  <2>1. UNCHANGED lock
    BY <1>2 DEF Leave, Release, PostOK, Working
  <2> QED
    BY <1>2, <2>1, SyncStutter DEF Leave, Goto, SyncPc, Working
<1> QED
  BY <1>1, <1>2

LEMMA SyncNext == Inv /\ [Next]_vars => [Sync!Next]_(Sync!vars)
<1> SUFFICES ASSUME Inv, [Next]_vars
             PROVE  Sync!Next \/ UNCHANGED Sync!vars
  OBVIOUS
<1>1. ASSUME NEW r \in Requests, Sync!RequestNext(r)
      PROVE  Sync!Next
  BY <1>1 DEF Sync!Next
<1>2. ASSUME UNCHANGED postVars
      PROVE  UNCHANGED Sync!vars
  BY <1>2, SyncStutter DEF postVars, SyncPc
<1>3. CASE Serving
  <2>1. ASSUME NEW r \in Requests, Ask(r)
        PROVE  UNCHANGED Sync!vars
    BY <2>1, SyncStutter DEF Ask, Goto, SyncPc, Inv, PostInv, PostTypeOK
  <2>2. ASSUME NEW r \in Requests, Store(r)
        PROVE  Sync!Next \/ UNCHANGED Sync!vars
    BY <1>1, <2>2, StoreSync DEF Sync!RequestNext
  <2>3. ASSUME NEW r \in Requests, Calling(r)
        PROVE  UNCHANGED Sync!vars
    BY <1>2, <2>3 DEF Calling
  <2>4. ASSUME NEW r \in Requests, ApplyReports(r)
        PROVE  Sync!Next
    BY <1>1, <2>4, ApplyReportsSync DEF Sync!RequestNext
  <2>5. ASSUME NEW r \in Requests, Flush(r)
        PROVE  Sync!Next
    BY <2>5, FlushSync DEF Sync!Next, Sync!Processes
  <2>6. ASSUME NEW r \in Requests, Commit(r)
        PROVE  Sync!Next
    BY <1>1, <2>6, CommitSync DEF Sync!RequestNext
  <2>7. ASSUME NEW r \in Requests, FlushFails(r)
        PROVE  Sync!Next
    <3>1. Sync!RequestFails(r)
      BY <2>7, FailSync
         DEF FlushFails, Fail, Answer, Goto, Working, Inv, PostInv, PostTypeOK
    <3> QED
      BY <1>1, <3>1 DEF Sync!RequestNext
  <2>8. ASSUME NEW r \in Requests, Done(r)
        PROVE  Sync!Next \/ UNCHANGED Sync!vars
    BY <1>1, <2>8, LeaveSync DEF Done, Sync!RequestNext
  <2>9. ASSUME NEW r \in Requests, StoreFails(r)
        PROVE  UNCHANGED Sync!vars
    BY <2>9, StoreFailsSync
  <2> QED
    BY <1>2, <1>3, <2>1, <2>2, <2>3, <2>4, <2>5, <2>6, <2>7, <2>8, <2>9
       DEF Serving, Progress
<1>4. CASE Crash
  BY <1>2, <1>4 DEF Crash, postVars
<1>5. ASSUME NEW r \in Requests, Lose(r)
      PROVE  Sync!Next \/ UNCHANGED Sync!vars
  BY <1>1, <1>5, LeaveSync DEF Lose, Sync!RequestNext
<1>6. CASE Restart
  BY <1>2, <1>6 DEF Restart
<1>7. CASE UNCHANGED vars
  BY <1>2, <1>7 DEF vars, postVars
<1> QED
  BY <1>3, <1>4, <1>5, <1>6, <1>7 DEF Next

\* With the client, its breaker and crashes of the process in them, POSTs do to
\* the database what POSTs do in ReportSync, and nothing else: what is shown
\* there about sync runs besides POSTs holds of these.
THEOREM ImplementsPosts == Spec => ImplementsSyncPosts
BY SyncInit, Invariance, SyncNext, PTL DEF Spec, ImplementsSyncPosts, Sync!Spec

=============================================================================
