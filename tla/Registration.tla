---------------------------- MODULE Registration ----------------------------
(***************************************************************************)
(* POST /user_tasks from end to end in one API process: two transactions   *)
(* with a call of ReportClient between them, what each way in which the    *)
(* call may end is answered with, and what it leaves in the database       *)
(* (UserTaskService.create_user_with_tasks).                               *)
(*                                                                         *)
(* The requests of the process share its client and so its breaker.  One   *)
(* task stands for the tasks of a request, and the number of its email for *)
(* its id.  A client that was given an error may send its request again.   *)
(* The module composes ReportClient, step by step, and implements the      *)
(* POSTs of ReportSync, which leave the client out.                        *)
(***************************************************************************)
EXTENDS Integers

CONSTANTS
  Requests,          \* concurrent POST requests of one process
  Emails,            \* what they want to register: positive integers
  None,              \* a free lock
  FailureThreshold, RecoveryTimeout, MaxAttempts   \* see ReportClient

ASSUME RegistrationAssumption ==
  /\ Emails \subseteq Nat \ {0}
  /\ None \notin Requests
  /\ FailureThreshold \in Nat \ {0}
  /\ RecoveryTimeout \in Nat \ {0}
  /\ MaxAttempts \in Nat \ {0}

VARIABLES
  breakerState, failureCount, openRemaining,   \* see CircuitBreaker
  call,          \* pc of ReportClient
  attempt,
  result,
  streak,
  up,            \* the process runs
  status,        \* report_status of the task, "absent" while the email is free
  lock,          \* row lock of the task
  step,          \* "idle", "store", "call", "flush", "commit" or "done"
  wants,         \* the email of each request's user, 0 while there is no request
  answer         \* "none" until the request is answered

clientVars == <<breakerState, failureCount, openRemaining, call, attempt, result, streak>>
postVars   == <<status, lock, step, wants, answer>>
vars       == <<clientVars, up, postVars>>

Client == INSTANCE ReportClient WITH Callers <- Requests, pc <- call

Init ==
  /\ Client!Init
  /\ up = TRUE
  /\ status = [e \in Emails |-> "absent"]
  /\ lock = [e \in Emails |-> None]
  /\ step = [r \in Requests |-> "idle"]
  /\ wants = [r \in Requests |-> 0]
  /\ answer = [r \in Requests |-> "none"]

-----------------------------------------------------------------------------

Goto(r, s) == step' = [step EXCEPT ![r] = s]

Release(r) == lock' = [e \in Emails |-> IF lock[e] = r THEN None ELSE lock[e]]

Answer(r, a) ==
  /\ Goto(r, "done")
  /\ answer' = [answer EXCEPT ![r] = a]
  /\ Release(r)
  /\ UNCHANGED wants

\* A request, for the first time or again.
Ask(r) ==
  /\ step[r] = "idle"
  /\ \E e \in Emails : wants' = [wants EXCEPT ![r] = e]
  /\ Goto(r, "store")
  /\ UNCHANGED <<clientVars, status, lock, answer>>

\* Mutant of Store: ON CONFLICT DO UPDATE.
StoreAnyway(r) ==
  /\ step[r] = "store"
  /\ status' = [status EXCEPT ![wants[r]] = "pending"]
  /\ Goto(r, "call")
  /\ UNCHANGED <<clientVars, lock, wants, answer>>

\* _create_user_and_base_tasks, the flush and the commit: one step, as the email
\* is checked by the INSERT itself.
Store(r) ==
  /\ step[r] = "store"
  /\ \/ /\ status[wants[r]] # "absent"
        /\ Answer(r, "AlreadyExists")
        /\ UNCHANGED status
     \/ /\ status[wants[r]] = "absent"
        /\ status' = [status EXCEPT ![wants[r]] = "pending"]
        /\ Goto(r, "call")
        /\ UNCHANGED <<lock, wants, answer>>
  /\ UNCHANGED clientVars

\* A statement, the flush or the commit of the first transaction fails: a title of
\* more than 100 characters, a second empty title, the database is away.  All of
\* it is rolled back and the report service is not called.
StoreFails(r) ==
  /\ step[r] = "store"
  /\ Answer(r, "ServerError")
  /\ UNCHANGED <<clientVars, status>>

\* The call of the report service, in the steps of the client.
Calling(r) ==
  /\ step[r] = "call"
  /\ \/ Client!Call(r)
     \/ Client!Wake(r)
     \/ \E reply \in Client!Reply : Client!Respond(r, reply)
  /\ UNCHANGED postVars

\* Mutant of Fail: one transaction, rolled back with the request.
FailRollingBack(r, a) ==
  /\ Answer(r, a)
  /\ status' = [status EXCEPT ![wants[r]] = "absent"]

\* An exception leaves the service after the user has been committed.
Fail(r, a) == Answer(r, a) /\ UNCHANGED status

\* How exceptions of the call are answered; ExternalServiceUnavailableException
\* is not among them.
AnswerTo ==
  [BreakerOpen |-> "ServiceUnavailable", NotFound |-> "NotFound",
   Client |-> "BadRequest", Unexpected |-> "ServerError"]

\* _fetch_and_apply_reports, once the call has ended.
ApplyReports(r) ==
  /\ step[r] = "call"
  /\ \/ /\ result[r] \in DOMAIN AnswerTo
        /\ Fail(r, AnswerTo[result[r]])
     \/ \* report is None: add_report_to_task raises AttributeError.
        /\ result[r] = "reports"
        /\ Fail(r, "ServerError")
     \/ /\ result[r] = "reports"
        /\ Goto(r, "flush")
        /\ UNCHANGED <<status, lock, wants, answer>>
     \/ \* Logged and passed over: there is nothing to flush.
        /\ result[r] = "Unavailable"
        /\ Answer(r, "Ok")
        /\ UNCHANGED status
  /\ UNCHANGED clientVars

\* The second transaction updates the task, and fails or commits.
Flush(r) ==
  /\ step[r] = "flush"
  /\ lock[wants[r]] = None
  /\ lock' = [lock EXCEPT ![wants[r]] = r]
  /\ Goto(r, "commit")
  /\ UNCHANGED <<clientVars, status, wants, answer>>

FlushFails(r) ==
  /\ step[r] \in {"flush", "commit"}
  /\ Fail(r, "ServerError")
  /\ UNCHANGED clientVars

\* Mutant of Commit: the session is closed without it.
CommitNothing(r) ==
  /\ step[r] = "commit"
  /\ Answer(r, "Ok")
  /\ UNCHANGED <<clientVars, status>>

Commit(r) ==
  /\ step[r] = "commit"
  /\ status' = [status EXCEPT ![wants[r]] = "completed"]
  /\ Answer(r, "Ok")
  /\ UNCHANGED clientVars

Leave(r) ==
  /\ Goto(r, "idle")
  /\ wants' = [wants EXCEPT ![r] = 0]
  /\ answer' = [answer EXCEPT ![r] = "none"]
  /\ Release(r)
  /\ UNCHANGED status

\* The answer is sent.
Done(r) ==
  /\ step[r] = "done"
  /\ IF call[r] = "done" THEN Client!Return(r) ELSE UNCHANGED clientVars
  /\ Leave(r)

\* The process is lost.  The database ends its transactions one by one, and the
\* next process starts with a new breaker.
Crash ==
  /\ up
  /\ up' = FALSE
  /\ UNCHANGED <<clientVars, postVars>>

Lose(r) ==
  /\ ~up
  /\ step[r] # "idle"
  /\ Leave(r)
  /\ UNCHANGED <<clientVars, up>>

Restart ==
  /\ ~up
  /\ \A r \in Requests : step[r] = "idle"
  /\ up' = TRUE
  /\ breakerState' = "closed"
  /\ failureCount' = 0
  /\ openRemaining' = 0
  /\ call' = [r \in Requests |-> "idle"]
  /\ attempt' = [r \in Requests |-> 0]
  /\ result' = [r \in Requests |-> "none"]
  /\ streak' = 0
  /\ UNCHANGED postVars

Progress(r) ==
  \/ Store(r)
  \/ Calling(r)
  \/ ApplyReports(r)
  \/ Flush(r)
  \/ Commit(r)

Serving ==
  /\ up
  /\ UNCHANGED up
  /\ \/ \E r \in Requests :
          Ask(r) \/ Progress(r) \/ StoreFails(r) \/ FlushFails(r) \/ Done(r)
     \/ Client!Tick /\ UNCHANGED postVars

Next ==
  \/ Serving
  \/ Crash
  \/ \E r \in Requests : Lose(r)
  \/ Restart

Spec == Init /\ [][Next]_vars

\* A request that is served goes on, in the code as in the client; a crash is
\* not assumed, nor that there is none.
Fairness ==
  \A r \in Requests : WF_vars(up /\ UNCHANGED up /\ Progress(r)) /\ WF_vars(Lose(r))

FairSpec == Spec /\ Fairness

-----------------------------------------------------------------------------

\* The variables of the requests keep their types, and those of the client theirs.
TypeOK ==
  /\ Client!TypeOK
  /\ up \in BOOLEAN
  /\ status \in [Emails -> {"absent", "pending", "completed"}]
  /\ lock \in [Emails -> Requests \cup {None}]
  /\ step \in [Requests -> {"idle", "store", "call", "flush", "commit", "done"}]
  /\ wants \in [Requests -> Emails \cup {0}]
  /\ answer \in [Requests -> {"none", "Ok", "AlreadyExists", "ServiceUnavailable",
                              "NotFound", "BadRequest", "ServerError"}]

\* r was answered before the report service was called.
NeverCalled(r) == answer[r] # "none" /\ result[r] = "none"

\* Whatever a POST is answered, "retry later" included, its email is taken from
\* then on: sent again, it can only be answered with a conflict.  The one
\* exception is a server error of the first transaction, which a client cannot
\* tell from one of the second.
AnsweredMeansTaken ==
  \A r \in Requests :
    answer[r] # "none" /\ ~(answer[r] = "ServerError" /\ NeverCalled(r)) =>
      status[wants[r]] # "absent"

\* What the answer says of the reports is true: 200 without reports only after
\* every attempt of the call has failed, 503 only because of the breaker, and in
\* every answer but 200 and 409 the reports that may have come are dropped, the
\* tasks being left to the nightly run.
AnswerFits ==
  \A r \in Requests :
    /\ answer[r] = "Ok" =>
         \/ status[wants[r]] = "completed"
         \/ result[r] = "Unavailable" /\ attempt[r] = MaxAttempts
    /\ /\ answer[r] \in {"ServiceUnavailable", "NotFound", "BadRequest", "ServerError"}
       /\ ~NeverCalled(r)
       => status[wants[r]] = "pending"
    /\ answer[r] = "ServiceUnavailable" => result[r] = "BreakerOpen"

\* Every POST is answered, or lost with the process, whatever the service, the
\* breaker and the other requests do.
PostAnswered == \A r \in Requests : step[r] = "store" ~> step[r] \in {"done", "idle"}

\* POSTs with the client in them are POSTs of ReportSync, which has the outcome
\* of the call only: no other writer takes part.
SyncPc ==
  [r \in Requests |->
     IF step[r] = "call" THEN "call"
     ELSE IF step[r] \in {"flush", "commit"} THEN "flush" ELSE "idle"]

SyncRows == [r \in Requests |-> IF SyncPc[r] = "idle" THEN {} ELSE {wants[r]}]

Sync == INSTANCE ReportSync
          WITH Tasks <- Emails, Workers <- {}, Editors <- {}, Free <- None,
               BatchSize <- 1, MaxBatchCount <- 1, MaxReportAttempts <- 1,
               MaxMessages <- 0,
               attempts <- [e \in Emails |-> 0], queue <- 0, pc <- SyncPc,
               rows <- SyncRows,
               loaded <- <<>>, missed <- <<>>, cursor <- <<>>, batchCount <- <<>>,
               sent <- <<>>

ImplementsSyncPosts == Sync!Spec

=============================================================================
