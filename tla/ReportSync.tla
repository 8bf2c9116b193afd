----------------------------- MODULE ReportSync -----------------------------
(***************************************************************************)
(* The life of the tasks' reports in the database: the nightly sync run    *)
(* (src/workers/report_sync_worker.py, started by src/workers/tasks.py),   *)
(* the two transactions of POST /user_tasks                                *)
(* (UserTaskService.create_user_with_tasks) and the PATCH and DELETE       *)
(* requests that write the same rows.                                      *)
(*                                                                         *)
(* status, attempts and lock are what the database has committed and the   *)
(* row locks it holds; loaded and missed are what a worker keeps in its    *)
(* session between two transactions.  The transactions run at READ         *)
(* COMMITTED.  A flush updates its rows in the order of their primary keys *)
(* and waits for a row that another transaction has locked; the commit     *)
(* publishes the updates and releases the locks.  The database may let any *)
(* of the transactions waiting for a row go on.                            *)
(*                                                                         *)
(* A call of the report service is abstracted to its outcome for the       *)
(* caller; ReportClient says which outcomes there are and when.            *)
(***************************************************************************)
EXTENDS Integers, FiniteSets

CONSTANTS
  Tasks,               \* ids of the task rows: integers, in the order of the UUIDs
  Workers,             \* Celery worker processes, one sync run each at a time
  Requests,            \* concurrent POST /user_tasks requests
  Editors,             \* concurrent PATCH and DELETE requests that write task rows
  Free,                \* the holder of a row that is not locked
  BatchSize,           \* BATCH_SIZE
  MaxBatchCount,       \* MAX_BATCH_COUNT
  MaxReportAttempts,   \* MAX_REPORT_ATTEMPTS
  MaxMessages          \* bound: sync messages that are queued or being processed

Processes == Workers \cup Requests \cup Editors

ASSUME SyncAssumption ==
  /\ Tasks \subseteq Nat \ {0}
  /\ Free \notin Processes
  /\ Workers \cap Requests = {}
  /\ Workers \cap Editors = {}
  /\ Requests \cap Editors = {}
  /\ BatchSize \in Nat \ {0}
  /\ MaxBatchCount \in Nat \ {0}
  /\ MaxReportAttempts \in Nat \ {0}
  /\ MaxMessages \in Nat

VARIABLES
  status,       \* report_status of each task, "absent" before it is inserted
  attempts,     \* attempts of each task
  lock,         \* the process that holds the row lock of each task, or Free
  queue,        \* sync_reports_task messages in the broker
  pc,           \* "idle", "fetch", "fetched", "call" or "flush", for each process
  rows,         \* the task rows each process works on
  loaded,       \* attempts of its rows, as a worker's session loaded them
  missed,       \* the rows of a worker that the service's answer has no report for
  cursor,       \* cursor_id of a worker's run, 0 for None
  batchCount,   \* batch_count of a worker's run
  sent          \* history: the tasks that a worker's run has sent to the service

dbVars  == <<status, attempts, lock>>
runVars == <<cursor, batchCount, sent>>
vars    == <<dbVars, queue, pc, rows, loaded, missed, runVars>>

Statuses == {"absent", "pending", "completed", "failed"}

Init ==
  /\ status = [t \in Tasks |-> "absent"]
  /\ attempts = [t \in Tasks |-> 0]
  /\ lock = [t \in Tasks |-> Free]
  /\ queue = 0
  /\ pc = [p \in Processes |-> "idle"]
  /\ rows = [p \in Processes |-> {}]
  /\ loaded = [w \in Workers |-> [t \in Tasks |-> 0]]
  /\ missed = [w \in Workers |-> {}]
  /\ cursor = [w \in Workers |-> 0]
  /\ batchCount = [w \in Workers |-> 0]
  /\ sent = [w \in Workers |-> {}]

-----------------------------------------------------------------------------

(* Row locks and transactions. *)

Release(p) == lock' = [t \in Tasks |-> IF lock[t] = p THEN Free ELSE lock[t]]

\* Mutant of RowTurn: the rows are updated in no particular order.
RowTurnAny(p, t) == t \in rows[p]

\* A flush updates its rows in the order of their primary keys.
RowTurn(p, t) ==
  /\ t \in rows[p]
  /\ \A u \in rows[p] : u < t => lock[u] = p

\* The flush of a transaction updates its next row.
LockRow(p, t) ==
  /\ pc[p] = "flush"
  /\ RowTurn(p, t)
  /\ lock[t] = Free
  /\ lock' = [lock EXCEPT ![t] = p]
  /\ UNCHANGED <<status, attempts, queue, pc, rows, loaded, missed, runVars>>

Flushed(p) == pc[p] = "flush" /\ \A t \in rows[p] : lock[t] = p

\* What a worker's session holds of a batch is dropped.
Forget(w) ==
  /\ rows' = [rows EXCEPT ![w] = {}]
  /\ loaded' = [loaded EXCEPT ![w] = [t \in Tasks |-> 0]]
  /\ missed' = [missed EXCEPT ![w] = {}]

-----------------------------------------------------------------------------

(* The sync run. *)

Running == {w \in Workers : pc[w] # "idle"}

\* Celery beat publishes a sync message.
Beat ==
  /\ queue + Cardinality(Running) < MaxMessages
  /\ queue' = queue + 1
  /\ UNCHANGED <<dbVars, pc, rows, loaded, missed, runVars>>

\* A worker takes a message, to be acknowledged when the run is over.
Take(w) ==
  /\ pc[w] = "idle"
  /\ queue > 0
  /\ queue' = queue - 1
  /\ pc' = [pc EXCEPT ![w] = "fetch"]
  /\ UNCHANGED <<dbVars, rows, loaded, missed, runVars>>

\* The rows that the query for the next batch ranges over, after SKIP LOCKED.
Candidates(w) ==
  {t \in Tasks : status[t] = "pending" /\ lock[t] = Free /\ t > cursor[w]}

\* ORDER BY id LIMIT BatchSize.
IsFirstBatch(batch, candidates) ==
  /\ batch # {}
  /\ \/ Cardinality(batch) = BatchSize
     \/ batch = candidates /\ Cardinality(batch) < BatchSize
  /\ \A t \in batch, u \in candidates \ batch : t < u

\* Mutant of BatchesLeft: while batch_count <= max_batch_count.
BatchesLeftOneMore(w) == batchCount[w] <= MaxBatchCount

BatchesLeft(w) == batchCount[w] < MaxBatchCount

\* SELECT ... FOR UPDATE SKIP LOCKED; attempts is read with the row.
FetchNextBatch(w) ==
  /\ pc[w] = "fetch"
  /\ BatchesLeft(w)
  /\ \E batch \in SUBSET Candidates(w) :
       /\ IsFirstBatch(batch, Candidates(w))
       /\ rows' = [rows EXCEPT ![w] = batch]
       /\ loaded' = [loaded EXCEPT ![w] =
                       [t \in Tasks |-> IF t \in batch THEN attempts[t] ELSE 0]]
       /\ lock' = [t \in Tasks |-> IF t \in batch THEN w ELSE lock[t]]
  /\ pc' = [pc EXCEPT ![w] = "fetched"]
  /\ UNCHANGED <<status, attempts, queue, missed, runVars>>

\* Mutant of CommitFetch: the transaction stays open during the remote call.
CommitFetchLater(w) ==
  /\ pc[w] = "fetched"
  /\ pc' = [pc EXCEPT ![w] = "call"]
  /\ sent' = [sent EXCEPT ![w] = @ \cup rows[w]]
  /\ UNCHANGED <<dbVars, queue, rows, loaded, missed, cursor, batchCount>>

\* Leaving the unit of work of _fetch_next_batch commits and so releases the
\* rows; the request to the report service follows.
CommitFetch(w) ==
  /\ pc[w] = "fetched"
  /\ Release(w)
  /\ pc' = [pc EXCEPT ![w] = "call"]
  /\ sent' = [sent EXCEPT ![w] = @ \cup rows[w]]
  /\ UNCHANGED <<status, attempts, queue, rows, loaded, missed, cursor, batchCount>>

\* The service answers, with or without a report for each task.  What
\* _enrich_tasks_with_reports assigns reaches the database with the commit.
Reports(w) ==
  /\ pc[w] = "call"
  /\ \E m \in SUBSET rows[w] : missed' = [missed EXCEPT ![w] = m]
  /\ pc' = [pc EXCEPT ![w] = "flush"]
  /\ UNCHANGED <<dbVars, queue, rows, loaded, runVars>>

\* Mutant of Advance: the loop continues where it was.
AdvanceNever(w) == UNCHANGED runVars

\* batch_count += 1; cursor_id = pending_tasks[-1].id
Advance(w) ==
  /\ batchCount' = [batchCount EXCEPT ![w] = @ + 1]
  /\ \E last \in rows[w] :
       /\ \A t \in rows[w] : t <= last
       /\ cursor' = [cursor EXCEPT ![w] = last]
  /\ UNCHANGED sent

\* ExternalServiceClientException: the batch is skipped, the run goes on.
ClientError(w) ==
  /\ pc[w] = "call"
  /\ Advance(w)
  /\ Forget(w)
  /\ pc' = [pc EXCEPT ![w] = "fetch"]
  /\ UNCHANGED <<dbVars, queue>>

\* task.attempts, for a task without a report.
Attempted(w, t) == loaded[w][t] + 1

\* Mutants of Exhausted: one attempt too many; the first miss is the last.
ExhaustedLater(w, t) == t \in missed[w] /\ Attempted(w, t) > MaxReportAttempts
ExhaustedAtOnce(w, t) == t \in missed[w]

Exhausted(w, t) == t \in missed[w] /\ Attempted(w, t) >= MaxReportAttempts

\* The updates of a batch.  SQLAlchemy writes the columns that changed since
\* they were loaded: a report leaves attempts alone, and a miss below the
\* limit leaves report_status alone.
NewAttempts(w, t) == IF t \in missed[w] THEN Attempted(w, t) ELSE attempts[t]

\* Mutant of NewStatus: a miss writes the whole row back, as it was loaded.
NewStatusWholeRow(w, t) ==
  IF t \notin missed[w] THEN "completed"
  ELSE IF Exhausted(w, t) THEN "failed" ELSE "pending"

NewStatus(w, t) ==
  IF t \notin missed[w] THEN "completed"
  ELSE IF Exhausted(w, t) THEN "failed" ELSE status[t]

CommitBatch(w) ==
  /\ Flushed(w)
  /\ attempts' = [t \in Tasks |->
                    IF t \in rows[w] THEN NewAttempts(w, t) ELSE attempts[t]]
  /\ status' = [t \in Tasks |->
                  IF t \in rows[w] THEN NewStatus(w, t) ELSE status[t]]
  /\ Release(w)
  /\ Advance(w)
  /\ Forget(w)
  /\ pc' = [pc EXCEPT ![w] = "fetch"]
  /\ UNCHANGED queue

\* Mutant of Leave: the cursor outlives the run.
LeaveKeepingCursor(w) ==
  /\ Release(w)
  /\ Forget(w)
  /\ pc' = [pc EXCEPT ![w] = "idle"]
  /\ batchCount' = [batchCount EXCEPT ![w] = 0]
  /\ sent' = [sent EXCEPT ![w] = {}]
  /\ UNCHANGED <<status, attempts, cursor>>

\* A run is over: its transaction is rolled back if it is still open, and
\* nothing of its session is left.
Leave(w) ==
  /\ Release(w)
  /\ Forget(w)
  /\ pc' = [pc EXCEPT ![w] = "idle"]
  /\ cursor' = [cursor EXCEPT ![w] = 0]
  /\ batchCount' = [batchCount EXCEPT ![w] = 0]
  /\ sent' = [sent EXCEPT ![w] = {}]
  /\ UNCHANGED <<status, attempts>>

\* Nothing is left to fetch, or the run has had its batches.
EndRun(w) ==
  /\ pc[w] = "fetch"
  /\ ~BatchesLeft(w) \/ Candidates(w) = {}
  /\ Leave(w)
  /\ UNCHANGED queue

\* An exception leaves run(): the service is unavailable, the breaker is open,
\* an unexpected answer, a database error.  Celery acknowledges the message
\* of a failed task.
RunFails(w) ==
  /\ pc[w] # "idle"
  /\ Leave(w)
  /\ UNCHANGED queue

\* The worker process is lost before it has acknowledged the message, which
\* is delivered again (acks_late, reject_on_worker_lost).
Crash(w) ==
  /\ pc[w] # "idle"
  /\ Leave(w)
  /\ queue' = queue + 1

-----------------------------------------------------------------------------

(* The requests of the API. *)

Absent == {t \in Tasks : status[t] = "absent"}

\* The tasks are inserted with the defaults of the model.
Insert(T) ==
  /\ T # {}
  /\ status' = [t \in Tasks |-> IF t \in T THEN "pending" ELSE status[t]]
  /\ UNCHANGED <<attempts, lock>>

\* First transaction of create_user_with_tasks; the request to the report
\* service follows, outside any transaction.
CreateTasks(r) ==
  /\ pc[r] = "idle"
  /\ \E T \in SUBSET Absent :
       /\ Insert(T)
       /\ rows' = [rows EXCEPT ![r] = T]
  /\ pc' = [pc EXCEPT ![r] = "call"]
  /\ UNCHANGED <<queue, loaded, missed, runVars>>

\* The service answers with a report for every task.
ReportsForRequest(r) ==
  /\ pc[r] = "call"
  /\ pc' = [pc EXCEPT ![r] = "flush"]
  /\ UNCHANGED <<dbVars, queue, rows, loaded, missed, runVars>>

RequestDone(r) ==
  /\ Release(r)
  /\ pc' = [pc EXCEPT ![r] = "idle"]
  /\ rows' = [rows EXCEPT ![r] = {}]
  /\ UNCHANGED <<attempts, queue, loaded, missed, runVars>>

\* Second transaction: report_status has changed in the session, whatever a
\* sync run has made of it in the database.
CommitReports(r) ==
  /\ Flushed(r)
  /\ status' = [t \in Tasks |-> IF t \in rows[r] THEN "completed" ELSE status[t]]
  /\ RequestDone(r)

\* The request ends without reports: the service is unavailable, the breaker
\* is open, a report is missing, another exception, the process is lost.  The
\* tasks of the first transaction stay.
RequestFails(r) ==
  /\ pc[r] \in {"call", "flush"}
  /\ RequestDone(r)
  /\ UNCHANGED status

\* PATCH inserts tasks and does not ask the report service about them.
AddTasks ==
  /\ \E T \in SUBSET Absent : Insert(T)
  /\ UNCHANGED <<queue, pc, rows, loaded, missed, runVars>>

\* PATCH or DELETE changes columns of existing tasks, never report_status or
\* attempts.
Edit(e) ==
  /\ pc[e] = "idle"
  /\ \E T \in SUBSET (Tasks \ Absent) :
       T # {} /\ rows' = [rows EXCEPT ![e] = T]
  /\ pc' = [pc EXCEPT ![e] = "flush"]
  /\ UNCHANGED <<dbVars, queue, loaded, missed, runVars>>

EditCommits(e) ==
  /\ Flushed(e)
  /\ RequestDone(e)
  /\ UNCHANGED status

EditFails(e) ==
  /\ pc[e] = "flush"
  /\ RequestDone(e)
  /\ UNCHANGED status

-----------------------------------------------------------------------------

WorkerNext(w) ==
  \/ Take(w)
  \/ FetchNextBatch(w)
  \/ CommitFetch(w)
  \/ Reports(w)
  \/ ClientError(w)
  \/ CommitBatch(w)
  \/ EndRun(w)
  \/ RunFails(w)
  \/ Crash(w)

RequestNext(r) ==
  \/ CreateTasks(r)
  \/ ReportsForRequest(r)
  \/ CommitReports(r)
  \/ RequestFails(r)

EditorNext(e) ==
  \/ Edit(e)
  \/ EditCommits(e)
  \/ EditFails(e)

Next ==
  \/ Beat
  \/ AddTasks
  \/ \E w \in Workers : WorkerNext(w)
  \/ \E r \in Requests : RequestNext(r)
  \/ \E e \in Editors : EditorNext(e)
  \/ \E p \in Processes, t \in Tasks : LockRow(p, t)

Spec == Init /\ [][Next]_vars

\* What a started run or request needs of its process and of the database: it
\* goes on, the remote call ends (CallEnds of ReportClient), and a row that
\* other transactions lock again and again is at some time granted to it.
RunFairness(w) ==
  /\ WF_vars(FetchNextBatch(w) \/ EndRun(w))
  /\ WF_vars(CommitFetch(w))
  /\ WF_vars(Reports(w) \/ ClientError(w) \/ RunFails(w))
  /\ WF_vars(CommitBatch(w))
  /\ \A t \in Tasks : SF_vars(LockRow(w, t))

RequestFairness(r) ==
  /\ WF_vars(ReportsForRequest(r) \/ RequestFails(r))
  /\ WF_vars(CommitReports(r))
  /\ \A t \in Tasks : SF_vars(LockRow(r, t))

EditFairness(e) ==
  /\ WF_vars(EditCommits(e))
  /\ \A t \in Tasks : SF_vars(LockRow(e, t))

Fairness ==
  /\ \A w \in Workers : RunFairness(w)
  /\ \A r \in Requests : RequestFairness(r)
  /\ \A e \in Editors : EditFairness(e)

FairSpec == Spec /\ Fairness

\* What a task needs beyond that to be resolved: sync messages keep coming and
\* are taken, and no step of its batch is prevented for ever: not every run is
\* lost before it fetches the task or while it has it, and the service does not
\* refuse its batch every time.
FetchesTask(w, t) == FetchNextBatch(w) /\ t \in rows'[w]
MovesTask(w, t) ==
  /\ t \in rows[w]
  /\ CommitFetch(w) \/ Reports(w) \/ CommitBatch(w)

ServiceFairness ==
  /\ WF_vars(Beat)
  /\ \A w \in Workers :
       /\ WF_vars(Take(w))
       /\ \A t \in Tasks :
            /\ SF_vars(FetchesTask(w, t))
            /\ \A step \in {"fetched", "call", "flush"} :
                 SF_vars(pc[w] = step /\ MovesTask(w, t))

ServedSpec == FairSpec /\ ServiceFairness

-----------------------------------------------------------------------------

\* The columns, the locks and what the processes hold keep their types; no run
\* has more than MAX_BATCH_COUNT batches.
TypeOK ==
  /\ status \in [Tasks -> Statuses]
  /\ attempts \in [Tasks -> 0 .. MaxReportAttempts]
  /\ lock \in [Tasks -> Processes \cup {Free}]
  /\ queue \in Nat
  /\ pc \in [Processes -> {"idle", "fetch", "fetched", "call", "flush"}]
  /\ rows \in [Processes -> SUBSET Tasks]
  /\ loaded \in [Workers -> [Tasks -> 0 .. MaxReportAttempts]]
  /\ missed \in [Workers -> SUBSET Tasks]
  /\ cursor \in [Workers -> Nat]
  /\ batchCount \in [Workers -> 0 .. MaxBatchCount]
  /\ sent \in [Workers -> SUBSET Tasks]

\* However the stale attempts of concurrent runs overwrite each other, no task
\* is tried more often than MAX_REPORT_ATTEMPTS, and none whose attempts are
\* used up is left pending, to be sent once more by every later run.
AttemptsWithinLimit ==
  \A t \in Tasks :
    /\ attempts[t] <= MaxReportAttempts
    /\ status[t] \in {"absent", "pending"} => attempts[t] < MaxReportAttempts

\* Nobody holds a task row while it waits for the report service, however
\* many retries that call makes; the run's SELECT ... FOR UPDATE does not
\* outlive its transaction.
NoLockAcrossRemoteCall ==
  \A p \in Processes, t \in Tasks : lock[t] = p => pc[p] \in {"fetched", "flush"}

\* p's flush waits for a row that q has locked.
WaitsFor(p, q) ==
  /\ pc[p] = "flush"
  /\ \E t \in Tasks : RowTurn(p, t) /\ lock[t] = q /\ q # p

\* Sync runs, POSTs, PATCHes and DELETEs that update the same rows never wait
\* for each other in a circle of any length, of any of them that wait one waits
\* for none of the others: the order of the flush excludes a deadlock.
NoWaitCycle ==
  \A S \in SUBSET Processes : S # {} => \E p \in S : \A q \in S : ~WaitsFor(p, q)

\* A resolved task is not pending again, whatever a run that loaded it before
\* it was resolved writes back.
ResolvedStaysResolved ==
  [][\A t \in Tasks :
       status[t] \in {"completed", "failed"} =>
         status'[t] \in {"completed", "failed"}]_vars

\* A run that loaded the task one attempt before the limit is about to write
\* that there was no report for it.
LastMissDue(t) ==
  \E w \in Workers :
    /\ Flushed(w)
    /\ t \in missed[w]
    /\ loaded[w][t] = MaxReportAttempts - 1

\* A completed report is lost in one way only: a run that loaded the task one
\* attempt before the limit, when it was still pending, finds no report.
CompletedLostToLastMissOnly ==
  [][\A t \in Tasks :
       status[t] = "completed" /\ status'[t] # "completed" =>
         status'[t] = "failed" /\ LastMissDue(t)]_vars

\* A run sends no task to the service twice, whether its batch was written or
\* skipped, and whatever else happened to the task since: a batch that a run has
\* fetched and is about to send has none of the tasks it has sent before.
RunSendsTaskOnce ==
  \A w \in Workers : pc[w] = "fetched" => rows[w] \cap sent[w] = {}

\* "Task marked as FAILED: max attempts exceeded": a failed task has used up
\* its attempts.
FailedMeansExhausted ==
  \A t \in Tasks : status[t] = "failed" => attempts[t] = MaxReportAttempts

\* The synchronisation implements TaskLifecycle, on the columns of the database
\* themselves, beside POST requests that write reports of the same tasks, as long
\* as one run at a time is active.
Lifecycle == INSTANCE TaskLifecycle
ImplementsTaskLifecycle == Lifecycle!Spec

\* A run ends, whatever the service does and whoever writes the rows of its
\* batches.
RunEnds == \A w \in Workers : pc[w] # "idle" ~> pc[w] = "idle"

\* Every task is resolved in the end: completed, or failed when the service
\* answers without it.
PendingResolved ==
  \A t \in Tasks : status[t] = "pending" ~> status[t] \in {"completed", "failed"}

=============================================================================
