# Specifications of the user-task service

This directory models `retry_project_base`, a FastAPI service that registers
users and their tasks and asks a second service (the *report service*) for
metrics of each task. It holds TLA+ modules of the parts whose behaviour is
hard to test, TLC instances of them, and theorems checked by TLAPS.

Paths are those of the repository; `src/src/...` is the Python package.

## 1. The system

### Components, their state and their operations

| Component | Code | State | Operations |
|---|---|---|---|
| Report client | `clients/report_service_client.py`, `utils/retry_client.py` | attempt number of each running call | `post_reports_batch`: up to `STOP_RETRY_AFTER_ATTEMPT_BASE` requests with exponential backoff |
| Circuit breaker | `utils/circuit_breaker.py` and the `circuitbreaker` library | closed/open, failure count, time of opening; one object per process | checked before and updated after every *request*, since it is the inner decorator |
| Sync worker | `workers/report_sync_worker.py`, `repositories/task_rep.py` | cursor, batch count, the loaded rows | fetch a batch of pending tasks, call the service, write the batch; at most `MAX_BATCH_COUNT` batches |
| Celery task, beat | `workers/tasks.py`, `workers/celery_app.py` | messages in Redis | a message every three hours; late acknowledgement, redelivery when a worker is lost |
| User and task service | `services/user_task_service.py`, `mappers/` | nothing of its own; the session of each request | POST, PATCH, DELETE, two GETs |
| Repositories, unit of work, session | `repositories/`, `database/` | the transaction | queries, advisory locks, commit and rollback |
| Tables | `models/`, `alembic/versions/` | users and tasks: unique email, unique (user, title), soft deletion, `report_status`, `attempts` | — |
| Schemas, routers, error handler, health probes, lifespan, settings, logging | the rest | nothing that outlives a request | validation, wiring, reporting |

### How they interact

* A **POST** inserts the user and its tasks (`pending`) in a first transaction,
  calls the report client outside any transaction, and writes the reports
  (`completed`) in a second one. When the service is unavailable the tasks stay
  `pending` and the client still gets its answer; when the breaker is open or a
  report is missing the client gets an error, and the user exists.
* A **sync run** takes pending tasks in the order of their ids, a batch at a
  time: a transaction that locks and reads the batch, the remote call, and a
  transaction that writes it. A report completes a task; without one `attempts`
  grows, and at `MAX_REPORT_ATTEMPTS` the task is `failed`.
* A **listing** (GET without an id) is a request for each page: the users of the
  page, locked `FOR SHARE SKIP LOCKED`, then their tasks. The client carries the
  cursor, the `created_at` of the last user.
* **PATCH** takes the advisory lock of the user, reads the user with its tasks,
  validates against what it read, takes the advisory lock of a new email,
  checks it, and writes. **DELETE** sets `is_deleted`, under no lock.
* All of these write the same task rows. What connects a sync run, a POST and
  an edit is the database alone: row locks, and columns that one of them read
  before another one wrote.

### What is hard about it

Values read in one transaction and written in another (`attempts`); locks
that end before the work they guard; two runs at a time (a slow run and the
next beat, a redelivered message, several workers); a worker lost between two
steps; one breaker shared by concurrent calls and their retries; an error after
half of a request has been committed; requests that validate against what they
loaded; a listing cut into pages while its rows change. `PROJECT.json` lists each of these at its
line under `hazards`.

### What makes each part correct

* Client: bounded requests per call, no request while the breaker refuses,
  every call ends.
* Breaker: open exactly after the threshold of requests in a row, of any calls,
  that found the service unavailable; closed only by an answer; it stops refusing
  calls eventually.
* Synchronisation: attempts within the limit and counted exactly, `failed` only
  with all attempts used, a resolved task stays resolved, no row locked during
  a remote call, no deadlock, every run ends and sends no task twice, every
  pending task is resolved.
* Users and tasks: concurrent requests behave as if they came one at a time,
  a refusal is true when it is given, constraints are left little to refuse,
  nobody waits for ever, emails are unique.
* Registration: the answer of a POST is true of what it left behind, and there
  always is one.
* Listing: nobody twice, nobody left out without a reason, pages not torn.

## 2. Modules

| Module | Role | Models |
|---|---|---|
| `CircuitBreaker` | component | the breaker object; time in units of the recovery timeout |
| `ReportClient` | component, EXTENDS `CircuitBreaker` | concurrent calls of `post_reports_batch` in one process |
| `BoundedRetry` | abstract | what a caller may rely on: one to `MaxAttempts` requests, one outcome |
| `ReportClientProofs` | proofs | |
| `Registration` | composition, INSTANCE `ReportClient` | POST from end to end in one process: both transactions, the client step by step, the answers, the loss of the process |
| `RegistrationProofs` | proofs, INSTANCE `ReportClientProofs` | |
| `ReportSync` | component, implemented by `Registration` for POSTs | sync runs, both transactions of POST, writes of PATCH and DELETE, on the task rows |
| `TaskLifecycle` | abstract | pending → completed / failed, one attempt per miss |
| `ReportSyncProofs` | proofs | |
| `UserTasks` | component | POST, PATCH and DELETE on users, emails, tasks and titles, with the advisory locks |
| `AtomicUsers` | abstract | the same requests, each in one step |
| `UserTasksProofs` | proofs: invariant, violated constraints, deadlocks | |
| `UserTasksAtomicity` | lemmas, EXTENDS `UserTasksProofs`: what each step writes | |
| `UserTasksRefinement` | proofs, EXTENDS `UserTasksAtomicity`: `UserTasks` implements `AtomicUsers` | |
| `UserListing` | component | clients that list users page by page beside requests that write them |
| `UserListingProofs` | proofs | |
| `MCReportSync`, `MCUserTasks` | TLC | symmetry, values and operations of the instances |

Operators called "Mutant of ..." in the modules are not part of a
specification. Each is a plausible bug in the definition that it names; with it
in that definition's place one of the properties fails, which shows that the
property depends on that line of code.

### Correspondence with the code

`PROJECT.json` ("map") gives the lines of every definition. The reading guide:

**ReportClient.** One action runs from one `await` that really waits to the
next one. `Call` and `Wake` are an attempt: `circuit` decides whether the
request is sent. `Respond` is the reply: `_handle_response` and
`_create_exception` (`Ending`), the breaker's count, tenacity's decision to
sleep (`Retried`). `streak` is a history variable: how many requests in a row,
whichever calls made them, have found the service unavailable, counted from how
they ended and not from what the breaker made of it. An exception that the breaker does not expect, `NotFound`
and `Client` among them, counts as a success for it. The HTTP statuses are one
for each branch. `Tick` lets time pass for an open breaker. The `circuitbreaker`
library is modelled from its interface (marked external): in particular, there is
no half-open state that lets a single probe through.

**ReportSync.** `status`, `attempts` and `lock` are committed columns and row
locks. `loaded` is what a session read; `CommitBatch` computes from it, as
`task.attempts += 1` does with `expire_on_commit=False`. SQLAlchemy writes only
columns that have changed, so a miss below the limit leaves `report_status`
as it is in the database (`NewStatus`). A flush updates its rows in the order of
their primary keys, one `LockRow` at a time; `RowTurn` is that order.
`FetchNextBatch` is one statement, and skips locked rows. `Leave` is the end of
`_run_worker`, in each of the ways out: nothing to fetch, an exception, a crash.
A POST is `CreateTasks`, `ReportsForRequest` or `RequestFails`, and
`CommitReports`; `Edit` stands for any PATCH or DELETE that updates task
rows, `AddTasks` for the tasks a PATCH inserts, which nobody but a sync run asks
the service about. `sent` is a history variable: the tasks that a run has sent to
the service.

The remote call is abstracted to its outcome, in both POST and sync: reports for
all or some tasks, a client error, or another exception. `ReportClient` gives
these outcomes and shows that the call ends; for POST, `Registration` puts it in
the place of the outcome.

**Registration.** `Store` is the first transaction, which `UserTasks` shows to
be atomic; `StoreFails` is its failure, in a statement, the flush or the commit: all of it
is rolled back and the email stays free. `Calling` is a step of `ReportClient` for this request. `ApplyReports`
is what `_fetch_and_apply_reports` does with the result: an open breaker is 503,
`ObjectNotFoundException` and `ExternalServiceClientException` go through to the
handler (404, 400), anything unexpected and a missing report are a server error,
and `ExternalServiceUnavailableException`, after all attempts, is logged and
the request answered without reports. `Flush` and `Commit` are the second
transaction. A client may send its request again (`Ask`). `Crash` takes the
process; the database rolls its transactions back one by one (`Lose`), and
`Restart` starts with a new breaker, as the lifespan does. One task stands for
the tasks of a request, so reports for some of them and for none are one case:
in both the session is dropped. `ImplementsSyncPosts` maps these steps to the
POSTs of `ReportSync`.

**UserListing.** `ReadUsers` is the query of `get_all`: rows that a request has
updated (`writer`) are skipped, the others locked `FOR SHARE` until the request
commits (`SharedBy`), which an update waits for. `ReadTasks` is the second
statement that `selectinload` sends, and the answer. `cursor` is what the client
passes on. Rows of equal `created_at` come in any order, since ORDER BY names no
other column. `quiet` is a history variable, for the property: the users that
were there when the listing began and that nobody has written since.

**UserTasks.** A request is the steps `LockUser`, `Read`, `LockEmail`,
`CheckEmail` and one of `Post`, `Patch` and `Delete`, which are the flush and
the commit. `session[r]` is the user with its tasks as loaded: `Patch`
validates against it (`UnknownTask`, `TitleTaken`), `Written` leaves out
attributes that are set to their loaded value, and `Integrity` is the
constraints of the tables; a flush that violates them is the answer
`IntegrityError`, which no handler turns into an answer of the API. The flush
updates one row after the other, by primary key, before it inserts: a PATCH whose
new titles would be unique at its end may violate the constraint on the way
(`TakesOver`). `Normal` is
`lower().strip()`: it is applied by the lock, the comparison and the check, and
not by the INSERT and the UPDATE, as in the code. The key of an advisory lock is
`LockKey`, the 32-bit `hashtext` of a user or an email: a constant function, of
which the instances take the one without collisions and the proofs any. A request
that has a key already gets it again at once (`Acquire`), as
`pg_advisory_xact_lock` does. Where a request has several
reasons to be refused the order of its list decides in the code; the model
leaves it open. `SchemaAssumption` says what the schemas make of a request: an
optional field has one value, the titles of a request are distinct.
It also bounds a request to one edit of a task. The *empty* title (`Blank`) is
the exception everywhere, as in the code: `UniqueTaskTitlesValidatorMixin` leaves
it out, so that a request may have it twice (`doubled` for new tasks, two edits for
others), and `TitleTaken` does not check it for an edited task. What the database
refuses for other reasons in the data of a request (an explicit null, a title of
more than 100 characters) is `Abandon`, which lets any request fail anywhere.

## 3. What the runs show

| Run | Instance | Shows |
|---|---|---|
| `client_calls` | 3 calls, 3 attempts, threshold 3, timeout 2 | the breaker is open exactly after three requests in a row that found the service unavailable, whichever calls made them; no request joins while it refuses; only an answer closes it; every failure while open restarts the timeout; every call ends; an open breaker recovers; `BoundedRetry` is implemented, with its liveness |
| `sync_safety` | 2 tasks, 2 runs, a POST, an edit | attempts within the limit; no lock during a call; no circle of waiting transactions; resolved tasks stay resolved; a completed report is lost in one way only |
| `sync_served` | 2 tasks in 2 batches, 2 attempts, 1 run, a POST | with one run at a time, beside a POST of the same tasks, `TaskLifecycle` is implemented with its liveness: misses are counted exactly and `failed` means exhausted; no run sends a task twice; every pending task is resolved, although runs fail and crash |
| `sync_live` | 2 tasks, 2 runs, an edit | every run ends, although they wait for each other's rows |
| `sync_stale_failed` | 1 task, 2 runs | **violation**: a task is `failed` below the limit |
| `users_atomic` | 2 users, 2 tasks, 2 emails, a title and the empty one, 2 requests | `AtomicUsers` is implemented |
| `users_integrity` | 2 users, 2 tasks, an email in two cases, a title and the empty one, 2 requests | a violated constraint has one of the causes that are named |
| `users_live` | 2 users, 2 emails whose locks share the keys of the users, 2 requests | requests wait in a circle only because of such a pair of keys; every request is answered |
| `users_delete` | 1 user, 1 task, 2 requests | **violation**: a task outlives the user's DELETE |
| `users_case` | 2 users, 1 request | **violation**: one email is registered in two cases |
| `listing` | 3 users, pages of 2, 3 instants, 1 listing, 2 writing requests | nobody is shown twice; who is left out was being written or shares a `created_at`; a page is not torn; a listing ends |
| `registration` | 3 POSTs, 2 emails, 2 attempts, threshold 3 | the answer of a POST is true; its email is taken, but for a failure of the first transaction; it is answered unless the process is lost; the POSTs of `ReportSync` are implemented |

### Bounds, and why they are enough

* Processes: the interesting races are between two runs, or between a run, a
  POST and an edit, on the same row; a second row is needed for lock order and
  for a run with two batches (`sync_served`, one task in each). Three calls are needed
  for the breaker to open with a call in flight and a call asleep.
* In `listing`, pages of two and three users make a second page with one user,
  or leave out a user that shares its `created_at` with the last one of the
  first page; two writers let one row be written while another is updated.
* In `registration`, a threshold of three with two attempts lets the breaker
  open in the second call, between the attempts of a third one; two emails for
  three requests make two of them compete.
* `MaxMessages` bounds the messages that are queued or being processed; two of
  them are what lets two runs overlap.
* `IdsLeft` bounds `UserTasks`: a request is asked only while there are unused
  ids for what it might create. Two tasks let one user have two titles or want the
  empty one twice, and two users hold or want one title.
* `Operations` of `UserTasks` is chosen for each run. `users_atomic` has
  lower-case emails, no moves of tasks and no DELETE of a whole user: these are
  the operations for which atomicity holds, empty titles included. Emails in two
  cases and moves end in `IntegrityError`, and whole-user DELETEs do not cover
  concurrent tasks; `users_integrity`, `users_case` and `users_delete` have them. In
  `users_integrity` every cause of a violated constraint occurs, a conflict of user
  and title between two requests included. `users_live` has no tasks, as no lock is
  about them, and the hashes that the other runs leave out: the key of each email is
  that of a user, so that requests do wait in a circle.
* Symmetry is used in safety runs only.
* Sizes (distinct states): `client_calls` 47 760, `sync_safety` 876 211, `sync_served`
  4 089, `sync_live` 30 812, `users_atomic` 241 855, `users_integrity` 322 279,
  `users_live` 31 503, `registration` 256 732.

### Fairness

* `ReportClient!Fairness`: a sleep ends, `ClientTimeout(total=...)` bounds a
  request, time passes.
* `ReportSync!Fairness`: a process that has started a run or a request goes on,
  its remote call ends (which `client_calls` shows), and a row that others lock
  again and again is granted to it at some time: PostgreSQL queues waiters, hence
  strong fairness of `LockRow`.
* `ReportSync!ServiceFairness` is an assumption about the environment, not about
  the code, and only `sync_served` makes it: messages keep coming
  and are taken, and no step of a task's batch is prevented for ever. Without it
  nothing can be promised: a service that refuses a task's batch each time
  keeps it `pending` for ever, since a skipped batch counts no attempt, and so do
  more tasks than the batches of a run hold. This run has no edits, because `SKIP LOCKED` gives no guarantee against rows that
  somebody locks at every fetch.
* `Registration!Fairness`: a request that is served goes on, and its remote
  call with it; neither a crash nor its absence is assumed. `UserListing!Fairness`:
  a client goes on with its listing; its statements wait for nobody, because of
  SKIP LOCKED.
* `UserTasks!Fairness`: statements end, and advisory locks are granted in
  the order in which they are asked for. A request fails (`Abandon`) by assumption in
  one case only: of transactions that wait for each other in a circle PostgreSQL
  aborts one (`BreakDeadlock`).

### Where the code does something else than it says

1. **Lost attempts** (`sync_stale_failed`). Two overlapping runs load the same
   `attempts`. The faster one raises it to the limit and fails the task; the
   slower one, which loaded it earlier, writes its smaller number. With one run
   at a time the property holds (`sync_served`, theorem `FailedExhausted`).
2. **Whole-user DELETE** (`users_delete`). DELETE reads without the user lock
   and marks what it read; a task added meanwhile stays.
3. **Emails in two cases** (`users_case`). What is locked and compared is
   lower-case, what is stored is not. The same inconsistency lets a PATCH to an
   email stored with capitals pass the check and end in `IntegrityError`.

Not runs, but worth knowing. Two tasks of a user are not given the same title,
except for the empty one: neither the schemas (`users_schemas.py:22`) nor the
validation (`user_task_service.py:158`) look at it, so the constraint refuses it and the
request ends in a server error where other titles get a 409 (`SecondBlank` in
`IntegrityErrorExplained`). A server error of a POST may mean that nothing was stored
or that the user was: the client cannot tell (`AnsweredMeansTaken`).

`README.md:4-14` describes that a task is created
with the information of the second service, while the code creates it first and
PATCH never asks for a report. The exception
behind 503 is the one for "retry later" (`exceptions/external_service.py:9`), but
when a POST is answered with it the user exists, and the retry gets 409. `user_task_routers.py:19` promises the data of
all users, while a listing leaves out users whose row is being written, and those
that share a `created_at` with the last one of a page (`ListingComplete` is as
much as holds). The beat entry is called `sync-reports-nightly`
and runs every three hours. Emails of deleted users stay taken, and PATCH edits
deleted users.

## 4. What is proved

TLAPS checks these for every value of the constants, from the named
assumptions `BreakerAssumption`, `ClientAssumption`, `SyncAssumption`,
`RegistrationAssumption`, `ListingAssumption` (positive thresholds and limits,
disjoint kinds of processes, ordered ids), `UserAssumption` (normalising an
email twice changes nothing) and `SchemaAssumption` (see section 2). A theorem
that needs more states it as a hypothesis (ASSUME ... PROVE).

**ReportClientProofs.** The inductive invariant `Inv` is `TypeOK`, `BreakerOK`
(the breaker's count is `streak`, and it is open exactly at the threshold) and, for
each call, `CallOK`, which ties the attempt
number and the result to the program counter (a sleeping call has attempts
left; a call that ended `Unavailable` has none). `TypeOK` alone is not
inductive, because only `CallOK` bounds the attempt number of a call that wakes.
From `Inv`: `TypeCorrect`, `BreakerCounts`, and as action properties
`RefusesRequests`, `ClosesOnAnswer`, `FailureRestarts`. `KeepsPromise` is the
refinement of the safety part of `BoundedRetry`, one action at a time.
`CallProgress` is the safety half of `CallEnds`: a call goes through at most
`2 * MaxAttempts` requests and sleeps, each counted by `Spent`. What is left to
TLC is that each of them ends.

**ReportSyncProofs.** `Inv` is `TypeOK`, `AttemptsWithinLimit`, `LocksOK` for
each process (a lock is on a row of its holder's transaction, and a flush has
locked the rows in their order) and `BatchOK` for each worker (a run in the
middle of a batch may still finish it, and its loaded attempts are below the
limit). The last part is what stale values need: however old, a loaded attempt is
below the limit, so what is written stays within it. `LocksOK` is what excludes
circles of waiting transactions, of any length: of the rows that are waited for
in a circle take the last one; its holder has locked its rows in their order, so
it can only wait for a later one. That there is a last one in any set of
transactions needs `BoundedIds`: an id is a UUID, a number of 128 bits.
From it: `TypeCorrect`,
`AttemptsBounded`, `LocksShort`, `DeadlockFree`, `ResolvedForGood`,
`CompletedLost`, for any number of runs, POSTs and edits. `SendsTaskOnce` adds
`SentOK`: what a run has sent is behind its cursor or in its batch, and a batch that
is fetched is ahead of the cursor.
`RunProgress` is the safety half of `RunEnds`: what a run has `Behind` it, four
steps for each batch, grows with each of its steps up to `4 * MaxBatchCount`, and
no other process sets it back; together with `DeadlockFree` it leaves to fairness
only that rows and answers come.
Under `OneWorker` the invariant is strengthened by `SingleInv`: the
attempts that a run has loaded are those in the database, and nobody else fails
a task of its batch (`FreshBatch`). From it:
`FailedExhausted` and `ImplementsLifecycle` (`Spec => Lifecycle!SafeSpec`), both
beside any number of POSTs that complete the same tasks and of edits; the latter
also needs that the rows of a batch are stored (`RowsStored`). The violation run shows
that `OneWorker` cannot be dropped.

**RegistrationProofs.** The invariant of the client is not proved again: an
instance of `ReportClientProofs` provides it, once every step of `Registration`
is shown to be a step of that client, to leave it alone, or to start it anew. To
it `Inv` adds, for each request, what its step says of its task, its lock and the
result of its call (an answer without a result is one of the first transaction), and
that an email that has been stored by a request is worked on by that request alone.
That is what makes the answer true: between `Store` and the answer nobody else can
touch the task. From it: `TypeCorrect`, `AnswersTakeEmail`,
`AnswersFit`, and, one action at a time, `ImplementsPosts`.

**UserTasksProofs.** `Inv` is `TypeOK`, `DataOK` (the unique constraints and the
foreign key) and for each request where it may be, which locks it holds there,
and what they protect: `SessionCurrent` (from its read to its commit a PATCH
holds the lock of its user, and the email and the tasks it has read are those
stored; a DELETE changes other columns only) and `EmailReserved` (the new email
is locked, and after the check nobody else has it). From it: `TypeCorrect`
and `IntegrityErrors`, which is the point of the locks: what is
validated against the session still holds in the flush, row by row, unless the
request gives two tasks the empty title or is a PATCH that moves a task, sets an email
with capitals, or was given a task by somebody else's move.

`DeadlocksShareKeys` adds `HoldersOK`: who waits for the lock of a user holds
nothing, and who waits for that of an email holds at most the lock of its own user,
and only as a PATCH. In a circle everybody is waited for, so everybody waits for an
email, and the key of that email is the one of a user whom another one has locked.
It holds for every hash: `hashtext` has 32 bits and one space for users and emails
(`user_rep.py:79`), so such a pair is possible, however unlikely, and TLC reaches
the circle in `users_live`, where PostgreSQL aborts one of the requests.

**UserTasksAtomicity.** What each step writes: `PostRows`, `PatchRows` and
`DeleteRows` say which users and tasks it may change and in what way, and
`SessionSteps` where the session of a request may come from.

**UserTasksRefinement.** `AtomicRequests`: `Spec => Atomic!Spec`, for
operations with lower-case emails, no moves and no whole-user DELETE (`Covered`), the
same as those of `users_atomic`; for any number of users, tasks, emails and requests and any hash.
The step that answers a request is its step in `AtomicUsers`, the others are
stutters. `SerialInv` adds to `Inv` what is needed for the answer to be true at
that step: `DeleteFound`, `ReadWhole` (between its read and its commit a PATCH
knows *all* the tasks of its user, so a title it does not know is not taken, and
whether the user is deleted) and `PhaseOK`.
Each hypothesis is used where the code needs it: `NoMoves` and `NoWholeUsers` in
`ReadWholeStep` (a move and a DELETE are the writes that the user lock does not
keep out), `LowerCaseOnly` where the check of the email is compared with the
unique constraint.

**UserListingProofs.** `Inv` is `TypeOK` and for each reader `Ordered` (what
has been shown is not behind the cursor, the page in hand is), `Held` (the rows
of a page in hand are locked, so nobody is writing them) and `Covered` (a quiet
user has been shown, is on the page, is still to come, or shares its
`created_at`). The last one is `ListingComplete` made inductive. From it:
`TypeCorrect`, `NoRepetition`, `Completeness`, `PagesWhole`. `ListingProgress` is the
safety half of `ListingEnds`: every page moves the cursor strictly back and keeps
it above 0, so that a listing has at most `MaxTime` pages.

**Only model-checked:** all liveness (`CallEnds`, `BreakerRecovers`, `RunEnds`,
`PendingResolved`, `RequestAnswered`, `ListingEnds`, `PostAnswered` and the
liveness of the abstract specifications), because fairness needs ENABLED, which
the prover does not support. Every invariant and action property that a passing
run checks is stated by a theorem, except that the theorems about `BoundedRetry` and
`TaskLifecycle` are about their safety parts.

## 5. What is not modelled, and why

* The library circuitbreaker's name registry, its wall clock and `last_failure`;
  the length of the backoff and its jitter (a sleep may last any time).
* Redis' visibility timeout. A second delivery of a message in process makes two
  runs overlap, which the model has already.
* Reports in the columns complexity, estimated_hours and priority (they go with
  `completed`); that a PATCH may overwrite them; `stats` and logs.
* `is_deleted` in `ReportSync`: the code's query does not look at it, so deleted
  tasks are synchronised like others.
* In `UserTasks`: other columns, password hashing (pure), the lock waits inside one flush, the refresh after the
  flush, and server errors that come from the data of a single request (an explicit
  null, a title that is too long): `Abandon` lets any request fail anywhere.
* `get_user_by_id`: two statements without a lock, so its tasks may be newer than
  its user; it changes nothing and the code makes no promise about it.
* In `UserListing`: filters on `is_deleted` (the code has none), the limit's range
  1 to 100, a client that changes its limit between pages.
* In `Registration`: sync runs and edits of the same rows (they are in `ReportSync`),
  and a commit that succeeds without the process learning of it: its server error
  would leave the email taken although the report service was not called.
* Health probes: they read, keep nothing, and call the report service past the
  breaker. Settings are CONSTANTS; logging and migrations change no state of a
  running system. The client's HTTP session is closed when the process or the run
  ends, after its last call.

## 6. Plan

Done: the client, the breaker and `BoundedRetry`; `ReportSync` and
`TaskLifecycle`; `UserTasks` and `AtomicUsers`, with the refinement proved;
`UserListing`; `Registration`; and proofs for each of the five.

Next, in this order:

1. The refinement of `AtomicUsers` with whole-user DELETEs, for an `AtomicUsers`
   whose DELETE marks the tasks of an earlier moment.
2. The row locks of a PATCH that moves tasks between users, and index entries,
   for the deadlocks that the user lock does not exclude.
3. The runs of `ReportSync` with the client in them, as `Registration` has it for
   POSTs: there is one breaker in each worker process, which its runs share one
   after the other although each run creates a client.
