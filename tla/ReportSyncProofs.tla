-------------------------- MODULE ReportSyncProofs --------------------------
(***************************************************************************)
(* Proofs about ReportSync, for any number of tasks, workers, requests and *)
(* editors, any batch size and any limits.                                 *)
(***************************************************************************)
EXTENDS ReportSync, WellFoundedInduction, TLAPS

-----------------------------------------------------------------------------

(* The inductive invariant. *)

\* What a worker's session holds belongs to its batch, was loaded below the
\* limit of attempts, and is gone when the next batch is fetched; a run in the
\* middle of a batch may still finish it.
BatchOK(w) ==
  /\ pc[w] \in {"idle", "fetch"} => rows[w] = {}
  /\ pc[w] \in {"fetched", "call", "flush"} => batchCount[w] < MaxBatchCount
  /\ missed[w] \subseteq rows[w]
  /\ \A t \in rows[w] : loaded[w][t] < MaxReportAttempts

\* A lock is on a row of its holder's transaction, and a flush has got its
\* locks in the order of the rows.
LocksOK(p) ==
  \A t \in Tasks : lock[t] = p =>
    /\ pc[p] \in {"fetched", "flush"}
    /\ t \in rows[p]
    /\ pc[p] = "flush" => \A u \in rows[p] : u < t => lock[u] = p

Inv ==
  /\ TypeOK
  /\ AttemptsWithinLimit
  /\ \A w \in Workers : BatchOK(w)
  /\ \A p \in Processes : LocksOK(p)

LEMMA InitInv == Init => Inv
BY SyncAssumption
   DEF Init, Inv, TypeOK, Statuses, AttemptsWithinLimit, BatchOK, LocksOK, Processes

\* What Release does to the locks of its process and of the others.
LEMMA ReleaseLocks ==
  ASSUME TypeOK, NEW p \in Processes, Release(p)
  PROVE  /\ lock' \in [Tasks -> Processes \cup {Free}]
         /\ \A t \in Tasks : lock'[t] # p
         /\ \A q \in Processes \ {p}, t \in Tasks : lock'[t] = q <=> lock[t] = q
BY SyncAssumption DEF Release, TypeOK

\* The counters of a run stay in their types when a batch is dealt with.
LEMMA AdvanceType ==
  ASSUME Inv, NEW w \in Workers, pc[w] \in {"call", "flush"}, Advance(w)
  PROVE  /\ cursor' \in [Workers -> Nat]
         /\ batchCount' \in [Workers -> 0 .. MaxBatchCount]
         /\ sent' \in [Workers -> SUBSET Tasks]
<1>1. batchCount[w] < MaxBatchCount
  BY DEF Inv, BatchOK
<1>2. rows[w] \subseteq Nat
  BY SyncAssumption DEF Inv, TypeOK, Processes
<1> QED
  BY <1>1, <1>2, SyncAssumption DEF Advance, Inv, TypeOK

LEMMA NextInv == Inv /\ [Next]_vars => Inv'
<1> SUFFICES ASSUME Inv, [Next]_vars
             PROVE  Inv'
  OBVIOUS
<1> USE SyncAssumption DEF Processes, Inv
<1>1. CASE Beat
  BY <1>1 DEF Beat, dbVars, runVars, TypeOK, AttemptsWithinLimit, BatchOK, LocksOK
<1>2. CASE AddTasks
  BY <1>2 DEF AddTasks, Insert, Absent, runVars, Statuses,
              TypeOK, AttemptsWithinLimit, BatchOK, LocksOK
<1>3. ASSUME NEW p \in Processes, NEW t \in Tasks, LockRow(p, t)
      PROVE  Inv'
  <2>1. TypeOK' /\ AttemptsWithinLimit' /\ \A w \in Workers : BatchOK(w)'
    BY <1>3 DEF LockRow, runVars, TypeOK, AttemptsWithinLimit, BatchOK
  <2>2. ASSUME NEW q \in Processes
        PROVE  LocksOK(q)'
    BY <1>3 DEF LockRow, RowTurn, TypeOK, LocksOK
  <2> QED
    BY <2>1, <2>2
<1>4. ASSUME NEW w \in Workers, WorkerNext(w)
      PROVE  Inv'
  <2>1. CASE Take(w)
    BY <2>1 DEF Take, dbVars, runVars, TypeOK, AttemptsWithinLimit, BatchOK, LocksOK
  <2>2. CASE FetchNextBatch(w)
    <3>1. PICK batch \in SUBSET Candidates(w) :
            /\ rows' = [rows EXCEPT ![w] = batch]
            /\ loaded' = [loaded EXCEPT ![w] =
                            [t \in Tasks |-> IF t \in batch THEN attempts[t] ELSE 0]]
            /\ lock' = [t \in Tasks |-> IF t \in batch THEN w ELSE lock[t]]
      BY <2>2 DEF FetchNextBatch
    <3>2. \A t \in batch : t \in Tasks /\ status[t] = "pending" /\ lock[t] = Free
      BY DEF Candidates
    <3>3. /\ pc[w] = "fetch" /\ batchCount[w] < MaxBatchCount
          /\ pc' = [pc EXCEPT ![w] = "fetched"]
          /\ UNCHANGED <<status, attempts, queue, missed, cursor, batchCount, sent>>
      BY <2>2 DEF FetchNextBatch, BatchesLeft, runVars
    <3>4. TypeOK' /\ AttemptsWithinLimit'
      BY <3>1, <3>2, <3>3 DEF TypeOK, AttemptsWithinLimit
    <3>5. ASSUME NEW v \in Workers
          PROVE  BatchOK(v)'
      BY <3>1, <3>2, <3>3 DEF TypeOK, AttemptsWithinLimit, BatchOK
    <3>6. ASSUME NEW q \in Processes
          PROVE  LocksOK(q)'
      BY <3>1, <3>2, <3>3 DEF TypeOK, LocksOK
    <3> QED
      BY <3>4, <3>5, <3>6
  <2>3. CASE CommitFetch(w)
    <3>1. TypeOK' /\ AttemptsWithinLimit' /\ \A v \in Workers : BatchOK(v)'
      BY <2>3, ReleaseLocks
         DEF CommitFetch, runVars, TypeOK, AttemptsWithinLimit, BatchOK
    <3>2. ASSUME NEW q \in Processes
          PROVE  LocksOK(q)'
      BY <2>3, ReleaseLocks DEF CommitFetch, TypeOK, LocksOK
    <3> QED
      BY <3>1, <3>2
  <2>4. CASE Reports(w)
    <3>1. PICK m \in SUBSET rows[w] : missed' = [missed EXCEPT ![w] = m]
      BY <2>4 DEF Reports
    <3>2. missed' \in [Workers -> SUBSET Tasks]
      BY <3>1 DEF TypeOK
    <3>3. TypeOK' /\ AttemptsWithinLimit'
      BY <2>4, <3>2 DEF Reports, dbVars, runVars, TypeOK, AttemptsWithinLimit
    <3>4. ASSUME NEW v \in Workers
          PROVE  BatchOK(v)'
      BY <2>4, <3>1 DEF Reports, dbVars, runVars, TypeOK, BatchOK
    <3>5. ASSUME NEW q \in Processes
          PROVE  LocksOK(q)'
      BY <2>4 DEF Reports, dbVars, TypeOK, LocksOK
    <3> QED
      BY <3>3, <3>4, <3>5
  <2>5. CASE ClientError(w)
    <3>1. TypeOK' /\ AttemptsWithinLimit'
      BY <2>5, AdvanceType DEF ClientError, Forget, dbVars, TypeOK, AttemptsWithinLimit
    <3>2. ASSUME NEW v \in Workers
          PROVE  BatchOK(v)'
      BY <2>5, AdvanceType DEF ClientError, Advance, Forget, dbVars, TypeOK, BatchOK
    <3>3. ASSUME NEW q \in Processes
          PROVE  LocksOK(q)'
      BY <2>5 DEF ClientError, Forget, dbVars, TypeOK, LocksOK
    <3> QED
      BY <3>1, <3>2, <3>3
  <2>6. CASE CommitBatch(w)
    <3>1. \A t \in rows[w] : Attempted(w, t) \in 1 .. MaxReportAttempts
      BY DEF Attempted, TypeOK, BatchOK
    <3>2. TypeOK'
      BY <2>6, <3>1, AdvanceType, ReleaseLocks
         DEF CommitBatch, Flushed, Forget, NewAttempts, NewStatus, Statuses, TypeOK
    <3>3. AttemptsWithinLimit'
      BY <2>6, <3>1
         DEF CommitBatch, NewAttempts, NewStatus, Exhausted, TypeOK, AttemptsWithinLimit
    <3>4. ASSUME NEW v \in Workers
          PROVE  BatchOK(v)'
      BY <2>6 DEF CommitBatch, Advance, Forget, TypeOK, BatchOK
    <3>5. ASSUME NEW q \in Processes
          PROVE  LocksOK(q)'
      BY <2>6, ReleaseLocks DEF CommitBatch, Forget, TypeOK, LocksOK
    <3> QED
      BY <3>2, <3>3, <3>4, <3>5
  <2>7. ASSUME Leave(w), queue' \in Nat
        PROVE  Inv'
    <3>1. TypeOK' /\ AttemptsWithinLimit'
      BY <2>7, ReleaseLocks DEF Leave, Forget, TypeOK, AttemptsWithinLimit
    <3>2. ASSUME NEW v \in Workers
          PROVE  BatchOK(v)'
      BY <2>7 DEF Leave, Forget, TypeOK, BatchOK
    <3>3. ASSUME NEW q \in Processes
          PROVE  LocksOK(q)'
      BY <2>7, ReleaseLocks DEF Leave, Forget, TypeOK, LocksOK
    <3> QED
      BY <3>1, <3>2, <3>3
  <2>8. CASE EndRun(w)
    BY <2>7, <2>8 DEF EndRun, TypeOK
  <2>9. CASE RunFails(w)
    BY <2>7, <2>9 DEF RunFails, TypeOK
  <2>10. CASE Crash(w)
    BY <2>7, <2>10 DEF Crash, TypeOK
  <2> QED
    BY <1>4, <2>1, <2>2, <2>3, <2>4, <2>5, <2>6, <2>8, <2>9, <2>10 DEF WorkerNext
<1>5. ASSUME NEW p \in Requests \cup Editors, RequestDone(p),
             status' \in [Tasks -> Statuses],
             \A t \in Tasks : status'[t] \in {status[t], "completed"}
      PROVE  Inv'
  <2>1. TypeOK' /\ AttemptsWithinLimit'
    BY <1>5, ReleaseLocks DEF RequestDone, runVars, TypeOK, AttemptsWithinLimit
  <2>2. ASSUME NEW v \in Workers
        PROVE  BatchOK(v)'
    BY <1>5 DEF RequestDone, runVars, TypeOK, BatchOK
  <2>3. ASSUME NEW q \in Processes
        PROVE  LocksOK(q)'
    BY <1>5, ReleaseLocks DEF RequestDone, TypeOK, LocksOK
  <2> QED
    BY <2>1, <2>2, <2>3
<1>6. ASSUME NEW r \in Requests, RequestNext(r)
      PROVE  Inv'
  <2>1. CASE CreateTasks(r)
    <3>1. TypeOK' /\ AttemptsWithinLimit'
      BY <2>1 DEF CreateTasks, Insert, Absent, runVars, Statuses, TypeOK, AttemptsWithinLimit
    <3>2. ASSUME NEW v \in Workers
          PROVE  BatchOK(v)'
      BY <2>1 DEF CreateTasks, runVars, TypeOK, BatchOK
    <3>3. ASSUME NEW q \in Processes
          PROVE  LocksOK(q)'
      BY <2>1 DEF CreateTasks, Insert, TypeOK, LocksOK
    <3> QED
      BY <3>1, <3>2, <3>3
  <2>2. CASE ReportsForRequest(r)
    <3>1. TypeOK' /\ AttemptsWithinLimit' /\ \A v \in Workers : BatchOK(v)'
      BY <2>2 DEF ReportsForRequest, dbVars, runVars, TypeOK, AttemptsWithinLimit, BatchOK
    <3>2. ASSUME NEW q \in Processes
          PROVE  LocksOK(q)'
      BY <2>2 DEF ReportsForRequest, dbVars, TypeOK, LocksOK
    <3> QED
      BY <3>1, <3>2
  <2>3. CASE CommitReports(r)
    BY <1>5, <2>3 DEF CommitReports, TypeOK, Statuses
  <2>4. CASE RequestFails(r)
    BY <1>5, <2>4 DEF RequestFails, TypeOK
  <2> QED
    BY <1>6, <2>1, <2>2, <2>3, <2>4 DEF RequestNext
<1>7. ASSUME NEW e \in Editors, EditorNext(e)
      PROVE  Inv'
  <2>1. CASE Edit(e)
    <3>1. TypeOK' /\ AttemptsWithinLimit' /\ \A v \in Workers : BatchOK(v)'
      BY <2>1 DEF Edit, dbVars, runVars, TypeOK, AttemptsWithinLimit, BatchOK
    <3>2. ASSUME NEW q \in Processes
          PROVE  LocksOK(q)'
      BY <2>1 DEF Edit, dbVars, TypeOK, LocksOK
    <3> QED
      BY <3>1, <3>2
  <2>2. CASE EditCommits(e)
    BY <1>5, <2>2 DEF EditCommits, TypeOK
  <2>3. CASE EditFails(e)
    BY <1>5, <2>3 DEF EditFails, TypeOK
  <2> QED
    BY <1>7, <2>1, <2>2, <2>3 DEF EditorNext
<1>8. CASE UNCHANGED vars
  BY <1>8 DEF vars, dbVars, runVars, TypeOK, AttemptsWithinLimit, BatchOK, LocksOK
<1> QED
  BY <1>1, <1>2, <1>3, <1>4, <1>6, <1>7, <1>8 DEF Next

LEMMA Invariance == Spec => []Inv
BY InitInv, NextInv, PTL DEF Spec

\* Every variable of the database, the broker and the processes keeps its type.
THEOREM TypeCorrect == Spec => []TypeOK
<1>1. Inv => TypeOK
  BY DEF Inv
<1> QED
  BY <1>1, Invariance, PTL

\* No task is tried more often than the limit or left pending when its attempts
\* are used up, however many runs overlap.
THEOREM AttemptsBounded == Spec => []AttemptsWithinLimit
<1>1. Inv => AttemptsWithinLimit
  BY DEF Inv
<1> QED
  BY <1>1, Invariance, PTL

\* No row lock is held across a call of the report service.
THEOREM LocksShort == Spec => []NoLockAcrossRemoteCall
<1>1. Inv => NoLockAcrossRemoteCall
  BY DEF Inv, LocksOK, NoLockAcrossRemoteCall
<1> QED
  BY <1>1, Invariance, PTL

LEMMA LessIsWellFounded ==
  \E R : IsWellFoundedOn(R, Nat) /\ \A i, j \in Nat : <<i, j>> \in R <=> i < j
<1>1. IsWellFoundedOn(OpToRel(<, Nat), Nat)
  BY NatLessThanWellFounded
<1>2. \A i, j \in Nat : <<i, j>> \in OpToRel(<, Nat) <=> i < j
  BY DEF OpToRel
<1> QED
  BY <1>1, <1>2

\* A bounded set of ids has a greatest one: the least of its bounds.
LEMMA Greatest ==
  ASSUME NEW A \in SUBSET Nat, A # {}, NEW last \in Nat, \A a \in A : a <= last
  PROVE  \E m \in A : \A a \in A : a <= m
<1> DEFINE B == {b \in Nat : \A a \in A : a <= b}
<1>1. PICK R : IsWellFoundedOn(R, Nat) /\ \A i, j \in Nat : <<i, j>> \in R <=> i < j
  BY LessIsWellFounded
<1>2. B \subseteq Nat /\ B # {}
  OBVIOUS
<1>3. PICK m \in B : \A b \in B : <<b, m>> \notin R
  BY <1>1, <1>2, WFMin
<1>4. \A b \in B : ~(b < m)
  BY <1>1, <1>3
<1>5. CASE m \notin A
  <2>1. PICK a \in A : TRUE
    OBVIOUS
  <2>2. \A x \in A : x < m
    BY <1>5
  <2>3. m - 1 \in Nat
    BY <2>1, <2>2
  <2>4. m - 1 \in B
    BY <2>2, <2>3
  <2> QED
    BY <1>4, <2>3, <2>4
<1> QED
  BY <1>5

\* An id is a UUID, a number of 128 bits.
BoundedIds == \E last \in Nat : \A t \in Tasks : t <= last

\* Of the rows that are waited for in a circle of transactions take the last one.
\* Its holder has all its rows below it, so the row that the holder waits for
\* would be a later one.
LEMMA NoCycle ==
  ASSUME BoundedIds, Inv
  PROVE  NoWaitCycle
<1> SUFFICES ASSUME NEW S \in SUBSET Processes, S # {},
                    \A p \in S : \E q \in S : WaitsFor(p, q)
             PROVE  FALSE
  BY DEF NoWaitCycle
<1> DEFINE A == {t \in Tasks : \E p, q \in S :
                   pc[p] = "flush" /\ RowTurn(p, t) /\ lock[t] = q /\ q # p}
<1>1. ASSUME NEW p \in S
      PROVE  \E t \in A, q \in S : pc[p] = "flush" /\ RowTurn(p, t) /\ lock[t] = q /\ q # p
  BY DEF WaitsFor
<1>2. A \subseteq Nat /\ A # {}
  BY <1>1, SyncAssumption
<1>3. PICK last \in Nat : \A t \in Tasks : t <= last
  BY DEF BoundedIds
<1>4. PICK m \in A : \A t \in A : t <= m
  <2>1. \A t \in A : t <= last
    BY <1>3
  <2> HIDE DEF A
  <2> QED
    BY <1>2, <2>1, Greatest
<1>5. PICK q \in S : lock[m] = q
  OBVIOUS
<1>6. PICK t \in A : pc[q] = "flush" /\ RowTurn(q, t) /\ lock[t] # q
  BY <1>1
<1>7. t <= m /\ t \in Nat /\ m \in Nat
  BY <1>2, <1>4
<1>8. \A u \in rows[q] : u < m => lock[u] = q
  BY <1>5, <1>6 DEF Inv, LocksOK
<1>9. t # m /\ t \in rows[q]
  BY <1>5, <1>6 DEF RowTurn
<1> QED
  BY <1>6, <1>7, <1>8, <1>9

\* However many transactions update the rows, they never wait for each other in a
\* circle: each has got its locks in the order of the rows.
THEOREM DeadlockFree ==
  ASSUME BoundedIds
  PROVE  Spec => []NoWaitCycle
<1>1. Inv => NoWaitCycle
  BY BoundedIds, NoCycle
<1> QED
  BY <1>1, Invariance, PTL

-----------------------------------------------------------------------------

(* What a step may do to the report of a task. *)

\* The only steps that change report_status or attempts.
LEMMA WritersOfReports ==
  ASSUME Inv, [Next]_vars
  PROVE  \/ \E T \in SUBSET Absent : Insert(T)
         \/ \E w \in Workers : CommitBatch(w)
         \/ \E r \in Requests : CommitReports(r)
         \/ UNCHANGED <<status, attempts>>
<1>1. ASSUME NEW w \in Workers, WorkerNext(w)
      PROVE  CommitBatch(w) \/ UNCHANGED <<status, attempts>>
  BY <1>1 DEF WorkerNext, Take, FetchNextBatch, CommitFetch, Reports, ClientError,
              EndRun, RunFails, Crash, Leave, dbVars
<1>2. ASSUME NEW r \in Requests, RequestNext(r)
      PROVE  \/ \E T \in SUBSET Absent : Insert(T)
             \/ CommitReports(r)
             \/ UNCHANGED <<status, attempts>>
  BY <1>2 DEF RequestNext, CreateTasks, ReportsForRequest, RequestFails, RequestDone, dbVars
<1>3. ASSUME NEW e \in Editors, EditorNext(e)
      PROVE  UNCHANGED <<status, attempts>>
  BY <1>3 DEF EditorNext, Edit, EditCommits, EditFails, RequestDone, dbVars
<1>4. CASE AddTasks
  BY <1>4 DEF AddTasks
<1>5. ASSUME Beat \/ UNCHANGED vars \/ \E p \in Processes, t \in Tasks : LockRow(p, t)
      PROVE  UNCHANGED <<status, attempts>>
  BY <1>5 DEF Beat, LockRow, vars, dbVars
<1> QED
  BY <1>1, <1>2, <1>3, <1>4, <1>5 DEF Next

\* A task whose report has arrived or failed is never pending again.
THEOREM ResolvedForGood == Spec => ResolvedStaysResolved
<1>1. Inv /\ [Next]_vars =>
        [\A t \in Tasks : status[t] \in {"completed", "failed"} =>
           status'[t] \in {"completed", "failed"}]_vars
  <2> SUFFICES ASSUME Inv, [Next]_vars, NEW t \in Tasks,
                      status[t] \in {"completed", "failed"}
               PROVE  status'[t] \in {"completed", "failed"}
    OBVIOUS
  <2>1. ASSUME NEW T \in SUBSET Absent, Insert(T)
        PROVE  status'[t] \in {"completed", "failed"}
    BY <2>1 DEF Insert, Absent
  <2>2. ASSUME NEW w \in Workers, CommitBatch(w)
        PROVE  status'[t] \in {"completed", "failed"}
    BY <2>2 DEF CommitBatch, NewStatus
  <2>3. ASSUME NEW r \in Requests, CommitReports(r)
        PROVE  status'[t] \in {"completed", "failed"}
    BY <2>3 DEF CommitReports
  <2> QED
    BY <2>1, <2>2, <2>3, WritersOfReports
<1> QED
  BY <1>1, Invariance, PTL DEF Spec, ResolvedStaysResolved

\* A completed report is overwritten only by a run that loaded the task one
\* attempt before the limit and got no report for it.
THEOREM CompletedLost == Spec => CompletedLostToLastMissOnly
<1>1. Inv /\ [Next]_vars =>
        [\A t \in Tasks : status[t] = "completed" /\ status'[t] # "completed" =>
           status'[t] = "failed" /\ LastMissDue(t)]_vars
  <2> SUFFICES ASSUME Inv, [Next]_vars, NEW t \in Tasks,
                      status[t] = "completed", status'[t] # "completed"
               PROVE  status'[t] = "failed" /\ LastMissDue(t)
    OBVIOUS
  <2>1. ~ \E T \in SUBSET Absent : Insert(T)
    BY DEF Insert, Absent
  <2>2. ~ \E r \in Requests : CommitReports(r)
    BY DEF CommitReports
  <2>3. PICK w \in Workers : CommitBatch(w)
    BY <2>1, <2>2, WritersOfReports
  <2>4. t \in rows[w] /\ t \in missed[w] /\ Exhausted(w, t) /\ status'[t] = "failed"
    BY <2>3 DEF CommitBatch, NewStatus
  <2>5. loaded[w][t] \in 0 .. MaxReportAttempts - 1
    BY <2>4, SyncAssumption DEF Inv, TypeOK, BatchOK
  <2>6. loaded[w][t] = MaxReportAttempts - 1
    BY <2>4, <2>5, SyncAssumption DEF Exhausted, Attempted
  <2> QED
    BY <2>3, <2>4, <2>6 DEF CommitBatch, LastMissDue
<1> QED
  BY <1>1, Invariance, PTL DEF Spec, CompletedLostToLastMissOnly

-----------------------------------------------------------------------------

(* What a run has sent is behind it. *)

\* What a run has sent is behind its cursor, but for the batch that it is dealing
\* with; the batch is ahead of the cursor until then.
SentOK(w) ==
  /\ \A t \in sent[w] : t <= cursor[w] \/ (pc[w] \in {"call", "flush"} /\ t \in rows[w])
  /\ pc[w] \in {"fetched", "call", "flush"} => \A t \in rows[w] : t > cursor[w]

\* The batch is sent, or a new one is fetched.
LEMMA SentBatch ==
  ASSUME Inv, NEW w \in Workers, SentOK(w), FetchNextBatch(w) \/ CommitFetch(w) \/ Reports(w)
  PROVE  SentOK(w)'
<1> USE DEF Inv, TypeOK, Processes
<1>1. CASE FetchNextBatch(w)
  BY <1>1 DEF FetchNextBatch, Candidates, runVars, SentOK
<1>2. CASE CommitFetch(w)
  <2>1. /\ pc'[w] = "call" /\ rows' = rows /\ cursor' = cursor
        /\ sent'[w] = sent[w] \cup rows[w]
    BY <1>2 DEF CommitFetch
  <2> QED
    BY <1>2, <2>1 DEF CommitFetch, SentOK
<1>3. CASE Reports(w)
  BY <1>3 DEF Reports, runVars, SentOK
<1> QED
  BY <1>1, <1>2, <1>3

\* The cursor moves past a batch that is written or skipped.
LEMMA SentAdvance ==
  ASSUME Inv, NEW w \in Workers, SentOK(w), ClientError(w) \/ CommitBatch(w)
  PROVE  SentOK(w)'
<1> USE DEF Inv, TypeOK, Processes
<1>1. pc'[w] = "fetch" /\ UNCHANGED sent
  BY DEF ClientError, CommitBatch, Advance
<1>2. PICK last \in rows[w] :
        (\A t \in rows[w] : t <= last) /\ cursor' = [cursor EXCEPT ![w] = last]
  BY DEF ClientError, CommitBatch, Advance
<1>3. cursor'[w] = last
  BY <1>2
<1>4. rows[w] \subseteq Nat /\ sent[w] \subseteq Nat /\ cursor[w] \in Nat
  BY SyncAssumption
<1>5. pc[w] \in {"call", "flush"}
  BY DEF ClientError, CommitBatch, Flushed
<1>6. last > cursor[w]
  BY <1>5 DEF SentOK
<1>7. ASSUME NEW t \in sent[w]
      PROVE  t <= last
  BY <1>2, <1>4, <1>6, <1>7 DEF SentOK
<1> QED
  BY <1>1, <1>3, <1>7 DEF SentOK

LEMMA SentStep ==
  ASSUME Inv, [Next]_vars, NEW w \in Workers, SentOK(w)
  PROVE  SentOK(w)'
<1> USE SyncAssumption DEF Inv, TypeOK, Processes
<1> DEFINE Same == UNCHANGED <<pc[w], rows[w], cursor[w], sent[w]>>
<1>1. Same => SentOK(w)'
  BY DEF SentOK
<1>2. ASSUME NEW v \in Workers \ {w}, WorkerNext(v)
      PROVE  Same
  <2>1. CASE Take(v) \/ FetchNextBatch(v) \/ Reports(v)
    BY <2>1 DEF Take, FetchNextBatch, Reports, runVars
  <2>2. CASE CommitFetch(v)
    BY <2>2 DEF CommitFetch
  <2>3. CASE ClientError(v) \/ CommitBatch(v)
    BY <2>3 DEF ClientError, CommitBatch, Advance, Forget
  <2>4. CASE EndRun(v) \/ RunFails(v) \/ Crash(v)
    BY <2>4 DEF EndRun, RunFails, Crash, Leave, Forget
  <2> QED
    BY <1>2, <2>1, <2>2, <2>3, <2>4 DEF WorkerNext
<1>3. ASSUME WorkerNext(w)
      PROVE  SentOK(w)'
  <2>1. CASE Take(w)
    BY <2>1 DEF Take, runVars, SentOK
  <2>2. CASE EndRun(w) \/ RunFails(w) \/ Crash(w)
    BY <2>2 DEF EndRun, RunFails, Crash, Leave, Forget, SentOK
  <2> QED
    BY <1>3, <2>1, <2>2, SentBatch, SentAdvance DEF WorkerNext
<1>4. ASSUME NEW r \in Requests, RequestNext(r)
      PROVE  Same
  BY <1>4 DEF RequestNext, CreateTasks, ReportsForRequest, CommitReports,
              RequestFails, RequestDone, runVars
<1>5. ASSUME NEW e \in Editors, EditorNext(e)
      PROVE  Same
  BY <1>5 DEF EditorNext, Edit, EditCommits, EditFails, RequestDone, runVars
<1>6. ASSUME Beat \/ AddTasks \/ UNCHANGED vars
             \/ \E p \in Processes, t \in Tasks : LockRow(p, t)
      PROVE  Same
  BY <1>6 DEF Beat, AddTasks, LockRow, vars, runVars
<1> HIDE DEF Same
<1> QED
  BY <1>1, <1>2, <1>3, <1>4, <1>5, <1>6 DEF Next

\* A run sends no task twice, however many batches it writes or skips: a batch is
\* fetched ahead of the cursor, and all that was sent is behind it.
THEOREM SendsTaskOnce == Spec => []RunSendsTaskOnce
<1> DEFINE SentInv == \A w \in Workers : SentOK(w)
<1>1. Init => SentInv
  BY DEF Init, SentOK, Processes
<1>2. Inv /\ SentInv /\ [Next]_vars => SentInv'
  BY SentStep
<1>3. Inv /\ SentInv => RunSendsTaskOnce
  <2> SUFFICES ASSUME Inv, SentInv, NEW w \in Workers, pc[w] = "fetched",
                      NEW t \in rows[w], t \in sent[w]
               PROVE  FALSE
    BY DEF RunSendsTaskOnce
  <2>1. t > cursor[w] /\ t <= cursor[w]
    BY DEF SentOK
  <2>2. t \in Nat /\ cursor[w] \in Nat
    BY SyncAssumption DEF Inv, TypeOK, Processes
  <2> QED
    BY <2>1, <2>2
<1> HIDE DEF SentInv
<1> QED
  BY <1>1, <1>2, <1>3, Invariance, PTL DEF Spec

-----------------------------------------------------------------------------

(* The variant of a run: the safety half of RunEnds. *)

\* The steps that a run has behind it: four for each batch.
Behind(w) ==
  4 * batchCount[w] + (IF pc[w] = "flush" THEN 3
                       ELSE IF pc[w] = "call" THEN 2
                       ELSE IF pc[w] = "fetched" THEN 1 ELSE 0)

RunGoesOn ==
  [][\A w \in Workers :
       pc[w] # "idle" /\ pc'[w] # "idle" =>
         \/ UNCHANGED <<pc[w], batchCount[w]>>
         \/ Behind(w)' > Behind(w) /\ Behind(w)' <= 4 * MaxBatchCount]_vars

\* Every step of a run brings it nearer to its end, a skipped batch included, and
\* no step of another process sets it back; there are at most 4 * MaxBatchCount
\* of them, besides the locks of the rows of each batch.
THEOREM RunProgress == Spec => RunGoesOn
<1> DEFINE Step(w) == \/ UNCHANGED <<pc[w], batchCount[w]>>
                      \/ Behind(w)' > Behind(w) /\ Behind(w)' <= 4 * MaxBatchCount
<1>1. ASSUME Inv, Next, NEW w \in Workers, pc[w] # "idle", pc'[w] # "idle"
      PROVE  Step(w)
  <2> USE SyncAssumption DEF Inv, TypeOK, Processes
  <2>1. ASSUME NEW v \in Workers, WorkerNext(v), v # w
        PROVE  UNCHANGED <<pc[w], batchCount[w]>>
    <3>1. \E s : pc' = [pc EXCEPT ![v] = s]
      BY <2>1 DEF WorkerNext, Take, FetchNextBatch, CommitFetch, Reports, ClientError,
                  CommitBatch, EndRun, RunFails, Crash, Leave
    <3>2. CASE Take(v) \/ FetchNextBatch(v) \/ CommitFetch(v) \/ Reports(v)
      <4>1. UNCHANGED batchCount
        BY <3>2 DEF Take, FetchNextBatch, CommitFetch, Reports, runVars
      <4> QED
        BY <2>1, <3>1, <4>1
    <3>3. CASE ClientError(v) \/ CommitBatch(v)
      <4>1. batchCount' = [batchCount EXCEPT ![v] = @ + 1]
        BY <3>3 DEF ClientError, CommitBatch, Advance
      <4> QED
        BY <2>1, <3>1, <4>1
    <3>4. CASE EndRun(v) \/ RunFails(v) \/ Crash(v)
      <4>1. batchCount' = [batchCount EXCEPT ![v] = 0]
        BY <3>4 DEF EndRun, RunFails, Crash, Leave
      <4> QED
        BY <2>1, <3>1, <4>1
    <3> QED
      BY <2>1, <3>2, <3>3, <3>4 DEF WorkerNext
  <2>2. CASE WorkerNext(w)
    <3>1. CASE FetchNextBatch(w)
      BY <1>1, <3>1 DEF FetchNextBatch, BatchesLeft, runVars, Behind
    <3>2. CASE CommitFetch(w) \/ Reports(w)
      BY <1>1, <3>2 DEF CommitFetch, Reports, BatchOK, runVars, Behind
    <3>3. CASE ClientError(w)
      BY <1>1, <3>3 DEF ClientError, BatchOK, Advance, Behind
    <3>4. CASE CommitBatch(w)
      BY <1>1, <3>4 DEF CommitBatch, Flushed, BatchOK, Advance, Behind
    <3>5. CASE Take(w) \/ EndRun(w) \/ RunFails(w) \/ Crash(w)
      BY <1>1, <3>5 DEF Take, EndRun, RunFails, Crash, Leave
    <3> QED
      BY <2>2, <3>1, <3>2, <3>3, <3>4, <3>5 DEF WorkerNext
  <2>3. ASSUME NEW r \in Requests, RequestNext(r)
        PROVE  UNCHANGED <<pc[w], batchCount[w]>>
    <3>1. r # w /\ w \in Processes /\ r \in Processes
      OBVIOUS
    <3>2. \E s : pc' = [pc EXCEPT ![r] = s]
      BY <2>3 DEF RequestNext, CreateTasks, ReportsForRequest, CommitReports,
                  RequestFails, RequestDone
    <3>3. UNCHANGED batchCount
      BY <2>3 DEF RequestNext, CreateTasks, ReportsForRequest, CommitReports,
                  RequestFails, RequestDone, runVars
    <3> QED
      BY <3>1, <3>2, <3>3
  <2>4. ASSUME NEW e \in Editors, EditorNext(e)
        PROVE  UNCHANGED <<pc[w], batchCount[w]>>
    <3>1. e # w /\ w \in Processes /\ e \in Processes
      OBVIOUS
    <3>2. \E s : pc' = [pc EXCEPT ![e] = s]
      BY <2>4 DEF EditorNext, Edit, EditCommits, EditFails, RequestDone
    <3>3. UNCHANGED batchCount
      BY <2>4 DEF EditorNext, Edit, EditCommits, EditFails, RequestDone, runVars
    <3> QED
      BY <3>1, <3>2, <3>3
  <2>5. CASE Beat \/ AddTasks \/ \E p \in Processes, t \in Tasks : LockRow(p, t)
    BY <2>5 DEF Beat, AddTasks, LockRow, runVars
  <2> QED
    BY <1>1, <2>1, <2>2, <2>3, <2>4, <2>5 DEF Next
<1>2. Inv /\ [Next]_vars =>
        [\A w \in Workers : pc[w] # "idle" /\ pc'[w] # "idle" => Step(w)]_vars
  BY <1>1
<1> QED
  BY <1>2, Invariance, PTL DEF Spec, RunGoesOn

-----------------------------------------------------------------------------

(* One run at a time: the attempts in the session are those in the database. *)

OneWorker == \A v, w \in Workers : v = w

\* Nobody but the run itself changes the attempts of its batch or fails a task
\* of it; a POST may complete one.
FreshBatch(w) ==
  \A t \in rows[w] :
    /\ loaded[w][t] = attempts[t]
    /\ status[t] \in {"pending", "completed"}

SingleInv ==
  /\ FailedMeansExhausted
  /\ \A w \in Workers : FreshBatch(w)

\* A batch changes hands with its session: a step leaves it as it is, drops it
\* or fetches it afresh.
LEMMA BatchChanges ==
  ASSUME Inv, [Next]_vars, NEW w \in Workers
  PROVE  \/ rows'[w] = {}
         \/ /\ UNCHANGED <<status, attempts>>
            /\ \A t \in rows'[w] : status[t] = "pending" /\ loaded'[w][t] = attempts[t]
         \/ rows'[w] = rows[w] /\ loaded'[w] = loaded[w]
<1> DEFINE Goal == \/ rows'[w] = {}
                   \/ /\ UNCHANGED <<status, attempts>>
                      /\ \A t \in rows'[w] :
                           status[t] = "pending" /\ loaded'[w][t] = attempts[t]
                   \/ rows'[w] = rows[w] /\ loaded'[w] = loaded[w]
<1> USE SyncAssumption DEF Inv, TypeOK, Processes
<1>1. ASSUME NEW v \in Workers, WorkerNext(v)
      PROVE  Goal
  <2>1. CASE FetchNextBatch(v)
    <3>1. CASE v # w
      BY <2>1, <3>1 DEF FetchNextBatch
    <3>2. CASE v = w
      BY <2>1, <3>2 DEF FetchNextBatch, Candidates
    <3> QED
      BY <3>1, <3>2
  <2>2. CASE Take(v) \/ CommitFetch(v) \/ Reports(v)
    BY <2>2 DEF Take, CommitFetch, Reports
  <2>3. CASE ClientError(v) \/ CommitBatch(v) \/ EndRun(v) \/ RunFails(v) \/ Crash(v)
    BY <2>3 DEF ClientError, CommitBatch, EndRun, RunFails, Crash, Leave, Forget
  <2> QED
    BY <1>1, <2>1, <2>2, <2>3 DEF WorkerNext
<1>2. ASSUME NEW r \in Requests, RequestNext(r)
      PROVE  Goal
  BY <1>2 DEF RequestNext, CreateTasks, ReportsForRequest, CommitReports,
              RequestFails, RequestDone
<1>3. ASSUME NEW e \in Editors, EditorNext(e)
      PROVE  Goal
  BY <1>3 DEF EditorNext, Edit, EditCommits, EditFails, RequestDone
<1>4. ASSUME Beat \/ AddTasks \/ UNCHANGED vars
             \/ \E p \in Processes, t \in Tasks : LockRow(p, t)
      PROVE  Goal
  BY <1>4 DEF Beat, AddTasks, LockRow, vars
<1> QED
  BY <1>1, <1>2, <1>3, <1>4 DEF Next

LEMMA NextSingleInv ==
  ASSUME OneWorker, Inv, SingleInv, [Next]_vars
  PROVE  SingleInv'
<1> USE SyncAssumption DEF Inv, TypeOK, SingleInv, Processes
<1>0. ASSUME NEW w \in Workers, attempts' = attempts,
             \A t \in rows[w] : status'[t] \in {status[t], "completed"}
      PROVE  FreshBatch(w)'
  <2>1. CASE rows'[w] = {}
    BY <2>1 DEF FreshBatch
  <2>2. CASE /\ UNCHANGED <<status, attempts>>
             /\ \A t \in rows'[w] : status[t] = "pending" /\ loaded'[w][t] = attempts[t]
    BY <2>2 DEF FreshBatch
  <2>3. CASE rows'[w] = rows[w] /\ loaded'[w] = loaded[w]
    <3>1. ASSUME NEW t \in rows[w]
          PROVE  /\ loaded'[w][t] = attempts'[t]
                 /\ status'[t] \in {"pending", "completed"}
      <4>1. /\ loaded[w][t] = attempts[t]
            /\ status[t] \in {"pending", "completed"}
        BY DEF FreshBatch
      <4> QED
        BY <1>0, <2>3, <4>1
    <3> QED
      BY <2>3, <3>1 DEF FreshBatch
  <2> QED
    BY <2>1, <2>2, <2>3, BatchChanges
<1>1. ASSUME NEW T \in SUBSET Absent, Insert(T)
      PROVE  SingleInv'
  <2>1. FailedMeansExhausted'
    BY <1>1 DEF Insert, FailedMeansExhausted
  <2>2. ASSUME NEW w \in Workers, NEW t \in rows[w]
        PROVE  status'[t] = status[t]
    BY <1>1, <2>2 DEF Insert, Absent, FreshBatch
  <2>3. attempts' = attempts
    BY <1>1 DEF Insert
  <2> QED
    BY <1>0, <2>1, <2>2, <2>3
<1>2. ASSUME NEW w \in Workers, CommitBatch(w)
      PROVE  SingleInv'
  <2>1. ASSUME NEW t \in Tasks, status'[t] = "failed"
        PROVE  attempts'[t] = MaxReportAttempts
    <3>1. CASE t \in rows[w]
      <4>1. loaded[w][t] \in 0 .. MaxReportAttempts - 1 /\ status[t] # "failed"
        BY <3>1 DEF BatchOK, FreshBatch
      <4>2. t \in missed[w] /\ Exhausted(w, t)
        BY <1>2, <2>1, <3>1, <4>1 DEF CommitBatch, NewStatus
      <4>3. attempts'[t] = Attempted(w, t)
        BY <1>2, <3>1, <4>2 DEF CommitBatch, NewAttempts
      <4> QED
        BY <4>1, <4>2, <4>3 DEF Exhausted, Attempted
    <3>2. CASE t \notin rows[w]
      BY <1>2, <2>1, <3>2 DEF CommitBatch, FailedMeansExhausted
    <3> QED
      BY <3>1, <3>2
  <2>2. rows'[w] = {}
    BY <1>2 DEF CommitBatch, Forget
  <2> QED
    BY <2>1, <2>2, OneWorker DEF OneWorker, FreshBatch, FailedMeansExhausted
<1>3. ASSUME NEW r \in Requests, CommitReports(r)
      PROVE  SingleInv'
  <2>1. /\ attempts' = attempts
        /\ \A t \in Tasks : status'[t] \in {status[t], "completed"}
    BY <1>3 DEF CommitReports, RequestDone
  <2>2. FailedMeansExhausted'
    BY <2>1 DEF FailedMeansExhausted
  <2>3. \A w \in Workers : rows[w] \subseteq Tasks
    OBVIOUS
  <2> QED
    BY <1>0, <2>1, <2>2, <2>3
<1>4. CASE UNCHANGED <<status, attempts>>
  BY <1>0, <1>4 DEF FailedMeansExhausted
<1> QED
  BY <1>1, <1>2, <1>3, <1>4, WritersOfReports

LEMMA SingleInvariance ==
  ASSUME OneWorker
  PROVE  Spec => []SingleInv
<1>1. Init => SingleInv
  BY DEF Init, SingleInv, FailedMeansExhausted, FreshBatch, Processes
<1>2. Inv /\ SingleInv /\ [Next]_vars => SingleInv'
  BY OneWorker, NextSingleInv
<1> QED
  BY <1>1, <1>2, Invariance, PTL DEF Spec

\* With one sync run at a time a failed task has used up all its attempts, also
\* when POST requests and edits write the same rows.
THEOREM FailedExhausted ==
  ASSUME OneWorker
  PROVE  Spec => []FailedMeansExhausted
<1>1. SingleInv => FailedMeansExhausted
  BY DEF SingleInv
<1> QED
  BY <1>1, SingleInvariance, OneWorker, PTL

\* A process works on rows that are in the table.
RowsStored == \A p \in Processes : \A t \in rows[p] : status[t] # "absent"

LEMMA RowsStoredStep ==
  ASSUME Inv, RowsStored, [Next]_vars
  PROVE  RowsStored'
<1> USE SyncAssumption DEF Inv, TypeOK, Processes
<1>1. ASSUME NEW t \in Tasks, status[t] # "absent"
      PROVE  status'[t] # "absent"
  BY <1>1, WritersOfReports DEF Insert, Absent, CommitBatch, NewStatus, CommitReports
<1>2. ASSUME NEW r \in Requests, RequestNext(r), NEW p \in Processes, NEW t \in rows'[p],
             t \notin rows[p]
      PROVE  status'[t] # "absent"
  <2>1. PICK T \in SUBSET Absent : Insert(T) /\ rows' = [rows EXCEPT ![r] = T]
    BY <1>2 DEF RequestNext, CreateTasks, ReportsForRequest, CommitReports,
                RequestFails, RequestDone
  <2>2. t \in T /\ t \in Tasks
    BY <1>2, <2>1 DEF Absent
  <2> QED
    BY <2>1, <2>2 DEF Insert
<1>3. ASSUME NEW e \in Editors, EditorNext(e), NEW p \in Processes, NEW t \in rows'[p],
             t \notin rows[p]
      PROVE  t \in Tasks /\ status[t] # "absent"
  <2>1. PICK T \in SUBSET (Tasks \ Absent) : rows' = [rows EXCEPT ![e] = T]
    BY <1>3 DEF EditorNext, Edit, EditCommits, EditFails, RequestDone
  <2> QED
    BY <1>3, <2>1 DEF Absent
<1>4. ASSUME NEW w \in Workers, WorkerNext(w), NEW p \in Processes, NEW t \in rows'[p],
             t \notin rows[p]
      PROVE  t \in Tasks /\ status[t] # "absent"
  <2>1. CASE FetchNextBatch(w)
    BY <1>4, <2>1 DEF FetchNextBatch, Candidates
  <2>2. CASE Take(w) \/ CommitFetch(w) \/ Reports(w)
    BY <1>4, <2>2 DEF Take, CommitFetch, Reports
  <2>3. CASE ClientError(w) \/ CommitBatch(w) \/ EndRun(w) \/ RunFails(w) \/ Crash(w)
    <3>1. rows' = [rows EXCEPT ![w] = {}]
      BY <2>3 DEF ClientError, CommitBatch, EndRun, RunFails, Crash, Leave, Forget
    <3> QED
      BY <1>4, <3>1
  <2> QED
    BY <1>4, <2>1, <2>2, <2>3 DEF WorkerNext
<1>5. ASSUME Beat \/ AddTasks \/ UNCHANGED vars
             \/ \E p \in Processes, t \in Tasks : LockRow(p, t)
      PROVE  rows' = rows
  BY <1>5 DEF Beat, AddTasks, LockRow, vars
<1>6. ASSUME NEW p \in Processes, NEW t \in rows'[p]
      PROVE  status'[t] # "absent"
  <2>1. CASE t \in rows[p]
    BY <1>1, <2>1 DEF RowsStored
  <2>2. CASE t \notin rows[p]
    <3>1. CASE \E r \in Requests : RequestNext(r)
      BY <1>2, <1>6, <2>2, <3>1
    <3>2. CASE \E e \in Editors : EditorNext(e)
      BY <1>1, <1>3, <1>6, <2>2, <3>2
    <3>3. CASE \E w \in Workers : WorkerNext(w)
      BY <1>1, <1>4, <1>6, <2>2, <3>3
    <3>4. CASE Beat \/ AddTasks \/ UNCHANGED vars
               \/ \E q \in Processes, u \in Tasks : LockRow(q, u)
      BY <1>5, <1>6, <2>2, <3>4
    <3> QED
      BY <3>1, <3>2, <3>3, <3>4 DEF Next
  <2> QED
    BY <2>1, <2>2
<1> QED
  BY <1>6 DEF RowsStored

\* With one sync run at a time the synchronisation implements the safety part of
\* TaskLifecycle, whatever POST requests write to the same rows meanwhile: every
\* committed batch settles its tasks and counts their misses, exactly.
THEOREM ImplementsLifecycle ==
  ASSUME OneWorker
  PROVE  Spec => Lifecycle!SafeSpec
<1>1. Init => Lifecycle!Init /\ RowsStored
  BY DEF Init, Lifecycle!Init, RowsStored
<1>2. ASSUME Inv, SingleInv, RowsStored, [Next]_vars
      PROVE  [Lifecycle!Next]_(Lifecycle!vars)
  <2> USE <1>2, SyncAssumption DEF Inv, TypeOK
  <2>1. ASSUME NEW T \in SUBSET Absent, Insert(T)
        PROVE  Lifecycle!Next
    <3>1. T \in SUBSET Tasks /\ Lifecycle!Insert(T)
      BY <2>1 DEF Insert, Absent, Lifecycle!Insert
    <3> QED
      BY <3>1 DEF Lifecycle!Next
  <2>2. ASSUME NEW w \in Workers, CommitBatch(w)
        PROVE  Lifecycle!Next
    <3> DEFINE done == rows[w] \ missed[w]
               missing == missed[w]
    <3>1. done \in SUBSET Tasks /\ missing \in SUBSET Tasks /\ done \cap missing = {}
      BY DEF Processes
    <3>2. /\ missing \subseteq rows[w]
          /\ rows[w] \subseteq Tasks
          /\ \A t \in rows[w] : /\ status[t] \in {"pending", "completed"}
                               /\ loaded[w][t] = attempts[t]
                               /\ attempts[t] \in 0 .. MaxReportAttempts - 1
      BY DEF BatchOK, SingleInv, FreshBatch, Processes
    <3>3. attempts' = [t \in Tasks |->
                         IF t \in missing THEN attempts[t] + 1 ELSE attempts[t]]
      BY <2>2, <3>2 DEF CommitBatch, NewAttempts, Attempted
    <3>4. status' =
            [t \in Tasks |->
               IF t \in done THEN "completed"
               ELSE IF t \in missing /\ attempts'[t] = MaxReportAttempts THEN "failed"
               ELSE status[t]]
      BY <2>2, <3>2, <3>3 DEF CommitBatch, NewStatus, Exhausted, Attempted
    <3>5. Lifecycle!Settle(done, missing)
      BY <3>1, <3>2, <3>3, <3>4 DEF Lifecycle!Settle
    <3> QED
      BY <3>1, <3>5 DEF Lifecycle!Next
  <2>3. ASSUME NEW r \in Requests, CommitReports(r)
        PROVE  Lifecycle!Next
    <3>1. rows[r] \in SUBSET Tasks /\ \A t \in rows[r] : status[t] # "absent"
      BY DEF Processes, RowsStored
    <3>2. Lifecycle!Report(rows[r])
      BY <2>3, <3>1 DEF CommitReports, RequestDone, Lifecycle!Report
    <3> QED
      BY <3>1, <3>2 DEF Lifecycle!Next
  <2> QED
    BY <2>1, <2>2, <2>3, WritersOfReports DEF Lifecycle!vars
<1>3. Inv /\ RowsStored /\ [Next]_vars => RowsStored'
  BY RowsStoredStep
<1> QED
  BY <1>1, <1>2, <1>3, Invariance, SingleInvariance, OneWorker, PTL
     DEF Spec, Lifecycle!SafeSpec

=============================================================================
