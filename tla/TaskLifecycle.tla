--------------------------- MODULE TaskLifecycle ---------------------------
(***************************************************************************)
(* What the synchronisation promises about each task to those who read its *)
(* report, while POST requests report tasks as well: a task starts pending *)
(* with no attempts, every answer to a sync run settles a whole batch at   *)
(* once, each miss uses up one of MaxReportAttempts attempts, the last one *)
(* fails the task and nothing else does, and no task is pending again.  In *)
(* the end every pending task is resolved.                                 *)
(***************************************************************************)
EXTENDS Integers

CONSTANTS
  Tasks,
  MaxReportAttempts

VARIABLES
  status,     \* "absent", "pending", "completed" or "failed", for each task
  attempts    \* the answers that had no report for the task

vars == <<status, attempts>>

Init ==
  /\ status = [t \in Tasks |-> "absent"]
  /\ attempts = [t \in Tasks |-> 0]

\* Tasks are added.
Insert(T) ==
  /\ \A t \in T : status[t] = "absent"
  /\ status' = [t \in Tasks |-> IF t \in T THEN "pending" ELSE status[t]]
  /\ UNCHANGED attempts

\* A POST has got the reports of its tasks.
Report(T) ==
  /\ \A t \in T : status[t] # "absent"
  /\ status' = [t \in Tasks |-> IF t \in T THEN "completed" ELSE status[t]]
  /\ UNCHANGED attempts

\* A batch is settled: done got a report, missing did not.  A POST may have
\* completed tasks of it that were pending when the batch was sent.
Settle(done, missing) ==
  /\ done \cap missing = {}
  /\ \A t \in done \cup missing : status[t] \in {"pending", "completed"}
  /\ attempts' =
       [t \in Tasks |-> IF t \in missing THEN attempts[t] + 1 ELSE attempts[t]]
  /\ status' =
       [t \in Tasks |->
          IF t \in done THEN "completed"
          ELSE IF t \in missing /\ attempts'[t] = MaxReportAttempts THEN "failed"
          ELSE status[t]]

Next ==
  \/ \E T \in SUBSET Tasks : Insert(T) \/ Report(T)
  \/ \E done, missing \in SUBSET Tasks : Settle(done, missing)

SafeSpec == Init /\ [][Next]_vars

\* A task that stays pending is settled, again and again, or reported.
SettleTask(t) ==
  /\ status[t] = "pending"
  /\ \/ \E T \in SUBSET Tasks : t \in T /\ Report(T)
     \/ \E done, missing \in SUBSET Tasks :
          t \in done \cup missing /\ Settle(done, missing)

Spec == SafeSpec /\ \A t \in Tasks : WF_vars(SettleTask(t))

=============================================================================
