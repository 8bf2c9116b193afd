----------------------------- MODULE UserTasks -----------------------------
(***************************************************************************)
(* POST, PATCH and DELETE /user_tasks on the tables of users and tasks     *)
(* (src/services/user_task_service.py): what concurrent requests read,     *)
(* validate and write, under the advisory locks that some of them take.    *)
(*                                                                         *)
(* One step of a request is one statement, or the flush and the commit at  *)
(* its end; the transactions run at READ COMMITTED.  An advisory lock is   *)
(* held until the transaction ends.  session[r] is the user and the tasks  *)
(* as the session of r loaded them: the service validates against it, and  *)
(* SQLAlchemy writes the columns that were set to another value than the   *)
(* loaded one.  The reports of new tasks are the subject of ReportSync.    *)
(***************************************************************************)
EXTENDS Naturals, FiniteSets, Functions

CONSTANTS
  Users,        \* ids of users, used and unused: bounds those that are created
  Tasks,        \* ids of tasks, likewise
  Emails,
  Normal,       \* lower().strip() of each email
  Titles,
  Blank,        \* the empty title, which two new tasks of a request may share
  Requests,     \* concurrent requests
  Operations,   \* what requests may ask for
  LockKey,      \* hashtext of "user:" and each id, and of "email:" and each email
  None          \* no row, no task, no request, no answer; a free lock

\* [task |-> its id, title |-> {} or the new one, owner |-> {} or a new user_id]
Edits == [task : Tasks, title : SUBSET Titles, owner : SUBSET Users]

\* The fields that a request does not set are {}; doubled says that two of its
\* new tasks have the empty title.
Posts   == [kind : {"post"}, email : Emails, deleted : BOOLEAN,
            titles : SUBSET Titles, doubled : BOOLEAN]
Patches == [kind : {"patch"}, user : Users, email : SUBSET Emails,
            deleted : SUBSET BOOLEAN, adds : SUBSET Titles, doubled : BOOLEAN,
            edits : SUBSET Edits]
Deletes == [kind : {"delete"}, user : Users, tasks : SUBSET Tasks]

\* The keys of advisory locks; names that have the same hash share one.
Locks == Range(LockKey)

Answers == {"Ok", "NotFound", "AlreadyExists", "IntegrityError", "Failed"}

ASSUME UserAssumption ==
  /\ Users \cap Emails = {}
  /\ None \notin Users \cup Tasks \cup Emails \cup Titles \cup Requests \cup Answers
  /\ None \notin Operations
  /\ LockKey \in [Users \cup Emails -> Range(LockKey)]
  /\ Normal \in [Emails -> Emails]
  /\ \A e \in Emails : Normal[Normal[e]] = Normal[e]
  /\ Operations \subseteq Posts \cup Patches \cup Deletes

NewTitles(o) ==
  IF o.kind = "post" THEN o.titles ELSE IF o.kind = "patch" THEN o.adds ELSE {}

\* An optional field has one value at most.
AtMostOne(S) == \A x, y \in S : x = y

\* What the schemas make of a request: the titles of its tasks are distinct but
\* for the empty one, which UniqueTaskTitlesValidatorMixin leaves out.  Bound: no
\* two edits of one task, which the schemas allow and the last one of wins.
ASSUME SchemaAssumption ==
  \A o \in Operations :
    /\ o.kind \in {"post", "patch"} /\ o.doubled => Blank \in NewTitles(o)
    /\ o.kind = "patch" =>
         /\ AtMostOne(o.email)
         /\ AtMostOne(o.deleted)
         /\ \A e \in o.edits :
              /\ AtMostOne(e.title)
              /\ AtMostOne(e.owner)
              /\ e.title \cap o.adds \subseteq {Blank}
         /\ \A e, f \in o.edits :
              e # f => e.task # f.task /\ e.title \cap f.title \subseteq {Blank}

VARIABLES
  email,        \* of each user, None for an id that is not in use
  userDeleted,
  owner,        \* user_id of each task, None for an id that is not in use
  title,
  taskDeleted,
  lock,         \* the request that holds an advisory lock, or None
  pc,           \* "idle", "user", "read", "email", "check", "commit", "done"
  op,           \* what each request asks for, None while there is no request
  session,      \* the user and the tasks as the request loaded them, or None
  answer        \* None until the request is answered

data == <<email, userDeleted, owner, title, taskDeleted>>
vars == <<data, lock, pc, op, session, answer>>

Init ==
  /\ email = [u \in Users |-> None]
  /\ userDeleted = [u \in Users |-> FALSE]
  /\ owner = [t \in Tasks |-> None]
  /\ title = [t \in Tasks |-> None]
  /\ taskDeleted = [t \in Tasks |-> FALSE]
  /\ lock = [k \in Locks |-> None]
  /\ pc = [r \in Requests |-> "idle"]
  /\ op = [r \in Requests |-> None]
  /\ session = [r \in Requests |-> None]
  /\ answer = [r \in Requests |-> None]

-----------------------------------------------------------------------------

(* Steps that all requests have. *)

\* The first statement of each operation.
FirstStep == [post |-> "email", patch |-> "user", delete |-> "read"]

\* Bound: there are ids left for what this and the unanswered requests create.
IdsLeft(o) ==
  LET asked == {r \in Requests : pc[r] \notin {"idle", "done"}} IN
    /\ o.kind = "post" =>
         Cardinality({r \in asked : op[r].kind = "post"}) <
           Cardinality({u \in Users : email[u] = None})
    /\ Cardinality(NewTitles(o))
         + Cardinality(UNION {{r} \X NewTitles(op[r]) : r \in asked})
         <= Cardinality({t \in Tasks : owner[t] = None})

Ask(r) ==
  /\ pc[r] = "idle"
  /\ \E o \in Operations :
       /\ IdsLeft(o)
       /\ op' = [op EXCEPT ![r] = o]
       /\ pc' = [pc EXCEPT ![r] = FirstStep[o.kind]]
  /\ UNCHANGED <<data, lock, session, answer>>

Goto(r, step) == pc' = [pc EXCEPT ![r] = step]

\* Mutant of Answer: the transaction stays open.
AnswerInTransaction(r, a) ==
  /\ answer' = [answer EXCEPT ![r] = a]
  /\ session' = [session EXCEPT ![r] = None]
  /\ Goto(r, "done")
  /\ UNCHANGED <<lock, op>>

\* The transaction ends: its advisory locks are released.
Answer(r, a) ==
  /\ answer' = [answer EXCEPT ![r] = a]
  /\ session' = [session EXCEPT ![r] = None]
  /\ lock' = [k \in Locks |-> IF lock[k] = r THEN None ELSE lock[k]]
  /\ Goto(r, "done")
  /\ UNCHANGED op

\* An exception leaves the service, the transaction is rolled back.
Refuse(r, a) == Answer(r, a) /\ UNCHANGED data

\* pg_advisory_xact_lock: a transaction may take a lock again that it holds.
Acquire(r, k, step) ==
  /\ lock[k] \in {None, r}
  /\ lock' = [lock EXCEPT ![k] = r]
  /\ Goto(r, step)
  /\ UNCHANGED <<data, op, session, answer>>

\* The request is lost or a statement fails: the database is away or ends a
\* deadlock, or it refuses a value that the schema lets through whatever else is
\* stored (an explicit null, a title of more than 100 characters).
Abandon(r) ==
  /\ pc[r] \notin {"idle", "done"}
  /\ Refuse(r, "Failed")

Done(r) ==
  /\ pc[r] = "done"
  /\ op' = [op EXCEPT ![r] = None]
  /\ answer' = [answer EXCEPT ![r] = None]
  /\ Goto(r, "idle")
  /\ UNCHANGED <<data, lock, session>>

-----------------------------------------------------------------------------

(* The tables. *)

TasksOf(u) == {t \in Tasks : owner[t] = u}

\* Emails and pairs of user_id and title are unique, a user_id refers to a user.
Integrity(emails, owners, titles) ==
  /\ \A u, v \in Users : emails[u] # None /\ emails[u] = emails[v] => u = v
  /\ \A t \in Tasks : owners[t] # None => emails[owners[t]] # None
  /\ \A s, t \in Tasks :
       owners[s] # None /\ owners[s] = owners[t] /\ titles[s] = titles[t] => s = t

\* New rows for the tasks of u that have the titles T: the tables of tasks with
\* them, given the other rows.
Inserted(u, T, owners, titles) ==
  {[owner |-> [t \in Tasks |-> IF t \in DOMAIN named THEN u ELSE owners[t]],
    title |-> [t \in Tasks |-> IF t \in DOMAIN named THEN named[t] ELSE titles[t]]] :
     named \in UNION {Bijection(N, T) :
                        N \in {M \in SUBSET {t \in Tasks : owner[t] = None} :
                                 Cardinality(M) = Cardinality(T)}}}

-----------------------------------------------------------------------------

(* The statements before the last one. *)

\* Mutant of LockUser: the user is read without the lock.
LockUserNever(r) ==
  /\ pc[r] = "user"
  /\ Goto(r, "read")
  /\ UNCHANGED <<data, lock, op, session, answer>>

\* acquire_user_lock
LockUser(r) ==
  /\ pc[r] = "user"
  /\ Acquire(r, LockKey[op[r].user], "read")

\* acquire_email_lock, on the normalised email.
EmailOf(o) == Normal[CHOOSE e \in IF o.kind = "post" THEN {o.email} ELSE o.email : TRUE]

LockEmail(r) ==
  /\ pc[r] = "email"
  /\ Acquire(r, LockKey[EmailOf(op[r])], IF op[r].kind = "post" THEN "commit" ELSE "check")

\* The email that is asked for is compared, normalised, with the stored one.
ChangesEmail(o) ==
  /\ o.kind = "patch"
  /\ o.email # {}
  /\ EmailOf(o) # email[o.user]

Sessions ==
  [email : Emails, deleted : BOOLEAN, titles : UNION {[T -> Titles] : T \in SUBSET Tasks}]

Loaded(u) ==
  [email |-> email[u], deleted |-> userDeleted[u], titles |-> Restrict(title, TasksOf(u))]

\* Mutant of Read: the user is taken to be there.
ReadUnchecked(r) ==
  /\ pc[r] = "read"
  /\ session' = [session EXCEPT ![r] = Loaded(op[r].user)]
  /\ Goto(r, IF ChangesEmail(op[r]) THEN "email" ELSE "commit")
  /\ UNCHANGED <<data, lock, op, answer>>

\* get_one_or_none_with_relationship, and what is decided on its result alone.
Read(r) ==
  /\ pc[r] = "read"
  /\ LET o == op[r] IN
       \/ /\ \/ email[o.user] = None
             \/ o.kind = "delete" /\ ~(o.tasks \subseteq TasksOf(o.user))
          /\ Refuse(r, "NotFound")
       \/ /\ email[o.user] # None
          /\ o.kind = "delete" => o.tasks \subseteq TasksOf(o.user)
          /\ session' = [session EXCEPT ![r] = Loaded(o.user)]
          /\ Goto(r, IF ChangesEmail(o) THEN "email" ELSE "commit")
          /\ UNCHANGED <<data, lock, op, answer>>

\* is_email_taken, with the normalised email.
CheckEmail(r) ==
  /\ pc[r] = "check"
  /\ IF \E u \in Users \ {op[r].user} : email[u] = EmailOf(op[r])
       THEN Refuse(r, "AlreadyExists")
       ELSE Goto(r, "commit") /\ UNCHANGED <<data, lock, op, session, answer>>

-----------------------------------------------------------------------------

(* The last statements and the commit. *)

\* create_user_if_absent: ON CONFLICT DO NOTHING, on the email as it was sent.
EmailStored(e) == \E u \in Users : email[u] = e

Post(r) ==
  /\ pc[r] = "commit"
  /\ op[r].kind = "post"
  /\ LET o == op[r] IN
       \/ /\ EmailStored(o.email)
          /\ Refuse(r, "AlreadyExists")
       \/ /\ ~EmailStored(o.email)
          /\ o.doubled
          /\ Refuse(r, "IntegrityError")
       \/ /\ ~EmailStored(o.email)
          /\ ~o.doubled
          /\ \E u \in Users :
               /\ email[u] = None
               /\ email' = [email EXCEPT ![u] = o.email]
               /\ userDeleted' = [userDeleted EXCEPT ![u] = o.deleted]
               /\ \E new \in Inserted(u, o.titles, owner, title) :
                    owner' = new.owner /\ title' = new.title
          /\ Answer(r, "Ok")
          /\ UNCHANGED taskDeleted

\* Mutant of TitleTaken: the tasks that are edited are not checked.
TitleTakenByNew(o, titles) == o.adds \cap Range(titles) # {}

\* _validate_tasks_update, on the tasks of the session; the empty title of an
\* edited task is not checked, that of a new one is.
UnknownTask(o, titles) == \E e \in o.edits : e.task \notin DOMAIN titles
TitleTaken(o, titles) ==
  \/ o.adds \cap Range(titles) # {}
  \/ \E e \in o.edits :
       /\ e.task \in DOMAIN titles
       /\ (e.title \cap Range(titles)) \ {titles[e.task], Blank} # {}

\* Setting an attribute to the value that was loaded writes nothing.
Written(field, loaded, stored) ==
  IF field \subseteq {loaded} THEN stored ELSE CHOOSE x \in field : TRUE

EditOf(o, t) == CHOOSE e \in o.edits : e.task = t
EditedTasks(o) == {e.task : e \in o.edits}

\* update_user_fields and update_tasks_fields
PatchedEmails(r) ==
  [email EXCEPT ![op[r].user] = Written(op[r].email, session[r].email, @)]
PatchedOwners(r) ==
  [t \in Tasks |->
     IF t \in EditedTasks(op[r])
       THEN Written(EditOf(op[r], t).owner, op[r].user, owner[t])
       ELSE owner[t]]
PatchedTitles(r) ==
  [t \in Tasks |->
     IF t \in EditedTasks(op[r])
       THEN Written(EditOf(op[r], t).title, session[r].titles[t], title[t])
       ELSE title[t]]

\* The flush updates one row after the other and inserts the new ones last: a
\* task is given a title that another one of the user has until it is updated
\* itself, perhaps later.
TakesOver(r) ==
  \E s, t \in Tasks :
    /\ s # t
    /\ owner[s] # None
    /\ PatchedOwners(r)[t] = owner[s]
    /\ PatchedTitles(r)[t] = title[s]

\* The validation of the tasks, tasks.extend and the flush.
Patch(r) ==
  /\ pc[r] = "commit"
  /\ op[r].kind = "patch"
  /\ LET o == op[r]
         s == session[r] IN
       \/ UnknownTask(o, s.titles) /\ Refuse(r, "NotFound")
       \/ TitleTaken(o, s.titles) /\ Refuse(r, "AlreadyExists")
       \/ /\ ~UnknownTask(o, s.titles)
          /\ ~TitleTaken(o, s.titles)
          /\ \E new \in Inserted(o.user, o.adds, PatchedOwners(r), PatchedTitles(r)) :
               \/ /\ Integrity(PatchedEmails(r), new.owner, new.title)
                  /\ ~o.doubled
                  /\ email' = PatchedEmails(r)
                  /\ userDeleted' = [userDeleted EXCEPT ![o.user] =
                                       Written(o.deleted, s.deleted, @)]
                  /\ owner' = new.owner
                  /\ title' = new.title
                  /\ Answer(r, "Ok")
                  /\ UNCHANGED taskDeleted
               \/ /\ \/ ~Integrity(PatchedEmails(r), new.owner, new.title)
                     \/ o.doubled
                     \/ TakesOver(r)
                  /\ Refuse(r, "IntegrityError")

\* _mark_tasks_as_deleted marks tasks of the session: all of them without ids.
Delete(r) ==
  /\ pc[r] = "commit"
  /\ op[r].kind = "delete"
  /\ LET o == op[r]
         whole == o.tasks = {} IN
       /\ userDeleted' = [userDeleted EXCEPT ![o.user] =
                            @ \/ (whole /\ ~session[r].deleted)]
       /\ taskDeleted' =
            [t \in Tasks |->
               \/ taskDeleted[t]
               \/ t \in IF whole THEN DOMAIN session[r].titles ELSE o.tasks]
       /\ Answer(r, "Ok")
       /\ UNCHANGED <<email, owner, title>>

-----------------------------------------------------------------------------

Statement(r) ==
  \/ Read(r)
  \/ CheckEmail(r)
  \/ Post(r)
  \/ Patch(r)
  \/ Delete(r)

Next ==
  \E r \in Requests :
    \/ Ask(r)
    \/ LockUser(r)
    \/ LockEmail(r)
    \/ Statement(r)
    \/ Abandon(r)
    \/ Done(r)

Spec == Init /\ [][Next]_vars

\* p waits for an advisory lock that q holds.
WaitsFor(p, q) ==
  /\ p # q
  /\ \/ pc[p] = "user" /\ lock[LockKey[op[p].user]] = q
     \/ pc[p] = "email" /\ lock[LockKey[EmailOf(op[p])]] = q

\* The requests S wait for each other, each of them for one of them.
Circle(S) ==
  /\ S # {}
  /\ \A p \in S : (\E q \in S : WaitsFor(p, q)) /\ (\E q \in S : WaitsFor(q, p))

\* PostgreSQL aborts one of the transactions that wait in a circle.
BreakDeadlock ==
  \E r \in Requests : (\E S \in SUBSET Requests : r \in S /\ Circle(S)) /\ Abandon(r)

\* A request goes on while it is not waiting, PostgreSQL grants a lock in the
\* order in which it is asked for, and no deadlock lasts.
Fairness ==
  /\ WF_vars(BreakDeadlock)
  /\ \A r \in Requests :
       /\ WF_vars(Statement(r))
       /\ SF_vars(LockUser(r))
       /\ SF_vars(LockEmail(r))

FairSpec == Spec /\ Fairness

-----------------------------------------------------------------------------

\* The tables, the locks and the requests keep their types; what a session holds
\* is a user that exists.
TypeOK ==
  /\ email \in [Users -> Emails \cup {None}]
  /\ userDeleted \in [Users -> BOOLEAN]
  /\ owner \in [Tasks -> Users \cup {None}]
  /\ title \in [Tasks -> Titles \cup {None}]
  /\ taskDeleted \in [Tasks -> BOOLEAN]
  /\ lock \in [Locks -> Requests \cup {None}]
  /\ pc \in [Requests -> {"idle", "user", "read", "email", "check", "commit", "done"}]
  /\ op \in [Requests -> Operations \cup {None}]
  /\ session \in [Requests -> Sessions \cup {None}]
  /\ answer \in [Requests -> Answers \cup {None}]

\* Requests that set lower-case emails, move no task and delete no whole user
\* take effect one at a time: what a request validated still holds when it
\* writes, and only a second empty title is left for a constraint to refuse.
Atomic == INSTANCE AtomicUsers
ImplementsAtomicUsers == Atomic!Spec

\* An edit gives a task the empty title, which another task has or is given.
SecondBlank(o, titles) ==
  \E e \in o.edits :
    /\ Blank \in e.title
    /\ \/ Blank \in o.adds
       \/ \E t \in DOMAIN titles \ {e.task} : titles[t] = Blank
       \/ \E f \in o.edits \ {e} : Blank \in f.title

\* A request ends in a violated unique or foreign key constraint only if it gives
\* two tasks the empty title, or is a PATCH that moves a task itself, sets an
\* email that is not in lower case, or had a task added to its user, by a move,
\* after it had read the user: the locks and checks exclude everything else.
IntegrityErrorExplained ==
  [][\A r \in Requests :
       answer[r] = None /\ answer'[r] = "IntegrityError" =>
         \/ op[r].doubled
         \/ /\ op[r].kind = "patch"
            /\ \/ SecondBlank(op[r], session[r].titles)
               \/ \E e \in op[r].edits : e.owner \ {op[r].user} # {}
               \/ \E e \in op[r].email : Normal[e] # e
               \/ TasksOf(op[r].user) \ DOMAIN session[r].titles # {}]_vars

\* Every request is answered, however many of them want the same user and the
\* same email, and whichever of these have one hash.
RequestAnswered == \A r \in Requests : pc[r] # "idle" ~> answer[r] # None

\* Requests wait in a circle only where hashes collide: each of them waits for
\* an email that has the key of the user whom another one, a PATCH, has locked.
\* PATCH takes the lock of its user before that of an email, POST that of an
\* email alone, so without such a pair of names there is no deadlock.
CirclesShareKeys ==
  \A S \in SUBSET Requests : Circle(S) =>
    \A p \in S :
      /\ pc[p] = "email"
      /\ \E q \in S :
           /\ op[q].kind = "patch"
           /\ LockKey[EmailOf(op[p])] = LockKey[op[q].user]

\* "... the user itself (and all its tasks) will be deleted": no task of the
\* user outlives a DELETE without ids that was answered.
DeleteCoversTasks ==
  [][\A r \in Requests :
       /\ op[r] # None
       /\ answer[r] = None
       /\ answer'[r] = "Ok"
       /\ op[r].kind = "delete"
       /\ op[r].tasks = {}
       => \A t \in Tasks : owner'[t] = op[r].user => taskDeleted'[t]]_vars

\* "User with email ... already exists", of the email in lower case: no two
\* users have emails that differ in case only.
EmailsDistinct ==
  \A u, v \in Users :
    u # v /\ email[u] # None /\ email[v] # None => Normal[email[u]] # Normal[email[v]]

=============================================================================
