------------------------ MODULE UserTasksAtomicity ------------------------
(***************************************************************************)
(* Lemmas about what the steps of UserTasks do to the rows and to the      *)
(* sessions, for the proof in UserTasksRefinement that UserTasks           *)
(* implements AtomicUsers.  It holds for operations that stay within what  *)
(* the locks and checks cover: an email that is not in lower case can be   *)
(* taken twice, and a DELETE of a whole user, or a move of a task, does    *)
(* not take the lock of the user that the task belongs to.                 *)
(***************************************************************************)
EXTENDS UserTasksProofs

LowerCaseOnly ==
  \A o \in Operations :
    /\ o.kind = "post" => Normal[o.email] = o.email
    /\ o.kind = "patch" => \A e \in o.email : Normal[e] = e

NoMoves ==
  \A o \in Operations : o.kind = "patch" => \A e \in o.edits : e.owner \subseteq {o.user}

NoWholeUsers == \A o \in Operations : o.kind = "delete" => o.tasks # {}

-----------------------------------------------------------------------------

(* What a step of any request does to the rows and to a session. *)

\* r is a PATCH of u that is answered.
Patching(r, u) ==
  pc[r] = "commit" /\ pc'[r] = "done" /\ op[r].kind = "patch" /\ op[r].user = u

EmailSteps ==
  \A u \in Users :
    \/ email'[u] = email[u]
    \/ email[u] = None /\ \E o \in Operations : o.kind = "post" /\ email'[u] = o.email
    \/ email[u] # None /\ \E o \in Operations : o.kind = "patch" /\ email'[u] \in o.email

DeletedSteps ==
  \A u \in Users :
    \/ userDeleted'[u] = userDeleted[u]
    \/ email[u] = None
    \/ \E r \in Requests : Patching(r, u)
    \/ \E o \in Operations : o.kind = "delete" /\ o.tasks = {}

\* A task is created with its user, created by a PATCH, or moved by one.
OwnerSteps ==
  \A t \in Tasks :
    \/ owner'[t] = owner[t]
    \/ owner[t] = None /\ owner'[t] \in Users /\ email[owner'[t]] = None
    \/ owner[t] = None /\ \E r \in Requests : Patching(r, owner'[t]) /\ op[r].adds # {}
    \/ \E o \in Operations : o.kind = "patch" /\ \E e \in o.edits : ~(e.owner \subseteq {o.user})

RowSteps == EmailSteps /\ DeletedSteps /\ OwnerSteps

LEMMA PostRows ==
  ASSUME Inv, NEW r \in Requests, Post(r), ~UNCHANGED data
  PROVE  RowSteps
<1> USE DEF Inv, TypeOK
<1> DEFINE o == op[r]
<1>1. o \in Operations /\ o.kind = "post"
  BY DEF Post, StepOK
<1>2. PICK u \in Users :
        /\ email[u] = None
        /\ email' = [email EXCEPT ![u] = o.email]
        /\ userDeleted' = [userDeleted EXCEPT ![u] = o.deleted]
        /\ \E new \in Inserted(u, o.titles, owner, title) :
             owner' = new.owner /\ title' = new.title
  BY DEF Post, Refuse
<1>3. PICK new \in Inserted(u, o.titles, owner, title) : owner' = new.owner
  BY <1>2
<1>4. PICK N \in SUBSET Unused : Adds(N, new, u, o.titles, owner, title)
  BY InsertedIs
<1>5. \A t \in Tasks : owner'[t] = IF t \in N THEN u ELSE owner[t]
  BY <1>3, <1>4 DEF Adds
<1>6. EmailSteps
  BY <1>1, <1>2 DEF EmailSteps
<1>7. DeletedSteps
  BY <1>2 DEF DeletedSteps
<1>8. OwnerSteps
  BY <1>2, <1>4, <1>5 DEF OwnerSteps, Unused
<1> QED
  BY <1>6, <1>7, <1>8 DEF RowSteps

LEMMA PatchRows ==
  ASSUME Inv, NEW r \in Requests, Patch(r), ~UNCHANGED data
  PROVE  RowSteps
<1> USE DEF Inv, TypeOK
<1> DEFINE o == op[r]
           s == session[r]
<1>1. /\ pc[r] = "commit" /\ o.kind = "patch"
      /\ o \in Operations /\ o.user \in Users /\ s \in Sessions /\ SessionCurrent(r)
  BY OperationType DEF Patch, StepOK, PatchOK
<1>2. /\ ~UnknownTask(o, s.titles) /\ ~TitleTaken(o, s.titles)
      /\ \E new \in Inserted(o.user, o.adds, PatchedOwners(r), PatchedTitles(r)) :
           /\ email' = PatchedEmails(r)
           /\ userDeleted' = [userDeleted EXCEPT ![o.user] =
                                Written(o.deleted, s.deleted, @)]
           /\ owner' = new.owner
           /\ title' = new.title
           /\ Answer(r, "Ok")
  BY DEF Patch, Refuse
<1>3. PICK new \in Inserted(o.user, o.adds, PatchedOwners(r), PatchedTitles(r)) :
        /\ email' = PatchedEmails(r)
        /\ userDeleted' = [userDeleted EXCEPT ![o.user] = Written(o.deleted, s.deleted, @)]
        /\ owner' = new.owner
        /\ Answer(r, "Ok")
  BY <1>2
<1>4. PatchWrites(r)
  BY <1>1, <1>2, PatchedIs
<1>5. PICK N \in SUBSET Unused :
        Adds(N, new, o.user, o.adds, PatchedOwners(r), PatchedTitles(r))
  BY InsertedIs
<1>6. /\ \A t \in Tasks : owner'[t] = IF t \in N THEN o.user ELSE PatchedOwners(r)[t]
      /\ N # {} => o.adds # {}
  BY <1>3, <1>5 DEF Adds
<1>7. Patching(r, o.user)
  BY <1>1, <1>3 DEF Patching, Answer, Goto
<1>8. EmailSteps
  <2>1. email[o.user] # None
    BY <1>1, UserAssumption DEF SessionCurrent, Sessions
  <2> QED
    BY <1>1, <1>3, <1>4, <2>1 DEF EmailSteps, PatchWrites
<1>9. DeletedSteps
  BY <1>1, <1>3, <1>7 DEF DeletedSteps
<1>10. ASSUME NEW t \in Tasks, owner'[t] # owner[t], t \notin N
       PROVE  \E e \in o.edits : ~(e.owner \subseteq {o.user})
  <2>1. PatchedOwners(r)[t] # owner[t]
    BY <1>6, <1>10
  <2>2. PICK e \in o.edits : PatchedOwners(r)[t] \in e.owner \ {o.user}
    BY <1>4, <2>1 DEF PatchWrites
  <2> QED
    BY <2>2
<1>11. OwnerSteps
  BY <1>1, <1>5, <1>6, <1>7, <1>10 DEF OwnerSteps, Unused
<1> QED
  BY <1>8, <1>9, <1>11 DEF RowSteps

LEMMA DeleteRows ==
  ASSUME Inv, NEW r \in Requests, Delete(r)
  PROVE  RowSteps
<1>1. op[r] \in Operations /\ op[r].kind = "delete"
  BY DEF Inv, Delete, StepOK
<1>2. op[r].tasks # {} => \A u \in Users : userDeleted'[u] = userDeleted[u]
  BY DEF Delete, Inv, TypeOK
<1> QED
  BY <1>1, <1>2 DEF RowSteps, EmailSteps, DeletedSteps, OwnerSteps, Delete

\* The other steps write nothing.
LEMMA StepRows ==
  ASSUME Inv, [Next]_vars
  PROVE  RowSteps
<1>1. CASE UNCHANGED data
  BY <1>1 DEF data, RowSteps, EmailSteps, DeletedSteps, OwnerSteps
<1>2. CASE ~UNCHANGED data
  <2>1. PICK r \in Requests :
          \/ Ask(r) \/ LockUser(r) \/ LockEmail(r) \/ Statement(r) \/ Abandon(r) \/ Done(r)
    BY <1>2 DEF Next, vars
  <2>2. Post(r) \/ Patch(r) \/ Delete(r)
    BY <1>2, <2>1 DEF Statement, Ask, LockUser, LockEmail, Acquire, Read, CheckEmail,
                      Abandon, Refuse, Done
  <2> QED
    BY <1>2, <2>2, PostRows, PatchRows, DeleteRows
<1> QED
  BY <1>1, <1>2

\* What a PATCH or a DELETE has in its session it has from one Read, of a user
\* that was there.
LEMMA SessionSteps ==
  ASSUME Inv, [Next]_vars, NEW q \in Requests,
         pc'[q] \in {"email", "check", "commit"}, op'[q].kind # "post"
  PROVE  /\ op'[q] = op[q] /\ op[q] \in Operations /\ op[q].user \in Users
         /\ \/ pc[q] \in {"email", "check", "commit"} /\ session'[q] = session[q]
            \/ /\ pc[q] = "read"
               /\ email[op[q].user] # None
               /\ op[q].kind = "delete" => op[q].tasks \subseteq TasksOf(op[q].user)
               /\ session'[q] = Loaded(op[q].user)
               /\ UNCHANGED data
<1> USE DEF Inv, TypeOK
<1> DEFINE Kept == pc[q] \in {"email", "check", "commit"} /\ session'[q] = session[q]
           Loads == /\ pc[q] = "read"
                    /\ email[op[q].user] # None
                    /\ op[q].kind = "delete" => op[q].tasks \subseteq TasksOf(op[q].user)
                    /\ session'[q] = Loaded(op[q].user)
                    /\ UNCHANGED data
           Goal == op'[q] = op[q] /\ (Kept \/ Loads)
<1>1. UNCHANGED vars => Goal
  BY DEF vars
<1>2. ASSUME NEW r \in Requests, Ask(r)
      PROVE  Goal
  <2>1. PICK o \in Operations : /\ op' = [op EXCEPT ![r] = o]
                                /\ pc' = [pc EXCEPT ![r] = FirstStep[o.kind]]
    BY <1>2 DEF Ask
  <2>2. r # q
    BY <2>1, OperationType DEF FirstStep
  <2> QED
    BY <1>2, <2>1, <2>2 DEF Ask
<1>3. ASSUME NEW r \in Requests, LockUser(r) \/ LockEmail(r)
      PROVE  Goal
  BY <1>3 DEF LockUser, LockEmail, Acquire, Goto
<1>4. ASSUME NEW r \in Requests, NEW a \in Answers, Answer(r, a)
      PROVE  Goal
  BY <1>4 DEF Answer, Goto
<1>5. ASSUME NEW r \in Requests, Read(r)
      PROVE  Goal
  BY <1>4, <1>5 DEF Read, Refuse, Goto, Answers
<1>6. ASSUME NEW r \in Requests, CheckEmail(r)
      PROVE  Goal
  BY <1>4, <1>6 DEF CheckEmail, Refuse, Goto, Answers
<1>7. ASSUME NEW r \in Requests, Post(r) \/ Patch(r) \/ Delete(r) \/ Abandon(r)
      PROVE  Goal
  BY <1>4, <1>7 DEF Post, Patch, Delete, Abandon, Refuse, Answers
<1>8. ASSUME NEW r \in Requests, Done(r)
      PROVE  Goal
  BY <1>8 DEF Done, Goto
<1>9. Goal
  BY <1>1, <1>2, <1>3, <1>5, <1>6, <1>7, <1>8 DEF Next, Statement
<1>10. op[q] \in Operations /\ op[q].kind \in {"patch", "delete"}
  BY <1>9, OperationType DEF StepOK
<1> QED
  BY <1>9, <1>10, OperationType

-----------------------------------------------------------------------------

(* Rows in use stay in use. *)

LEMMA UserStays ==
  ASSUME Inv, [Next]_vars, NEW u \in Users, email[u] # None
  PROVE  email'[u] # None
<1>1. EmailSteps
  BY StepRows DEF RowSteps
<1> QED
  BY <1>1, OperationType, UserAssumption DEF EmailSteps

LEMMA TaskStays ==
  ASSUME NoMoves, Inv, [Next]_vars, NEW t \in Tasks, owner[t] # None
  PROVE  owner'[t] = owner[t]
<1>1. OwnerSteps
  BY StepRows DEF RowSteps
<1> QED
  BY <1>1 DEF OwnerSteps, NoMoves

\* A DELETE that is about to write has read a user that is still there, and the
\* tasks it was asked to delete are still the user's.
FoundBy(q) ==
  pc[q] = "commit" /\ op[q].kind = "delete" =>
    email[op[q].user] # None /\ \A t \in op[q].tasks : owner[t] = op[q].user

DeleteFound == \A q \in Requests : FoundBy(q)

LEMMA DeleteFoundStep ==
  ASSUME NoMoves, Inv, DeleteFound, [Next]_vars
  PROVE  DeleteFound'
<1> SUFFICES ASSUME NEW q \in Requests,
                    op'[q].kind = "delete", pc'[q] = "commit"
             PROVE  FoundBy(q)'
  BY DEF DeleteFound, FoundBy
<1> DEFINE u == op[q].user
<1>1. /\ op'[q] = op[q] /\ op[q] \in Operations /\ u \in Users
      /\ \/ pc[q] \in {"email", "check", "commit"}
         \/ email[u] # None /\ op[q].tasks \subseteq TasksOf(u)
  BY SessionSteps
<1>2. pc[q] \in {"email", "check"} => op[q].kind # "delete"
  BY DEF Inv, StepOK
<1>3. email[u] # None /\ \A t \in op[q].tasks : owner[t] = u
  BY <1>1, <1>2 DEF DeleteFound, FoundBy, TasksOf
<1>4. email'[u] # None
  BY <1>1, <1>3, UserStays
<1>5. op[q].tasks \subseteq Tasks
  BY <1>1, OperationType
<1>6. \A t \in op[q].tasks : owner'[t] = u
  BY <1>1, <1>3, <1>5, TaskStays, UserAssumption
<1> QED
  BY <1>1, <1>4, <1>6 DEF FoundBy

=============================================================================
