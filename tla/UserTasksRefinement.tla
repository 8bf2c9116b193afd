------------------------ MODULE UserTasksRefinement ------------------------
(***************************************************************************)
(* Proof that UserTasks implements AtomicUsers, for operations that set    *)
(* emails in lower case, move no task and delete no whole user.  A request *)
(* takes effect in the step that answers it; the steps before leave the    *)
(* tables, op and answer alone.  What it has read and checked by then must *)
(* still be so: the session of Inv, with ReadWhole and DeleteFound.        *)
(***************************************************************************)
EXTENDS UserTasksAtomicity

Covered == LowerCaseOnly /\ NoMoves /\ NoWholeUsers

\* A request that is asked is neither idle nor done.
PhaseOK(r) ==
  /\ pc[r] = "idle" <=> op[r] = None
  /\ pc[r] = "done" <=> answer[r] # None

\* A PATCH that has read its user knows all of its tasks and whether it is deleted.
ReadWhole(r) ==
  op[r].kind = "patch" /\ pc[r] \in {"email", "check", "commit"} =>
    LET u == op[r].user IN
      /\ userDeleted[u] = session[r].deleted
      /\ \A t \in Tasks : owner[t] = u <=> t \in DOMAIN session[r].titles

SerialInv ==
  /\ Inv
  /\ DeleteFound
  /\ \A r \in Requests : PhaseOK(r) /\ ReadWhole(r)

-----------------------------------------------------------------------------

(* The invariant. *)

LEMMA PhaseStep ==
  ASSUME Inv, \A r \in Requests : PhaseOK(r), [Next]_vars
  PROVE  \A r \in Requests : PhaseOK(r)'
<1> USE DEF Inv, TypeOK
<1> DEFINE Goal == \A q \in Requests : PhaseOK(q)'
<1>1. UNCHANGED vars => Goal
  BY DEF vars, PhaseOK
<1>2. ASSUME NEW r \in Requests, Ask(r)
      PROVE  Goal
  <2>1. PICK o \in Operations : /\ op' = [op EXCEPT ![r] = o]
                                /\ pc' = [pc EXCEPT ![r] = FirstStep[o.kind]]
    BY <1>2 DEF Ask
  <2>2. FirstStep[o.kind] \in {"user", "read", "email"}
    BY OperationType DEF FirstStep
  <2> QED
    BY <1>2, <2>1, <2>2, UserAssumption DEF Ask, PhaseOK
<1>3. ASSUME NEW r \in Requests, NEW step \in {"user", "read", "email", "check", "commit"},
             pc[r] \notin {"idle", "done"}, Goto(r, step), UNCHANGED <<op, answer>>
      PROVE  Goal
  BY <1>3 DEF Goto, PhaseOK
<1>4. ASSUME NEW r \in Requests, LockUser(r) \/ LockEmail(r)
      PROVE  Goal
  BY <1>3, <1>4 DEF LockUser, LockEmail, Acquire
<1>5. ASSUME NEW r \in Requests, pc[r] \notin {"idle", "done"}, NEW a \in Answers, Answer(r, a)
      PROVE  Goal
  BY <1>5, UserAssumption DEF Answer, Goto, PhaseOK
<1>6. ASSUME NEW r \in Requests, Read(r) \/ CheckEmail(r)
      PROVE  Goal
  BY <1>3, <1>5, <1>6 DEF Read, CheckEmail, Refuse, Answers
<1>7. ASSUME NEW r \in Requests, Post(r) \/ Patch(r) \/ Delete(r) \/ Abandon(r)
      PROVE  Goal
  BY <1>5, <1>7 DEF Post, Patch, Delete, Abandon, Refuse, Answers
<1>8. ASSUME NEW r \in Requests, Done(r)
      PROVE  Goal
  BY <1>8 DEF Done, Goto, PhaseOK
<1> QED
  BY <1>1, <1>2, <1>4, <1>6, <1>7, <1>8 DEF Next, Statement

\* Only a PATCH of the same user could change what was read, and it would have to
\* hold the lock of the user; a DELETE with ids marks tasks and nothing else.
LEMMA ReadWholeStep ==
  ASSUME NoMoves, NoWholeUsers, Inv, [Next]_vars, NEW q \in Requests, ReadWhole(q)
  PROVE  ReadWhole(q)'
<1> SUFFICES ASSUME op'[q].kind = "patch", pc'[q] \in {"email", "check", "commit"}
             PROVE  ReadWhole(q)'
  BY DEF ReadWhole
<1> DEFINE u == op[q].user
           s == session[q]
<1>1. op'[q] = op[q] /\ op[q] \in Operations /\ u \in Users
  BY SessionSteps
<1>2. CASE pc[q] \in {"email", "check", "commit"} /\ session'[q] = s
  <2>1. SessionCurrent(q)
    BY <1>1, <1>2 DEF Inv, PatchOK
  <2>2. email[u] # None
    BY <1>1, <1>2, <2>1, UserAssumption DEF SessionCurrent, Inv, StepOK, Sessions
  <2>3. \A r \in Requests : ~Patching(r, u)
    <3> SUFFICES ASSUME NEW r \in Requests, Patching(r, u) PROVE FALSE
      OBVIOUS
    <3>1. SessionCurrent(r) /\ op[r].user = u
      BY DEF Patching, Inv, PatchOK
    <3>2. r = q
      BY <2>1, <3>1 DEF SessionCurrent
    <3> QED
      BY <3>2 DEF Patching
  <2>4. userDeleted'[u] = userDeleted[u]
    <3>1. DeletedSteps
      BY StepRows DEF RowSteps
    <3> QED
      BY <1>1, <2>2, <2>3, <3>1 DEF DeletedSteps, NoWholeUsers
  <2>5. \A t \in Tasks : owner'[t] = u <=> owner[t] = u
    <3>1. OwnerSteps
      BY StepRows DEF RowSteps
    <3> QED
      BY <1>1, <2>2, <2>3, <3>1, UserAssumption DEF OwnerSteps, NoMoves
  <2> QED
    BY <1>1, <1>2, <2>4, <2>5 DEF ReadWhole
<1>3. CASE session'[q] = Loaded(u) /\ UNCHANGED data
  <2>1. /\ DOMAIN session'[q].titles = TasksOf(u)
        /\ session'[q].deleted = userDeleted[u]
    BY <1>3 DEF Loaded, Restrict
  <2> QED
    BY <1>1, <1>3, <2>1 DEF ReadWhole, TasksOf, data
<1> QED
  BY <1>2, <1>3, SessionSteps

LEMMA SerialInit == Init => SerialInv
<1> SUFFICES ASSUME Init PROVE SerialInv
  OBVIOUS
<1>1. Inv
  BY InitInv
<1>2. DeleteFound
  BY DEF Init, DeleteFound, FoundBy
<1>3. \A r \in Requests : PhaseOK(r) /\ ReadWhole(r)
  BY DEF Init, PhaseOK, ReadWhole
<1> QED
  BY <1>1, <1>2, <1>3 DEF SerialInv

LEMMA SerialNext ==
  ASSUME Covered, SerialInv, [Next]_vars
  PROVE  SerialInv'
<1>1. Inv' /\ DeleteFound'
  BY NextInv, DeleteFoundStep DEF SerialInv, Covered
<1>2. \A r \in Requests : PhaseOK(r)'
  BY PhaseStep DEF SerialInv
<1>3. \A r \in Requests : ReadWhole(r)'
  BY ReadWholeStep DEF SerialInv, Covered
<1> QED
  BY <1>1, <1>2, <1>3 DEF SerialInv

-----------------------------------------------------------------------------

(* The operators of the two modules. *)

\* Writing a field that was set to another value than the loaded one gives what
\* was asked for, when the loaded value is the stored one.
LEMMA WrittenGiven ==
  ASSUME NEW field, NEW x
  PROVE  Written(field, x, x) = Atomic!Given(field, x)
<1>1. CASE field = {}
  BY <1>1 DEF Written, Atomic!Given
<1>2. CASE field = {x}
  BY <1>2 DEF Written, Atomic!Given
<1>3. CASE field # {} /\ field # {x}
  <2>1. ~(field \subseteq {x})
    BY <1>3
  <2> QED
    BY <1>3, <2>1 DEF Written, Atomic!Given
<1> QED
  BY <1>1, <1>2, <1>3

\* What is inserted is what AddTasks adds, next to the same other rows.
LEMMA InsertedAdds ==
  ASSUME NEW u, NEW T, NEW owners, NEW titles, NEW titled,
         \A t \in Tasks : owners[t] = owner[t] /\ titles[t] = titled[t],
         NEW new \in Inserted(u, T, owners, titles),
         owner' = new.owner, title' = new.title
  PROVE  Atomic!AddTasks(u, T, titled)
<1>1. PICK N \in SUBSET {t \in Tasks : owner[t] = None} :
        \E named \in Bijection(N, T) :
          new = [owner |-> [t \in Tasks |-> IF t \in DOMAIN named THEN u ELSE owners[t]],
                 title |-> [t \in Tasks |-> IF t \in DOMAIN named THEN named[t]
                                            ELSE titles[t]]]
  BY DEF Inserted
<1>2. PICK named \in Bijection(N, T) :
        new = [owner |-> [t \in Tasks |-> IF t \in DOMAIN named THEN u ELSE owners[t]],
               title |-> [t \in Tasks |-> IF t \in DOMAIN named THEN named[t]
                                          ELSE titles[t]]]
  BY <1>1
<1>3. DOMAIN named = N
  BY DEF Bijection, Injection, Surjection
<1>4. owner' = [t \in Tasks |-> IF t \in N THEN u ELSE owner[t]]
  BY <1>2, <1>3
<1>5. title' = [t \in Tasks |-> IF t \in N THEN named[t] ELSE titled[t]]
  BY <1>2, <1>3
<1>6. named \in Atomic!Bijection(N, T)
  BY DEF Bijection, Injection, Surjection, IsInjective,
         Atomic!Bijection, Atomic!Injection, Atomic!Surjection, Atomic!IsInjective
<1> QED
  BY <1>4, <1>5, <1>6 DEF Atomic!AddTasks

\* The answer of a request that is asked, in both modules.
LEMMA AnswerMaps ==
  ASSUME SerialInv, NEW r \in Requests, pc[r] \notin {"idle", "done"}, NEW a, Answer(r, a)
  PROVE  /\ op[r] # None /\ answer[r] = None
         /\ Atomic!Asked(r, op[r].kind)
         /\ Atomic!Answer(r, a)
         /\ UNCHANGED data => Atomic!Refuse(r, a)
<1>1. op[r] # None /\ answer[r] = None
  BY DEF SerialInv, PhaseOK
<1>2. Atomic!Answer(r, a)
  BY DEF Answer, Atomic!Answer
<1> QED
  BY <1>1, <1>2 DEF Atomic!Asked, Atomic!Refuse, data, Atomic!data

\* A PATCH that writes has found, by now, what AtomicUsers asks for.
LEMMA KnownIs ==
  ASSUME SerialInv, NEW r \in Requests, pc[r] = "commit", op[r].kind = "patch"
  PROVE  UnknownTask(op[r], session[r].titles) <=> ~Atomic!Known(op[r])
<1>1. op[r] \in Operations /\ op[r].edits \subseteq Edits
  BY OperationType DEF SerialInv, Inv, StepOK
<1>2. \A e \in op[r].edits : e.task \in Tasks
  BY <1>1 DEF Edits
<1>3. \A t \in Tasks : owner[t] = op[r].user <=> t \in DOMAIN session[r].titles
  BY DEF SerialInv, ReadWhole
<1> QED
  BY <1>2, <1>3 DEF UnknownTask, Atomic!Known

LEMMA ConflictIs ==
  ASSUME Covered, SerialInv, NEW r \in Requests, pc[r] = "commit", op[r].kind = "patch"
  PROVE  /\ TitleTaken(op[r], session[r].titles) => Atomic!Conflict(op[r])
         /\ ~UnknownTask(op[r], session[r].titles) /\ Atomic!Conflict(op[r]) =>
              TitleTaken(op[r], session[r].titles)
<1> DEFINE o == op[r]
           titles == session[r].titles
           u == o.user
<1>1. /\ o \in Operations /\ u \in Users /\ o.email \subseteq Emails
      /\ SessionCurrent(r) /\ EmailReserved(r)
      /\ TypeOK /\ DataOK
      /\ session[r] \in Sessions
  BY OperationType DEF SerialInv, Inv, StepOK, PatchOK
<1>2. \A t \in Tasks : owner[t] = u <=> t \in DOMAIN titles
  BY DEF SerialInv, ReadWhole
<1>3. \A t \in DOMAIN titles : t \in Tasks /\ owner[t] = u /\ titles[t] = title[t]
  BY <1>1 DEF SessionCurrent, Sessions
<1>4. \A x : x \in Range(titles) <=> \E t \in Tasks : owner[t] = u /\ title[t] = x
  BY <1>2, <1>3 DEF Range
<1>5. ASSUME NEW e \in o.email
      PROVE  ~Atomic!Taken(e, u)
  <2>1. EmailOf(o) = e /\ e \in Emails
    BY <1>1, EmailOfIs DEF Covered, LowerCaseOnly
  <2>2. CASE e = session[r].email
    BY <1>1, <2>1, <2>2, UserAssumption
       DEF SessionCurrent, DataOK, Integrity, Atomic!Taken
  <2>3. CASE e # session[r].email
    BY <1>1, <2>1, <2>3 DEF EmailReserved, Atomic!Taken
  <2> QED
    BY <2>2, <2>3
<1>6. (\E x \in o.adds : Atomic!TitleHeld(u, None, x)) <=> o.adds \cap Range(titles) # {}
  <2>1. \A x : Atomic!TitleHeld(u, None, x) <=> x \in Range(titles)
    BY <1>4, UserAssumption DEF Atomic!TitleHeld, Atomic!TasksOf
  <2> QED
    BY <2>1
<1>7. ASSUME NEW e \in o.edits, e.task \in DOMAIN titles
      PROVE  (\E x \in e.title \ {Blank} : Atomic!TitleHeld(u, e.task, x))
               <=> (e.title \cap Range(titles)) \ {titles[e.task], Blank} # {}
  <2>1. \A t \in Tasks : owner[t] = u /\ t # e.task => title[t] # titles[e.task]
    BY <1>1, <1>3, <1>7, UserAssumption DEF DataOK, Integrity
  <2>2. \A x : Atomic!TitleHeld(u, e.task, x) <=> x \in Range(titles) /\ x # titles[e.task]
    BY <1>3, <1>4, <1>7, <2>1 DEF Atomic!TitleHeld, Atomic!TasksOf
  <2> QED
    BY <2>2
<1>8. ~UnknownTask(o, titles) => \A e \in o.edits : e.task \in DOMAIN titles
  BY DEF UnknownTask
<1> QED
  BY <1>5, <1>6, <1>7, <1>8 DEF TitleTaken, Atomic!Conflict

\* An empty title that the session shows to another task is there still.
LEMMA BlankIs ==
  ASSUME SerialInv, NEW r \in Requests, pc[r] = "commit", op[r].kind = "patch",
         SecondBlank(op[r], session[r].titles)
  PROVE  Atomic!BlankConflict(op[r])
<1> DEFINE o == op[r]
           titles == session[r].titles
<1>1. SessionCurrent(r) /\ session[r] \in Sessions
  BY DEF SerialInv, Inv, StepOK, PatchOK
<1>2. \A t \in DOMAIN titles : t \in Tasks /\ owner[t] = o.user /\ titles[t] = title[t]
  BY <1>1 DEF SessionCurrent, Sessions
<1>3. \A e \in o.edits :
        (\E t \in DOMAIN titles \ {e.task} : titles[t] = Blank)
          => Atomic!TitleHeld(o.user, e.task, Blank)
  BY <1>2 DEF Atomic!TitleHeld, Atomic!TasksOf
<1> QED
  BY <1>3 DEF SecondBlank, Atomic!BlankConflict

\* The titles of the tasks that are there, after the update.
LEMMA EditedIs ==
  ASSUME SerialInv, NEW r \in Requests, pc[r] = "commit", op[r].kind = "patch",
         ~UnknownTask(op[r], session[r].titles), NEW t \in Tasks
  PROVE  PatchedTitles(r)[t] = Atomic!Edited(op[r])[t]
<1> DEFINE o == op[r]
           E == {f \in o.edits : f.task = t}
<1>1. o \in Operations /\ SessionCurrent(r)
  BY DEF SerialInv, Inv, StepOK, PatchOK
<1>2. Atomic!Edited(o)[t] = Atomic!Given(UNION {e.title : e \in E}, title[t])
  BY DEF Atomic!Edited
<1>3. CASE t \notin EditedTasks(o)
  <2>1. UNION {e.title : e \in E} = {}
    BY <1>3 DEF EditedTasks
  <2>2. Atomic!Edited(o)[t] = title[t]
    BY <1>2, <2>1 DEF Atomic!Given
  <2> QED
    BY <1>3, <2>2 DEF PatchedTitles
<1>4. CASE t \in EditedTasks(o)
  <2> DEFINE e == EditOf(o, t)
  <2>1. e \in o.edits /\ e.task = t
    BY <1>4 DEF EditedTasks, EditOf
  <2>2. E = {e}
    BY <1>1, <2>1, SchemaAssumption
  <2>3. UNION {f.title : f \in E} = e.title
    BY <2>2
  <2>4. session[r].titles[t] = title[t]
    BY <1>1, <2>1 DEF UnknownTask, SessionCurrent
  <2>5. PatchedTitles(r)[t] = Written(e.title, title[t], title[t])
    BY <1>4, <2>4 DEF PatchedTitles
  <2> QED
    BY <1>2, <2>3, <2>5, WrittenGiven
<1> QED
  BY <1>3, <1>4

-----------------------------------------------------------------------------

(* Each step of a request is a step of AtomicUsers or none. *)

LEMMA AskMaps ==
  ASSUME SerialInv, NEW r \in Requests, Ask(r)
  PROVE  Atomic!Ask(r)
BY DEF SerialInv, PhaseOK, Ask, Atomic!Ask, data, Atomic!data

LEMMA DoneMaps ==
  ASSUME SerialInv, NEW r \in Requests, Done(r)
  PROVE  Atomic!Done(r)
BY DEF SerialInv, PhaseOK, Done, Atomic!Done, data, Atomic!data

LEMMA AbandonMaps ==
  ASSUME SerialInv, NEW r \in Requests, Abandon(r)
  PROVE  Atomic!Fail(r)
BY AnswerMaps DEF Abandon, Refuse, Atomic!Fail

\* The user, or a task to delete, is not there when it is read: the request takes
\* effect now.  Otherwise nothing that AtomicUsers has changes.
LEMMA ReadMaps ==
  ASSUME SerialInv, NEW r \in Requests, Read(r)
  PROVE  Atomic!Patch(r) \/ Atomic!Delete(r) \/ UNCHANGED Atomic!vars
<1> DEFINE o == op[r]
<1>1. pc[r] = "read" /\ o.kind \in {"patch", "delete"}
  BY DEF Read, SerialInv, Inv, StepOK
<1>2. CASE Refuse(r, "NotFound")
  <2>1. Atomic!Asked(r, o.kind) /\ Atomic!Refuse(r, "NotFound")
    BY <1>1, <1>2, AnswerMaps DEF Refuse
  <2>2. answer'[r] = "NotFound" /\ session'[r] = None
    BY <1>2 DEF Refuse, Answer, SerialInv, Inv, TypeOK
  <2>3. \/ email[o.user] = None
        \/ o.kind = "delete" /\ ~(o.tasks \subseteq TasksOf(o.user))
    BY <1>1, <2>1, <2>2, UserAssumption
       DEF Read, Atomic!Asked, Answers
  <2>4. CASE o.kind = "patch"
    BY <2>1, <2>3, <2>4 DEF Atomic!Patch
  <2>5. CASE o.kind = "delete"
    BY <2>1, <2>3, <2>5 DEF Atomic!Delete, Atomic!TasksOf, TasksOf
  <2> QED
    BY <1>1, <2>4, <2>5
<1>3. CASE UNCHANGED <<data, lock, op, answer>>
  BY <1>3 DEF data, Atomic!vars, Atomic!data
<1> QED
  BY <1>2, <1>3 DEF Read

\* Another user has the email that is asked for.
LEMMA CheckEmailMaps ==
  ASSUME Covered, SerialInv, NEW r \in Requests, CheckEmail(r)
  PROVE  Atomic!Patch(r) \/ UNCHANGED Atomic!vars
<1> DEFINE o == op[r]
<1>1. /\ pc[r] = "check" /\ o \in Operations /\ o.kind = "patch" /\ o.email # {}
      /\ SessionCurrent(r) /\ session[r] \in Sessions
  BY DEF CheckEmail, SerialInv, Inv, StepOK, PatchOK
<1>2. CASE \E u \in Users \ {o.user} : email[u] = EmailOf(o)
  <2>1. Refuse(r, "AlreadyExists")
    BY <1>2 DEF CheckEmail
  <2>2. Atomic!Asked(r, "patch") /\ Atomic!Refuse(r, "AlreadyExists")
    BY <1>1, <2>1, AnswerMaps DEF Refuse
  <2>3. PICK e \in o.email : TRUE
    BY <1>1
  <2>4. EmailOf(o) = e
    BY <1>1, EmailOfIs DEF Covered, LowerCaseOnly
  <2>5. Atomic!Conflict(o)
    BY <1>2, <2>4 DEF Atomic!Conflict, Atomic!Taken
  <2>6. email[o.user] # None
    BY <1>1, UserAssumption DEF SessionCurrent, Sessions
  <2> QED
    BY <2>2, <2>5, <2>6 DEF Atomic!Patch
<1>3. CASE ~\E u \in Users \ {o.user} : email[u] = EmailOf(o)
  BY <1>3 DEF CheckEmail, data, Atomic!vars, Atomic!data
<1> QED
  BY <1>2, <1>3

LEMMA PostMaps ==
  ASSUME SerialInv, NEW r \in Requests, Post(r)
  PROVE  Atomic!Post(r)
<1> DEFINE o == op[r]
<1>1. pc[r] = "commit" /\ o.kind = "post"
  BY DEF Post
<1>2. CASE EmailStored(o.email) /\ Refuse(r, "AlreadyExists")
  <2>1. Atomic!Asked(r, "post") /\ Atomic!Refuse(r, "AlreadyExists")
    BY <1>1, <1>2, AnswerMaps DEF Refuse
  <2> QED
    BY <1>2, <2>1 DEF Atomic!Post, EmailStored
<1>3. CASE ~EmailStored(o.email) /\ o.doubled /\ Refuse(r, "IntegrityError")
  <2>1. Atomic!Asked(r, "post") /\ Atomic!Refuse(r, "IntegrityError")
    BY <1>1, <1>3, AnswerMaps DEF Refuse
  <2> QED
    BY <1>3, <2>1 DEF Atomic!Post, EmailStored
<1>4. CASE /\ ~EmailStored(o.email)
           /\ ~o.doubled
           /\ \E u \in Users :
                /\ email[u] = None
                /\ email' = [email EXCEPT ![u] = o.email]
                /\ userDeleted' = [userDeleted EXCEPT ![u] = o.deleted]
                /\ \E new \in Inserted(u, o.titles, owner, title) :
                     owner' = new.owner /\ title' = new.title
           /\ Answer(r, "Ok")
           /\ UNCHANGED taskDeleted
  <2>1. PICK u \in Users :
          /\ email[u] = None
          /\ email' = [email EXCEPT ![u] = o.email]
          /\ userDeleted' = [userDeleted EXCEPT ![u] = o.deleted]
          /\ \E new \in Inserted(u, o.titles, owner, title) :
               owner' = new.owner /\ title' = new.title
    BY <1>4
  <2>2. Atomic!AddTasks(u, o.titles, title)
    BY <2>1, InsertedAdds
  <2>3. Atomic!Asked(r, "post") /\ Atomic!Answer(r, "Ok")
    BY <1>1, <1>4, AnswerMaps
  <2> QED
    BY <1>4, <2>1, <2>2, <2>3 DEF Atomic!Post, EmailStored
<1> QED
  BY <1>2, <1>3, <1>4 DEF Post

\* A PATCH answers what holds when it writes, and writes what it was asked for;
\* a constraint refuses it only for a second empty title.
LEMMA PatchMaps ==
  ASSUME Covered, SerialInv, NEW r \in Requests, Patch(r)
  PROVE  Atomic!Patch(r)
<1> DEFINE o == op[r]
           s == session[r]
<1>1. /\ pc[r] = "commit" /\ o.kind = "patch" /\ o \in Operations /\ o.user \in Users
      /\ SessionCurrent(r) /\ s \in Sessions /\ Inv
  BY OperationType DEF Patch, SerialInv, Inv, StepOK, PatchOK
<1>2. email[o.user] = s.email /\ email[o.user] # None
  BY <1>1, UserAssumption DEF SessionCurrent, Sessions
<1>3. CASE UnknownTask(o, s.titles) /\ Refuse(r, "NotFound")
  <2>1. Atomic!Asked(r, "patch") /\ Atomic!Refuse(r, "NotFound")
    BY <1>1, <1>3, AnswerMaps DEF Refuse
  <2> QED
    BY <1>1, <1>3, <2>1, KnownIs DEF Atomic!Patch
<1>4. CASE TitleTaken(o, s.titles) /\ Refuse(r, "AlreadyExists")
  <2>1. Atomic!Asked(r, "patch") /\ Atomic!Refuse(r, "AlreadyExists")
    BY <1>1, <1>4, AnswerMaps DEF Refuse
  <2>2. Atomic!Conflict(o)
    BY <1>1, <1>4, ConflictIs
  <2> QED
    BY <1>2, <2>1, <2>2 DEF Atomic!Patch
<1>5. ASSUME ~UnknownTask(o, s.titles), ~TitleTaken(o, s.titles)
      PROVE  PatchWrites(r) /\ Atomic!Known(o) /\ ~Atomic!Conflict(o)
  BY <1>1, <1>5, PatchedIs, KnownIs, ConflictIs
<1>6. ASSUME ~UnknownTask(o, s.titles), ~TitleTaken(o, s.titles),
             NEW new \in Inserted(o.user, o.adds, PatchedOwners(r), PatchedTitles(r)),
             Integrity(PatchedEmails(r), new.owner, new.title), ~o.doubled,
             email' = PatchedEmails(r),
             userDeleted' = [userDeleted EXCEPT ![o.user] =
                               Written(o.deleted, s.deleted, @)],
             owner' = new.owner, title' = new.title,
             Answer(r, "Ok"), UNCHANGED taskDeleted
      PROVE  Atomic!Patch(r)
  <2>1. email' = [email EXCEPT ![o.user] = Atomic!Given(o.email, @)]
    BY <1>2, <1>6, WrittenGiven DEF PatchedEmails
  <2>2. userDeleted' = [userDeleted EXCEPT ![o.user] = Atomic!Given(o.deleted, @)]
    <3>1. s.deleted = userDeleted[o.user]
      BY <1>1 DEF SerialInv, ReadWhole
    <3> QED
      BY <1>6, <3>1, WrittenGiven
  <2>3. Atomic!AddTasks(o.user, o.adds, Atomic!Edited(o))
    <3>1. \A t \in Tasks : PatchedOwners(r)[t] = owner[t]
      BY <1>1, <1>5, <1>6 DEF PatchWrites, Covered, NoMoves
    <3>2. \A t \in Tasks : PatchedTitles(r)[t] = Atomic!Edited(o)[t]
      BY <1>1, <1>6, EditedIs
    <3> QED
      BY <1>6, <3>1, <3>2, InsertedAdds
  <2>4. Atomic!TitlesDistinct(o.user)'
    <3>1. UNCHANGED op
      BY <1>6 DEF Answer
    <3>2. o.user # None
      BY <1>1, UserAssumption
    <3>3. Integrity(email', owner', title')
      BY <1>6
    <3> QED
      BY <3>1, <3>2, <3>3 DEF Integrity, Atomic!TitlesDistinct
  <2>5. Atomic!Asked(r, "patch") /\ Atomic!Answer(r, "Ok")
    BY <1>1, <1>6, AnswerMaps
  <2> QED
    BY <1>2, <1>5, <1>6, <2>1, <2>2, <2>3, <2>4, <2>5 DEF Atomic!Patch
<1>7. ASSUME ~UnknownTask(o, s.titles), ~TitleTaken(o, s.titles),
             NEW new \in Inserted(o.user, o.adds, PatchedOwners(r), PatchedTitles(r)),
             \/ ~Integrity(PatchedEmails(r), new.owner, new.title)
             \/ o.doubled
             \/ TakesOver(r),
             Refuse(r, "IntegrityError")
      PROVE  Atomic!Patch(r)
  <2>1. o.doubled \/ SecondBlank(o, s.titles)
    <3>1. \A e \in o.edits : e.owner \ {o.user} = {}
      BY <1>1 DEF Covered, NoMoves
    <3>2. \A e \in o.email : Normal[e] = e
      BY <1>1 DEF Covered, LowerCaseOnly
    <3>3. TasksOf(o.user) \ DOMAIN s.titles = {}
      BY <1>1 DEF SerialInv, ReadWhole, TasksOf
    <3> QED
      BY <1>1, <1>5, <1>7, <3>1, <3>2, <3>3, PatchKeepsIntegrity
  <2>2. Atomic!BlankConflict(o)
    BY <1>1, <2>1, BlankIs DEF Atomic!BlankConflict
  <2>3. Atomic!Asked(r, "patch") /\ Atomic!Refuse(r, "IntegrityError")
    BY <1>1, <1>7, AnswerMaps DEF Refuse
  <2> QED
    BY <1>2, <1>5, <1>7, <2>2, <2>3 DEF Atomic!Patch
<1> QED
  BY <1>3, <1>4, <1>6, <1>7 DEF Patch

LEMMA DeleteMaps ==
  ASSUME Covered, SerialInv, NEW r \in Requests, Delete(r)
  PROVE  Atomic!Delete(r)
<1> DEFINE o == op[r]
<1>1. /\ pc[r] = "commit" /\ o.kind = "delete" /\ o \in Operations
      /\ o.user \in Users /\ o.tasks \subseteq Tasks /\ o.tasks # {} /\ TypeOK
  BY OperationType DEF Delete, SerialInv, Inv, StepOK, Covered, NoWholeUsers
<1>2. Atomic!Asked(r, "delete") /\ Atomic!Answer(r, "Ok")
  BY <1>1, AnswerMaps DEF Delete
<1>3. email[o.user] # None /\ o.tasks \subseteq Atomic!TasksOf(o.user)
  BY <1>1 DEF SerialInv, DeleteFound, FoundBy, Atomic!TasksOf
<1>4. userDeleted' = [userDeleted EXCEPT ![o.user] = @ \/ o.tasks = {}]
  <2>1. (o.tasks = {} /\ ~session[r].deleted) = (o.tasks = {})
    BY <1>1
  <2> QED
    BY <2>1 DEF Delete
<1>5. taskDeleted' = [t \in Tasks |->
                        taskDeleted[t] \/ t \in IF o.tasks = {} THEN Atomic!TasksOf(o.user)
                                                ELSE o.tasks]
  BY <1>1 DEF Delete
<1>6. UNCHANGED <<email, owner, title>>
  BY DEF Delete
<1> QED
  BY <1>2, <1>3, <1>4, <1>5, <1>6 DEF Atomic!Delete

LEMMA StepMaps ==
  ASSUME Covered, SerialInv, [Next]_vars
  PROVE  [Atomic!Next]_(Atomic!vars)
<1>1. UNCHANGED vars => UNCHANGED Atomic!vars
  BY DEF vars, data, Atomic!vars, Atomic!data
<1>2. ASSUME NEW r \in Requests, LockUser(r) \/ LockEmail(r)
      PROVE  UNCHANGED Atomic!vars
  BY <1>2 DEF LockUser, LockEmail, Acquire, data, Atomic!vars, Atomic!data
<1>3. ASSUME NEW r \in Requests, Statement(r)
      PROVE  Atomic!Post(r) \/ Atomic!Patch(r) \/ Atomic!Delete(r) \/ UNCHANGED Atomic!vars
  BY <1>3, ReadMaps, CheckEmailMaps, PostMaps, PatchMaps, DeleteMaps DEF Statement
<1> QED
  BY <1>1, <1>2, <1>3, AskMaps, DoneMaps, AbandonMaps DEF Next, Atomic!Next

\* However requests for any users, tasks and emails interleave, every one of them
\* takes effect in one step: its answer is true of the tables at that step, what
\* it validated still holds when it writes, and only for a second empty title does
\* a constraint refuse the write.
THEOREM AtomicRequests ==
  ASSUME Covered
  PROVE  Spec => ImplementsAtomicUsers
<1>1. Init => Atomic!Init
  BY DEF Init, Atomic!Init
<1>2. SerialInv /\ [Next]_vars => SerialInv'
  BY Covered, SerialNext
<1>3. SerialInv /\ [Next]_vars => [Atomic!Next]_(Atomic!vars)
  BY Covered, StepMaps
<1> QED
  BY <1>1, <1>2, <1>3, SerialInit, PTL DEF Spec, ImplementsAtomicUsers, Atomic!Spec

=============================================================================
