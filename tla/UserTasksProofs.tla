-------------------------- MODULE UserTasksProofs --------------------------
(***************************************************************************)
(* Proofs about UserTasks, for any number of concurrent requests and for   *)
(* every operation that the schemas let through: what a PATCH has read and *)
(* checked under its advisory locks still holds when it writes.            *)
(***************************************************************************)
EXTENDS UserTasks, TLAPS

TitlesType == UNION {[T -> Titles] : T \in SUBSET Tasks}

\* The unique constraints and the foreign key hold, and a task has a title.
DataOK ==
  /\ Integrity(email, owner, title)
  /\ \A t \in Tasks : owner[t] # None => title[t] \in Titles

\* Where each kind of request may be, and what it has in its session there.
StepOK(r) ==
  /\ pc[r] # "idle" => op[r] \in Operations
  /\ pc[r] = "user" => op[r].kind = "patch"
  /\ pc[r] = "read" => op[r].kind \in {"patch", "delete"}
  /\ pc[r] = "email" => op[r].kind \in {"post", "patch"}
  /\ pc[r] = "check" => op[r].kind = "patch"
  /\ pc[r] \in {"email", "check", "commit"} /\ op[r].kind # "post" =>
       session[r] \in Sessions
  /\ pc[r] \in {"idle", "done"} => \A k \in Locks : lock[k] # r
  /\ answer[r] # None => pc[r] = "done"

\* A POST inserts its email under the lock of that email.
PostOK(r) ==
  pc[r] = "commit" /\ op[r].kind = "post" => lock[LockKey[EmailOf(op[r])]] = r

\* A PATCH that has read its user holds the user's lock, and what it has read
\* is what is stored; DELETE, which takes no lock, does not disturb it.
SessionCurrent(r) ==
  LET u == op[r].user
      s == session[r] IN
    /\ lock[LockKey[u]] = r
    /\ email[u] = s.email
    /\ \A t \in DOMAIN s.titles : owner[t] = u /\ title[t] = s.titles[t]

\* A PATCH that changes the email holds the lock of the new one, and once it
\* has checked it no other user has it.
EmailReserved(r) ==
  LET o == op[r] IN
    o.email # {} /\ EmailOf(o) # session[r].email =>
      /\ lock[LockKey[EmailOf(o)]] = r
      /\ pc[r] = "commit" => \A u \in Users \ {o.user} : email[u] # EmailOf(o)

PatchOK(r) ==
  op[r].kind = "patch" =>
    /\ pc[r] = "read" => lock[LockKey[op[r].user]] = r
    /\ pc[r] \in {"email", "check", "commit"} => SessionCurrent(r)
    /\ pc[r] \in {"check", "commit"} => EmailReserved(r)
    /\ pc[r] \in {"email", "check"} => op[r].email # {}

Inv ==
  /\ TypeOK
  /\ DataOK
  /\ \A r \in Requests : StepOK(r)
  /\ \A r \in Requests : pc[r] # "idle" => PostOK(r) /\ PatchOK(r)

-----------------------------------------------------------------------------

(* Operations and what they are about. *)

LEMMA LockKeyType ==
  ASSUME NEW k \in Users \cup Emails
  PROVE  LockKey[k] \in Locks
BY UserAssumption DEF Locks, Range

LEMMA OperationType ==
  ASSUME NEW o \in Operations
  PROVE  /\ o.kind \in {"post", "patch", "delete"}
         /\ o.kind = "post" =>
              o.email \in Emails /\ o.deleted \in BOOLEAN /\ o.titles \subseteq Titles
         /\ o.kind = "patch" =>
              /\ o.user \in Users
              /\ o.email \subseteq Emails
              /\ o.deleted \subseteq BOOLEAN
              /\ o.adds \subseteq Titles
              /\ o.doubled \in BOOLEAN
              /\ o.edits \subseteq Edits
         /\ o.kind = "delete" => o.user \in Users /\ o.tasks \subseteq Tasks
<1>1. o \in Posts \/ o \in Patches \/ o \in Deletes
  BY UserAssumption
<1>2. CASE o \in Posts
  BY <1>2 DEF Posts
<1>3. CASE o \in Patches
  BY <1>3 DEF Patches
<1>4. CASE o \in Deletes
  BY <1>4 DEF Deletes
<1> QED
  BY <1>1, <1>2, <1>3, <1>4

\* The email that a request locks is an email in lower case.
LEMMA EmailOfType ==
  ASSUME NEW o \in Operations,
         o.kind = "post" \/ (o.kind = "patch" /\ o.email # {})
  PROVE  EmailOf(o) \in Emails /\ Normal[EmailOf(o)] = EmailOf(o)
<1> DEFINE e == CHOOSE x \in IF o.kind = "post" THEN {o.email} ELSE o.email : TRUE
<1>1. e \in Emails
  BY OperationType
<1>2. EmailOf(o) = Normal[e]
  BY DEF EmailOf
<1> HIDE DEF e
<1> QED
  BY <1>1, <1>2, UserAssumption

\* It is the email of the request, normalised.
LEMMA EmailOfIs ==
  ASSUME NEW o \in Operations, NEW x
  PROVE  /\ o.kind = "post" => EmailOf(o) = Normal[o.email]
         /\ o.kind = "patch" /\ x \in o.email => EmailOf(o) = Normal[x]
<1>1. o.kind = "post" => EmailOf(o) = Normal[o.email]
  BY DEF EmailOf
<1>2. ASSUME o.kind = "patch", x \in o.email
      PROVE  EmailOf(o) = Normal[x]
  <2> DEFINE e == CHOOSE y \in o.email : TRUE
  <2>1. e \in o.email
    BY <1>2
  <2>2. e = x
    BY <1>2, <2>1, SchemaAssumption DEF AtMostOne
  <2>3. EmailOf(o) = Normal[e]
    BY <1>2 DEF EmailOf
  <2> QED
    BY <2>2, <2>3
<1> QED
  BY <1>1, <1>2

\* A field is written with a value of its own or left as it is stored.
LEMMA WrittenIs ==
  ASSUME NEW field, NEW loaded, NEW stored
  PROVE  \/ field \subseteq {loaded} /\ Written(field, loaded, stored) = stored
         \/ /\ Written(field, loaded, stored) \in field
            /\ ~(field \subseteq {loaded})
BY DEF Written

\* The rows N are new tasks of u with distinct titles of T, the others are as
\* owners and titles say.
Adds(N, new, u, T, owners, titles) ==
  /\ new.owner = [t \in Tasks |-> IF t \in N THEN u ELSE owners[t]]
  /\ new.title = [t \in Tasks |-> new.title[t]]
  /\ \A t \in Tasks \ N : new.title[t] = titles[t]
  /\ \A t \in N : new.title[t] \in T
  /\ \A s, t \in N : new.title[s] = new.title[t] => s = t

Unused == {t \in Tasks : owner[t] = None}

\* What is inserted goes to rows that were not in use.
LEMMA InsertedIs ==
  ASSUME NEW u, NEW T, NEW owners, NEW titles, NEW new \in Inserted(u, T, owners, titles)
  PROVE  \E N \in SUBSET Unused : Adds(N, new, u, T, owners, titles)
<1>1. PICK N \in SUBSET Unused :
        \E named \in Bijection(N, T) :
          new = [owner |-> [t \in Tasks |-> IF t \in DOMAIN named THEN u ELSE owners[t]],
                 title |-> [t \in Tasks |-> IF t \in DOMAIN named THEN named[t]
                                            ELSE titles[t]]]
  BY DEF Inserted, Unused
<1>2. PICK named \in Bijection(N, T) :
        new = [owner |-> [t \in Tasks |-> IF t \in DOMAIN named THEN u ELSE owners[t]],
               title |-> [t \in Tasks |-> IF t \in DOMAIN named THEN named[t]
                                          ELSE titles[t]]]
  BY <1>1
<1>3. /\ named \in [N -> T]
      /\ DOMAIN named = N
      /\ \A s, t \in N : named[s] = named[t] => s = t
  BY DEF Bijection, Injection, Surjection, IsInjective
<1>4. new.owner = [t \in Tasks |-> IF t \in N THEN u ELSE owners[t]]
  BY <1>2, <1>3
<1>5. new.title = [t \in Tasks |-> IF t \in N THEN named[t] ELSE titles[t]]
  BY <1>2, <1>3
<1>6. new.title = [t \in Tasks |-> new.title[t]]
  BY <1>5
<1>7. /\ \A t \in Tasks \ N : new.title[t] = titles[t]
      /\ \A t \in N : new.title[t] = named[t]
  BY <1>5 DEF Unused
<1>8. Adds(N, new, u, T, owners, titles)
  BY <1>3, <1>4, <1>6, <1>7 DEF Adds
<1> QED
  BY <1>8

-----------------------------------------------------------------------------

(* Statements that write nothing. *)

\* A step of r leaves what other requests hold and have read alone.
Private(r) ==
  /\ \A q \in Requests \ {r} :
       /\ pc'[q] = pc[q] /\ op'[q] = op[q]
       /\ session'[q] = session[q] /\ answer'[q] = answer[q]
  /\ \A k \in Locks, q \in Requests \ {r} : lock'[k] = q <=> lock[k] = q

\* What r writes: nothing of a user that another PATCH has read, and no email in
\* lower case that it has not locked.
Harmless(r) ==
  /\ \A q \in Requests \ {r} :
       op[q].kind = "patch" /\ pc[q] \in {"email", "check", "commit"} =>
         LET u == op[q].user IN
           /\ email'[u] = email[u]
           /\ \A t \in Tasks : owner[t] = u => owner'[t] = u /\ title'[t] = title[t]
  /\ \A u \in Users, k \in Emails :
       email'[u] = k /\ email[u] # k /\ Normal[k] = k => lock[LockKey[k]] = r

LEMMA OthersKeep ==
  ASSUME Inv, NEW r \in Requests, Private(r), Harmless(r),
         NEW q \in Requests \ {r}
  PROVE  StepOK(q)' /\ (pc'[q] # "idle" => PostOK(q)' /\ PatchOK(q)')
<1> DEFINE o == op[q]
<1>1. /\ pc'[q] = pc[q] /\ op'[q] = op[q]
      /\ session'[q] = session[q] /\ answer'[q] = answer[q]
      /\ \A k \in Locks : lock'[k] = q <=> lock[k] = q
  BY DEF Private
<1>2. StepOK(q)'
  BY <1>1 DEF Inv, StepOK
<1>3. ASSUME pc'[q] # "idle"
      PROVE  PostOK(q)' /\ PatchOK(q)'
  <2>1. PostOK(q) /\ PatchOK(q) /\ o \in Operations
    BY <1>1, <1>3 DEF Inv, StepOK
  <2>2. PostOK(q)'
    <3>1. o.kind = "post" => LockKey[EmailOf(o)] \in Locks
      BY <2>1, EmailOfType, LockKeyType
    <3> QED
      BY <1>1, <2>1, <3>1 DEF PostOK
  <2>3. PatchOK(q)'
    <3> SUFFICES ASSUME o.kind = "patch"
                 PROVE  PatchOK(q)'
      BY <1>1 DEF PatchOK
    <3>1. o.user \in Users /\ LockKey[o.user] \in Locks
      BY <2>1, OperationType, LockKeyType
    <3>2. o.email # {} => /\ EmailOf(o) \in Emails /\ LockKey[EmailOf(o)] \in Locks
                          /\ Normal[EmailOf(o)] = EmailOf(o)
      BY <2>1, EmailOfType, LockKeyType
    <3>3. ASSUME pc[q] \in {"email", "check", "commit"}, SessionCurrent(q)
          PROVE  SessionCurrent(q)'
      <4>1. \A t \in DOMAIN session[q].titles : t \in Tasks
        BY <1>1, <3>3 DEF Inv, StepOK, Sessions
      <4> QED
        BY <1>1, <3>1, <3>3, <4>1 DEF SessionCurrent, Harmless
    <3>4. ASSUME EmailReserved(q)
          PROVE  EmailReserved(q)'
      <4> SUFFICES ASSUME o.email # {}, EmailOf(o) # session[q].email
                   PROVE  EmailReserved(q)'
        BY <1>1 DEF EmailReserved
      <4>1. lock[LockKey[EmailOf(o)]] = q
        BY <3>4 DEF EmailReserved
      <4>2. \A u \in Users : email'[u] = EmailOf(o) => email[u] = EmailOf(o)
        BY <3>2, <4>1 DEF Harmless
      <4> QED
        BY <1>1, <3>2, <3>4, <4>1, <4>2 DEF EmailReserved
    <3> QED
      BY <1>1, <2>1, <3>1, <3>3, <3>4 DEF PatchOK
  <2> QED
    BY <2>2, <2>3
<1> QED
  BY <1>2, <1>3

\* Such a step preserves the invariant if it does so for r and for the data.
LEMMA RequestStep ==
  ASSUME Inv, NEW r \in Requests, Private(r), Harmless(r), TypeOK', DataOK',
         StepOK(r)', pc'[r] # "idle" => PostOK(r)' /\ PatchOK(r)'
  PROVE  Inv'
<1>1. \A q \in Requests : StepOK(q)' /\ (pc'[q] # "idle" => PostOK(q)' /\ PatchOK(q)')
  BY OthersKeep
<1> QED
  BY <1>1 DEF Inv

LEMMA QuietStep ==
  ASSUME Inv, NEW r \in Requests, Private(r), UNCHANGED <<email, owner, title>>, TypeOK',
         StepOK(r)', pc'[r] # "idle" => PostOK(r)' /\ PatchOK(r)'
  PROVE  Inv'
<1>1. DataOK'
  BY DEF Inv, DataOK, Integrity
<1>2. Harmless(r)
  BY DEF Harmless
<1> QED
  BY <1>1, <1>2, RequestStep

LEMMA AskInv ==
  ASSUME Inv, NEW r \in Requests, Ask(r)
  PROVE  Inv'
<1> USE DEF Inv, TypeOK
<1>1. PICK o \in Operations : /\ op' = [op EXCEPT ![r] = o]
                              /\ pc' = [pc EXCEPT ![r] = FirstStep[o.kind]]
  BY DEF Ask
<1>2. pc[r] = "idle" /\ UNCHANGED <<data, lock, session, answer>>
  BY DEF Ask
<1>3. /\ o.kind = "post" => FirstStep[o.kind] = "email"
      /\ o.kind = "patch" => FirstStep[o.kind] = "user"
      /\ o.kind = "delete" => FirstStep[o.kind] = "read"
  BY DEF FirstStep
<1>4. o.kind \in {"post", "patch", "delete"}
  BY OperationType
<1>5. TypeOK'
  BY <1>1, <1>2, <1>3, <1>4 DEF data
<1>6. Private(r)
  BY <1>1, <1>2 DEF Private
<1>7. StepOK(r)'
  BY <1>1, <1>2, <1>3, <1>4 DEF StepOK
<1>8. PostOK(r)' /\ PatchOK(r)'
  BY <1>1, <1>3, <1>4 DEF PostOK, PatchOK
<1> QED
  BY <1>2, <1>5, <1>6, <1>7, <1>8, QuietStep DEF data

\* A lock that is taken was held by nobody else.
LEMMA AcquireFrame ==
  ASSUME Inv, NEW r \in Requests, NEW k \in Locks, NEW s, Acquire(r, k, s)
  PROVE  Private(r)
BY UserAssumption DEF Inv, TypeOK, Acquire, Goto, Private

LEMMA LockUserInv ==
  ASSUME Inv, NEW r \in Requests, LockUser(r)
  PROVE  Inv'
<1> USE DEF Inv, TypeOK
<1>1. /\ pc[r] = "user" /\ op[r] \in Operations /\ op[r].kind = "patch"
      /\ LockKey[op[r].user] \in Locks
  BY OperationType, LockKeyType DEF LockUser, StepOK
<1>2. Acquire(r, LockKey[op[r].user], "read")
  BY DEF LockUser
<1>3. /\ lock' = [lock EXCEPT ![LockKey[op[r].user]] = r]
      /\ pc' = [pc EXCEPT ![r] = "read"]
      /\ UNCHANGED <<data, op, session, answer>>
  BY <1>2 DEF Acquire, Goto
<1>4. TypeOK'
  BY <1>1, <1>3 DEF data
<1>5. StepOK(r)'
  BY <1>1, <1>3 DEF StepOK
<1>6. PostOK(r)' /\ PatchOK(r)'
  BY <1>1, <1>3 DEF PostOK, PatchOK
<1> QED
  BY <1>1, <1>2, <1>3, <1>4, <1>5, <1>6, AcquireFrame, QuietStep DEF data

LEMMA LockEmailInv ==
  ASSUME Inv, NEW r \in Requests, LockEmail(r)
  PROVE  Inv'
<1> USE DEF Inv, TypeOK
<1> DEFINE next == IF op[r].kind = "post" THEN "commit" ELSE "check"
           o == op[r]
<1>1. /\ pc[r] = "email" /\ o \in Operations /\ o.kind \in {"post", "patch"}
      /\ PatchOK(r)
  BY DEF LockEmail, StepOK
<1>2. LockKey[EmailOf(o)] \in Locks
  BY <1>1, EmailOfType, LockKeyType DEF PatchOK
<1>3. Acquire(r, LockKey[EmailOf(o)], next)
  BY DEF LockEmail
<1>4. /\ lock' = [lock EXCEPT ![LockKey[EmailOf(o)]] = r]
      /\ pc' = [pc EXCEPT ![r] = next]
      /\ UNCHANGED <<data, op, session, answer>>
  BY <1>3 DEF Acquire, Goto
<1>5. TypeOK'
  BY <1>1, <1>2, <1>4 DEF data
<1>6. StepOK(r)'
  BY <1>1, <1>4 DEF StepOK
<1>7. PostOK(r)'
  BY <1>1, <1>2, <1>4 DEF PostOK
<1>8. PatchOK(r)'
  <2> SUFFICES ASSUME o.kind = "patch"
               PROVE  PatchOK(r)'
    BY <1>4 DEF PatchOK
  <2>1. SessionCurrent(r) /\ o.email # {} /\ LockKey[o.user] \in Locks
    BY <1>1, OperationType, LockKeyType DEF PatchOK
  <2>2. SessionCurrent(r)'
    BY <1>4, <2>1 DEF SessionCurrent, data
  <2>3. EmailReserved(r)'
    BY <1>1, <1>2, <1>4, <2>1 DEF EmailReserved, data
  <2> QED
    BY <1>1, <1>4, <2>1, <2>2, <2>3 DEF PatchOK
<1> QED
  BY <1>2, <1>3, <1>4, <1>5, <1>6, <1>7, <1>8, AcquireFrame, QuietStep DEF data

\* What is read of a user that exists is a session.
LEMMA LoadedType ==
  ASSUME TypeOK, DataOK, NEW u \in Users, email[u] # None
  PROVE  Loaded(u) \in Sessions
<1>1. Restrict(title, TasksOf(u)) \in [TasksOf(u) -> Titles]
  BY UserAssumption DEF TypeOK, DataOK, TasksOf, Restrict
<1>2. Restrict(title, TasksOf(u)) \in TitlesType
  BY <1>1 DEF TasksOf, TitlesType
<1> QED
  BY <1>2 DEF Loaded, Sessions, TypeOK, TitlesType

\* A request that is answered lets its locks go; what it read is forgotten.
LEMMA AnswerFrame ==
  ASSUME Inv, NEW r \in Requests, pc[r] \notin {"idle", "done"}, NEW a \in Answers,
         Answer(r, a)
  PROVE  /\ Private(r)
         /\ StepOK(r)' /\ PostOK(r)' /\ PatchOK(r)'
         /\ lock' \in [Locks -> Requests \cup {None}]
         /\ pc' = [pc EXCEPT ![r] = "done"]
         /\ op' \in [Requests -> Operations \cup {None}]
         /\ session' \in [Requests -> Sessions \cup {None}]
         /\ answer' \in [Requests -> Answers \cup {None}]
<1> USE DEF Inv, TypeOK, Answers
<1>1. /\ answer' = [answer EXCEPT ![r] = a]
      /\ session' = [session EXCEPT ![r] = None]
      /\ lock' = [k \in Locks |-> IF lock[k] = r THEN None ELSE lock[k]]
      /\ pc' = [pc EXCEPT ![r] = "done"]
      /\ op' = op
  BY DEF Answer, Goto
<1>2. Private(r)
  BY <1>1, UserAssumption DEF Private
<1>3. StepOK(r)'
  BY <1>1, UserAssumption DEF StepOK
<1>4. PostOK(r)' /\ PatchOK(r)'
  BY <1>1 DEF PostOK, PatchOK
<1> QED
  BY <1>1, <1>2, <1>3, <1>4

LEMMA RefuseInv ==
  ASSUME Inv, NEW r \in Requests, pc[r] \notin {"idle", "done"}, NEW a \in Answers,
         Refuse(r, a)
  PROVE  Inv'
<1>1. TypeOK'
  BY AnswerFrame DEF Refuse, data, Inv, TypeOK, Answers
<1> QED
  BY <1>1, AnswerFrame, QuietStep DEF Refuse, data

LEMMA ReadInv ==
  ASSUME Inv, NEW r \in Requests, Read(r)
  PROVE  Inv'
<1> USE DEF Inv, TypeOK
<1> DEFINE o == op[r]
           next == IF ChangesEmail(o) THEN "email" ELSE "commit"
<1>1. /\ pc[r] = "read" /\ o \in Operations /\ o.kind \in {"patch", "delete"}
      /\ o.user \in Users
  BY OperationType DEF Read, StepOK
<1>2. CASE Refuse(r, "NotFound")
  BY <1>1, <1>2, RefuseInv DEF Answers
<1>3. CASE /\ email[o.user] # None
           /\ session' = [session EXCEPT ![r] = Loaded(o.user)]
           /\ Goto(r, next)
           /\ UNCHANGED <<data, lock, op, answer>>
  <2>1. Loaded(o.user) \in Sessions
    BY <1>1, <1>3, LoadedType
  <2>2. pc' = [pc EXCEPT ![r] = next]
    BY <1>3 DEF Goto
  <2>3. TypeOK'
    BY <1>3, <2>1, <2>2 DEF data
  <2>4. Private(r)
    BY <1>3, <2>2 DEF Private
  <2>5. StepOK(r)'
    BY <1>1, <1>3, <2>1, <2>2 DEF StepOK, ChangesEmail
  <2>6. PatchOK(r)'
    <3> SUFFICES ASSUME o.kind = "patch"
                 PROVE  PatchOK(r)'
      BY <1>3 DEF PatchOK
    <3>1. lock[LockKey[o.user]] = r
      BY <1>1 DEF PatchOK
    <3>2. session'[r] = Loaded(o.user)
      BY <1>3
    <3>3. SessionCurrent(r)'
      BY <1>3, <3>1, <3>2 DEF SessionCurrent, Loaded, TasksOf, Restrict, data
    <3>4. pc'[r] = "commit" => o.email = {} \/ EmailOf(o) = session'[r].email
      BY <2>2, <3>2 DEF ChangesEmail, Loaded
    <3>5. pc'[r] = "commit" => EmailReserved(r)'
      BY <1>3, <3>4 DEF EmailReserved
    <3> QED
      BY <1>3, <2>2, <3>3, <3>5 DEF PatchOK, ChangesEmail
  <2>7. PostOK(r)'
    BY <1>1, <1>3 DEF PostOK
  <2> QED
    BY <1>3, <2>3, <2>4, <2>5, <2>6, <2>7, QuietStep DEF data
<1> QED
  BY <1>2, <1>3 DEF Read

LEMMA CheckEmailInv ==
  ASSUME Inv, NEW r \in Requests, CheckEmail(r)
  PROVE  Inv'
<1> USE DEF Inv, TypeOK
<1> DEFINE o == op[r]
<1>1. pc[r] = "check" /\ o \in Operations /\ o.kind = "patch"
  BY DEF CheckEmail, StepOK
<1>2. CASE \E u \in Users \ {o.user} : email[u] = EmailOf(o)
  BY <1>1, <1>2, RefuseInv DEF CheckEmail, Answers
<1>3. CASE ~\E u \in Users \ {o.user} : email[u] = EmailOf(o)
  <2>1. pc' = [pc EXCEPT ![r] = "commit"] /\ UNCHANGED <<data, lock, op, session, answer>>
    BY <1>3 DEF CheckEmail, Goto
  <2>2. TypeOK' /\ Private(r)
    BY <2>1 DEF data, Private
  <2>3. StepOK(r)' /\ PostOK(r)'
    BY <1>1, <2>1 DEF StepOK, PostOK
  <2>4. SessionCurrent(r) /\ EmailReserved(r)
    BY <1>1 DEF PatchOK
  <2>5. SessionCurrent(r)'
    BY <2>1, <2>4 DEF SessionCurrent, data
  <2>6. EmailReserved(r)'
    BY <1>3, <2>1, <2>4 DEF EmailReserved, data
  <2>7. PatchOK(r)'
    BY <2>1, <2>5, <2>6 DEF PatchOK
  <2> QED
    BY <2>1, <2>2, <2>3, <2>7, QuietStep DEF data
<1> QED
  BY <1>2, <1>3

LEMMA DoneInv ==
  ASSUME Inv, NEW r \in Requests, Done(r)
  PROVE  Inv'
<1> USE DEF Inv, TypeOK
<1>1. /\ pc[r] = "done"
      /\ op' = [op EXCEPT ![r] = None]
      /\ answer' = [answer EXCEPT ![r] = None]
      /\ pc' = [pc EXCEPT ![r] = "idle"]
      /\ UNCHANGED <<data, lock, session>>
  BY DEF Done, Goto
<1>2. TypeOK' /\ Private(r)
  BY <1>1 DEF data, Private
<1>3. StepOK(r)'
  BY <1>1 DEF StepOK
<1> QED
  BY <1>1, <1>2, <1>3, QuietStep DEF data

-----------------------------------------------------------------------------

(* The writing statements. *)

LEMMA DeleteInv ==
  ASSUME Inv, NEW r \in Requests, Delete(r)
  PROVE  Inv'
<1> USE DEF Inv, TypeOK
<1>1. pc[r] = "commit" /\ Answer(r, "Ok") /\ UNCHANGED <<email, owner, title>>
  BY DEF Delete
<1>2. /\ userDeleted' \in [Users -> BOOLEAN]
      /\ taskDeleted' \in [Tasks -> BOOLEAN]
  BY DEF Delete
<1>3. TypeOK'
  BY <1>1, <1>2, AnswerFrame DEF Answers
<1> QED
  BY <1>1, <1>3, AnswerFrame, QuietStep DEF Answers

\* The new user has an email that nobody has, and no tasks but its own.
LEMMA PostInv ==
  ASSUME Inv, NEW r \in Requests, Post(r)
  PROVE  Inv'
<1> USE DEF Inv, TypeOK
<1> DEFINE o == op[r]
<1>1. /\ pc[r] = "commit" /\ o \in Operations /\ o.kind = "post"
      /\ o.email \in Emails /\ o.deleted \in BOOLEAN /\ o.titles \subseteq Titles
  BY OperationType DEF Post, StepOK
<1>2. CASE Refuse(r, "AlreadyExists")
  BY <1>1, <1>2, RefuseInv DEF Answers
<1>4. CASE Refuse(r, "IntegrityError")
  BY <1>1, <1>4, RefuseInv DEF Answers
<1>3. CASE /\ ~EmailStored(o.email)
           /\ \E u \in Users :
                /\ email[u] = None
                /\ email' = [email EXCEPT ![u] = o.email]
                /\ userDeleted' = [userDeleted EXCEPT ![u] = o.deleted]
                /\ \E new \in Inserted(u, o.titles, owner, title) :
                     owner' = new.owner /\ title' = new.title
           /\ Answer(r, "Ok")
           /\ UNCHANGED taskDeleted
  <2>0. PICK u \in Users :
          /\ email[u] = None
          /\ email' = [email EXCEPT ![u] = o.email]
          /\ userDeleted' = [userDeleted EXCEPT ![u] = o.deleted]
          /\ \E new \in Inserted(u, o.titles, owner, title) :
               owner' = new.owner /\ title' = new.title
    BY <1>3
  <2>1. PICK new \in Inserted(u, o.titles, owner, title) :
          owner' = new.owner /\ title' = new.title
    BY <2>0
  <2>2. Answer(r, "Ok") /\ UNCHANGED taskDeleted
    BY <1>3
  <2>8. PICK N \in SUBSET Unused : Adds(N, new, u, o.titles, owner, title)
    BY InsertedIs
  <2>3. /\ owner' = [t \in Tasks |-> IF t \in N THEN u ELSE owner[t]]
        /\ title' = [t \in Tasks |-> title'[t]]
        /\ \A t \in Tasks \ N : title'[t] = title[t]
        /\ \A t \in N : title'[t] \in o.titles
        /\ \A s, t \in N : title'[s] = title'[t] => s = t
    BY <2>1, <2>8 DEF Adds
  <2>4. \A t \in Tasks : owner[t] # u
    BY <2>0, UserAssumption DEF DataOK, Integrity
  <2>5. DataOK'
    <3>1. \A v, w \in Users : email'[v] # None /\ email'[v] = email'[w] => v = w
      BY <1>1, <1>3, <2>0 DEF EmailStored, DataOK, Integrity
    <3>2. \A t \in Tasks : owner'[t] # None =>
            email'[owner'[t]] # None /\ title'[t] \in Titles
      BY <1>1, <2>0, <2>3, <2>4, UserAssumption DEF DataOK, Integrity, Unused
    <3>3. \A s, t \in Tasks :
            owner'[s] # None /\ owner'[s] = owner'[t] /\ title'[s] = title'[t] => s = t
      BY <2>3, <2>4 DEF DataOK, Integrity, Unused
    <3> QED
      BY <3>1, <3>2, <3>3 DEF DataOK, Integrity
  <2>6. TypeOK'
    <3>1. email' \in [Users -> Emails \cup {None}]
      BY <1>1, <2>0
    <3>2. owner' \in [Tasks -> Users \cup {None}]
      BY <2>3
    <3>3. title' \in [Tasks -> Titles \cup {None}]
      <4>1. \A t \in Tasks : title'[t] \in Titles \cup {None}
        BY <1>1, <2>3
      <4> QED
        BY <2>3, <4>1
    <3>4. userDeleted' \in [Users -> BOOLEAN]
      BY <1>1, <2>0
    <3> QED
      BY <1>1, <2>2, <3>1, <3>2, <3>3, <3>4, AnswerFrame DEF Answers
  <2>7. Harmless(r)
    <3>1. ASSUME NEW q \in Requests \ {r}, op[q].kind = "patch",
                 pc[q] \in {"email", "check", "commit"}
          PROVE  /\ email'[op[q].user] = email[op[q].user]
                 /\ \A t \in Tasks : owner[t] = op[q].user =>
                      owner'[t] = op[q].user /\ title'[t] = title[t]
      <4>1. /\ op[q] \in Operations /\ op[q].user \in Users
            /\ email[op[q].user] # None
        BY <3>1, OperationType, UserAssumption
           DEF StepOK, PatchOK, SessionCurrent, Sessions
      <4> QED
        BY <2>0, <2>3, <4>1, UserAssumption DEF Unused
    <3>2. ASSUME NEW v \in Users, NEW k \in Emails,
                 email'[v] = k, email[v] # k, Normal[k] = k
          PROVE  lock[LockKey[k]] = r
      <4>1. o.email = k
        BY <2>0, <3>2
      <4>2. EmailOf(o) = k
        BY <1>1, <3>2, <4>1, EmailOfIs
      <4> QED
        BY <1>1, <4>2 DEF PostOK
    <3> QED
      BY <3>1, <3>2 DEF Harmless
  <2> QED
    BY <1>1, <2>2, <2>5, <2>6, <2>7, AnswerFrame, RequestStep DEF Answers
<1> QED
  BY <1>2, <1>3, <1>4 DEF Post

\* What a PATCH that passed its validation writes: at most its own email, and the
\* titles and owners of tasks that it has read.
PatchWrites(r) ==
  LET o == op[r]
      s == session[r] IN
    /\ PatchedEmails(r) \in [Users -> Emails \cup {None}]
    /\ \A u \in Users \ {o.user} : PatchedEmails(r)[u] = email[u]
    /\ \/ PatchedEmails(r)[o.user] = email[o.user]
       \/ /\ PatchedEmails(r)[o.user] \in o.email
          /\ PatchedEmails(r)[o.user] # s.email
    /\ PatchedOwners(r) \in [Tasks -> Users \cup {None}]
    /\ PatchedTitles(r) \in [Tasks -> Titles \cup {None}]
    /\ \A t \in Tasks \ DOMAIN s.titles :
         PatchedOwners(r)[t] = owner[t] /\ PatchedTitles(r)[t] = title[t]
    /\ \A t \in DOMAIN s.titles :
         /\ PatchedOwners(r)[t] \in Users
         /\ PatchedTitles(r)[t] \in Titles
         /\ \/ PatchedOwners(r)[t] = owner[t]
            \/ \E e \in o.edits : e.task = t /\ PatchedOwners(r)[t] \in e.owner \ {o.user}
         /\ \/ PatchedTitles(r)[t] = s.titles[t]
            \/ \E e \in o.edits :
                 /\ e.task = t
                 /\ PatchedTitles(r)[t] \in e.title
                 /\ PatchedTitles(r)[t] \in Range(s.titles) => PatchedTitles(r)[t] = Blank

LEMMA PatchedIs ==
  ASSUME Inv, NEW r \in Requests, pc[r] = "commit", op[r].kind = "patch",
         ~UnknownTask(op[r], session[r].titles), ~TitleTaken(op[r], session[r].titles)
  PROVE  PatchWrites(r)
<1> USE DEF Inv, TypeOK
<1> DEFINE o == op[r]
           s == session[r]
<1>1. /\ o \in Operations /\ o.user \in Users /\ o.email \subseteq Emails
      /\ o.edits \subseteq Edits
      /\ s \in Sessions /\ SessionCurrent(r)
  BY OperationType DEF StepOK, PatchOK
<1>2. s.email \in Emails /\ AtMostOne(o.email)
  BY <1>1, SchemaAssumption DEF Sessions
<1>3. /\ PatchedEmails(r) \in [Users -> Emails \cup {None}]
      /\ \A u \in Users \ {o.user} : PatchedEmails(r)[u] = email[u]
      /\ \/ PatchedEmails(r)[o.user] = email[o.user]
         \/ /\ PatchedEmails(r)[o.user] \in o.email
            /\ PatchedEmails(r)[o.user] # s.email
  <2> DEFINE w == Written(o.email, s.email, email[o.user])
  <2>1. PatchedEmails(r) = [email EXCEPT ![o.user] = w]
    BY DEF PatchedEmails
  <2>2. \/ w = email[o.user]
        \/ w \in o.email /\ w # s.email
    BY <1>2, WrittenIs DEF AtMostOne
  <2> HIDE DEF w
  <2> QED
    BY <1>1, <2>1, <2>2
<1>4. \A t \in DOMAIN s.titles : t \in Tasks /\ s.titles[t] \in Titles
  BY <1>1 DEF Sessions
<1>5. EditedTasks(o) \subseteq DOMAIN s.titles
  BY DEF UnknownTask, EditedTasks
<1>6. ASSUME NEW t \in EditedTasks(o)
      PROVE  EditOf(o, t) \in o.edits /\ EditOf(o, t).task = t
  BY DEF EditedTasks, EditOf
<1>7. ASSUME NEW t \in Tasks
      PROVE  \/ PatchedOwners(r)[t] = owner[t]
             \/ \E e \in o.edits :
                  /\ t \in DOMAIN s.titles /\ e.task = t
                  /\ PatchedOwners(r)[t] \in e.owner \ {o.user}
                  /\ PatchedOwners(r)[t] \in Users
  <2>1. CASE t \notin EditedTasks(o)
    BY <2>1 DEF PatchedOwners
  <2>2. CASE t \in EditedTasks(o)
    <3> DEFINE e == EditOf(o, t)
    <3>1. e \in o.edits /\ e.task = t /\ e.owner \subseteq Users /\ AtMostOne(e.owner)
      BY <1>1, <1>6, <2>2, SchemaAssumption DEF Edits
    <3>2. PatchedOwners(r)[t] = Written(e.owner, o.user, owner[t])
      BY <2>2 DEF PatchedOwners
    <3> HIDE DEF e
    <3> QED
      BY <1>5, <2>2, <3>1, <3>2, WrittenIs DEF AtMostOne
  <2> QED
    BY <2>1, <2>2
<1>8. ASSUME NEW t \in Tasks
      PROVE  \/ PatchedTitles(r)[t] = title[t]
             \/ \E e \in o.edits :
                  /\ t \in DOMAIN s.titles /\ e.task = t
                  /\ PatchedTitles(r)[t] \in e.title
                  /\ PatchedTitles(r)[t] \in Range(s.titles) => PatchedTitles(r)[t] = Blank
                  /\ PatchedTitles(r)[t] \in Titles
  <2>1. CASE t \notin EditedTasks(o)
    BY <2>1 DEF PatchedTitles
  <2>2. CASE t \in EditedTasks(o)
    <3> DEFINE e == EditOf(o, t)
    <3>1. e \in o.edits /\ e.task = t /\ e.title \subseteq Titles /\ AtMostOne(e.title)
      BY <1>1, <1>6, <2>2, SchemaAssumption DEF Edits
    <3>2. PatchedTitles(r)[t] = Written(e.title, s.titles[t], title[t])
      BY <2>2 DEF PatchedTitles
    <3>3. (e.title \cap Range(s.titles)) \ {s.titles[t], Blank} = {}
      BY <1>5, <2>2, <3>1 DEF TitleTaken
    <3> HIDE DEF e
    <3>4. CASE e.title \subseteq {s.titles[t]}
      BY <3>2, <3>4, WrittenIs
    <3>5. CASE ~(e.title \subseteq {s.titles[t]})
      <4>1. PatchedTitles(r)[t] \in e.title
        BY <3>2, <3>5, WrittenIs
      <4>2. PatchedTitles(r)[t] # s.titles[t]
        BY <3>1, <3>5, <4>1 DEF AtMostOne
      <4> QED
        BY <1>5, <2>2, <3>1, <3>3, <4>1, <4>2
    <3> QED
      BY <3>4, <3>5
  <2> QED
    BY <2>1, <2>2
<1>9. \A t \in DOMAIN s.titles : owner[t] = o.user /\ title[t] = s.titles[t]
  BY <1>1 DEF SessionCurrent
<1>10. PatchedOwners(r) \in [Tasks -> Users \cup {None}]
  <2>1. PatchedOwners(r) = [t \in Tasks |-> PatchedOwners(r)[t]]
    BY DEF PatchedOwners
  <2>2. \A t \in Tasks : PatchedOwners(r)[t] \in Users \cup {None}
    BY <1>7
  <2> QED
    BY <2>1, <2>2
<1>11. PatchedTitles(r) \in [Tasks -> Titles \cup {None}]
  <2>1. PatchedTitles(r) = [t \in Tasks |-> PatchedTitles(r)[t]]
    BY DEF PatchedTitles
  <2>2. \A t \in Tasks : PatchedTitles(r)[t] \in Titles \cup {None}
    BY <1>8
  <2> QED
    BY <2>1, <2>2
<1>12. \A t \in Tasks \ DOMAIN s.titles :
         PatchedOwners(r)[t] = owner[t] /\ PatchedTitles(r)[t] = title[t]
  BY <1>7, <1>8
<1>13. ASSUME NEW t \in DOMAIN s.titles
       PROVE  /\ PatchedOwners(r)[t] \in Users
              /\ PatchedTitles(r)[t] \in Titles
              /\ \/ PatchedOwners(r)[t] = owner[t]
                 \/ \E e \in o.edits :
                      e.task = t /\ PatchedOwners(r)[t] \in e.owner \ {o.user}
              /\ \/ PatchedTitles(r)[t] = s.titles[t]
                 \/ \E e \in o.edits :
                      /\ e.task = t
                      /\ PatchedTitles(r)[t] \in e.title
                      /\ PatchedTitles(r)[t] \in Range(s.titles) =>
                           PatchedTitles(r)[t] = Blank
  BY <1>1, <1>4, <1>7, <1>8, <1>9
<1> QED
  BY <1>3, <1>10, <1>11, <1>12, <1>13 DEF PatchWrites

\* A PATCH is answered with success: its email is one that it has locked, and its
\* tasks are of the user that it has locked.
LEMMA PatchSucceeds ==
  ASSUME Inv, NEW r \in Requests, pc[r] = "commit", op[r].kind = "patch",
         PatchWrites(r),
         NEW new \in Inserted(op[r].user, op[r].adds, PatchedOwners(r), PatchedTitles(r)),
         Integrity(PatchedEmails(r), new.owner, new.title),
         email' = PatchedEmails(r), owner' = new.owner, title' = new.title,
         userDeleted' = [userDeleted EXCEPT ![op[r].user] =
                           Written(op[r].deleted, session[r].deleted, @)],
         Answer(r, "Ok"), UNCHANGED taskDeleted
  PROVE  Inv'
<1> USE DEF Inv, TypeOK
<1> DEFINE o == op[r]
           s == session[r]
<1>1. /\ o \in Operations /\ o.user \in Users /\ o.email \subseteq Emails
      /\ o.deleted \subseteq BOOLEAN /\ o.adds \subseteq Titles
      /\ s \in Sessions /\ SessionCurrent(r) /\ EmailReserved(r)
  BY OperationType DEF StepOK, PatchOK
<1>2. PICK N \in SUBSET Unused :
        Adds(N, new, o.user, o.adds, PatchedOwners(r), PatchedTitles(r))
  BY InsertedIs
<1>3. /\ owner' = [t \in Tasks |-> IF t \in N THEN o.user ELSE PatchedOwners(r)[t]]
      /\ title' = [t \in Tasks |-> title'[t]]
      /\ \A t \in Tasks \ N : title'[t] = PatchedTitles(r)[t]
      /\ \A t \in N : title'[t] \in Titles
  BY <1>1, <1>2 DEF Adds
<1>4. \A t \in DOMAIN s.titles : t \in Tasks /\ owner[t] = o.user
  BY <1>1 DEF SessionCurrent, Sessions
<1>5. DataOK'
  <2>1. Integrity(email', owner', title')
    OBVIOUS
  <2>2. ASSUME NEW t \in Tasks, owner'[t] # None
        PROVE  title'[t] \in Titles
    <3>1. CASE t \in N
      BY <1>3, <3>1
    <3>2. CASE t \notin N /\ t \in DOMAIN s.titles
      BY <1>3, <3>2 DEF PatchWrites
    <3>3. CASE t \notin N /\ t \notin DOMAIN s.titles
      BY <1>3, <2>2, <3>3 DEF PatchWrites, DataOK
    <3> QED
      BY <3>1, <3>2, <3>3
  <2> QED
    BY <2>1, <2>2 DEF DataOK
<1>6. TypeOK'
  <2>1. owner' \in [Tasks -> Users \cup {None}]
    BY <1>1, <1>3 DEF PatchWrites
  <2>2. title' \in [Tasks -> Titles \cup {None}]
    <3>1. \A t \in Tasks : title'[t] \in Titles \cup {None}
      BY <1>3 DEF PatchWrites
    <3> QED
      BY <1>3, <3>1
  <2>3. userDeleted' \in [Users -> BOOLEAN]
    <3>1. Written(o.deleted, s.deleted, userDeleted[o.user]) \in BOOLEAN
      BY <1>1, WrittenIs
    <3> QED
      BY <3>1
  <2>4. email' \in [Users -> Emails \cup {None}]
    BY DEF PatchWrites
  <2> QED
    BY <2>1, <2>2, <2>3, <2>4, AnswerFrame DEF Answers
<1>7. Harmless(r)
  <2>1. ASSUME NEW q \in Requests \ {r}, op[q].kind = "patch",
               pc[q] \in {"email", "check", "commit"}
        PROVE  /\ email'[op[q].user] = email[op[q].user]
               /\ \A t \in Tasks : owner[t] = op[q].user =>
                    owner'[t] = op[q].user /\ title'[t] = title[t]
    <3>1. /\ op[q].user \in Users
          /\ lock[LockKey[op[q].user]] = q /\ lock[LockKey[o.user]] = r
      BY <1>1, <2>1, OperationType DEF StepOK, PatchOK, SessionCurrent
    <3>2. op[q].user # o.user
      BY <3>1
    <3>3. email'[op[q].user] = email[op[q].user]
      BY <3>1, <3>2 DEF PatchWrites
    <3>4. ASSUME NEW t \in Tasks, owner[t] = op[q].user
          PROVE  owner'[t] = op[q].user /\ title'[t] = title[t]
      <4>1. t \notin N /\ t \notin DOMAIN s.titles
        BY <1>2, <1>4, <3>1, <3>2, <3>4, UserAssumption DEF Unused
      <4> QED
        BY <1>3, <3>4, <4>1 DEF PatchWrites
    <3> QED
      BY <3>3, <3>4
  <2>2. ASSUME NEW u \in Users, NEW k \in Emails,
               email'[u] = k, email[u] # k, Normal[k] = k
        PROVE  lock[LockKey[k]] = r
    <3>1. k \in o.email /\ k # s.email
      BY <2>2 DEF PatchWrites
    <3>2. EmailOf(o) = k
      BY <1>1, <2>2, <3>1, EmailOfIs
    <3> QED
      BY <1>1, <3>1, <3>2 DEF EmailReserved
  <2> QED
    BY <2>1, <2>2 DEF Harmless
<1> QED
  BY <1>5, <1>6, <1>7, AnswerFrame, RequestStep DEF Answers

LEMMA PatchInv ==
  ASSUME Inv, NEW r \in Requests, Patch(r)
  PROVE  Inv'
<1> DEFINE o == op[r]
           s == session[r]
<1>1. pc[r] = "commit" /\ o.kind = "patch"
  BY DEF Patch
<1>2. ASSUME NEW a \in Answers, Refuse(r, a)
      PROVE  Inv'
  BY <1>1, <1>2, RefuseInv
<1>3. ASSUME ~UnknownTask(o, s.titles), ~TitleTaken(o, s.titles),
             NEW new \in Inserted(o.user, o.adds, PatchedOwners(r), PatchedTitles(r)),
             Integrity(PatchedEmails(r), new.owner, new.title),
             email' = PatchedEmails(r),
             userDeleted' = [userDeleted EXCEPT ![o.user] =
                               Written(o.deleted, s.deleted, @)],
             owner' = new.owner, title' = new.title,
             Answer(r, "Ok"), UNCHANGED taskDeleted
      PROVE  Inv'
  BY <1>1, <1>3, PatchedIs, PatchSucceeds
<1> QED
  BY <1>2, <1>3 DEF Patch, Answers

-----------------------------------------------------------------------------

LEMMA InitInv == Init => Inv
<1> SUFFICES ASSUME Init PROVE Inv
  OBVIOUS
<1>1. TypeOK
  BY DEF Init, TypeOK
<1>2. DataOK
  BY DEF Init, DataOK, Integrity
<1>3. \A r \in Requests : StepOK(r)
  BY UserAssumption DEF Init, StepOK
<1>4. \A r \in Requests : pc[r] = "idle"
  BY DEF Init
<1> QED
  BY <1>1, <1>2, <1>3, <1>4 DEF Inv

LEMMA StutterInv ==
  ASSUME Inv, UNCHANGED vars
  PROVE  Inv'
<1>1. TypeOK' /\ DataOK'
  BY DEF Inv, TypeOK, DataOK, Integrity, vars, data
<1>2. \A r \in Requests : StepOK(r)'
  BY DEF Inv, StepOK, vars
<1>3. ASSUME NEW r \in Requests, pc'[r] # "idle"
      PROVE  PostOK(r)' /\ PatchOK(r)'
  BY <1>3 DEF Inv, PostOK, PatchOK, SessionCurrent, EmailReserved, vars, data
<1> QED
  BY <1>1, <1>2, <1>3 DEF Inv

LEMMA NextInv == Inv /\ [Next]_vars => Inv'
<1> SUFFICES ASSUME Inv, [Next]_vars
             PROVE  Inv'
  OBVIOUS
<1>1. ASSUME NEW r \in Requests, Abandon(r)
      PROVE  Inv'
  BY <1>1, RefuseInv DEF Abandon, Answers
<1>2. ASSUME NEW r \in Requests, Statement(r)
      PROVE  Inv'
  BY <1>2, ReadInv, CheckEmailInv, PostInv, PatchInv, DeleteInv DEF Statement
<1>3. CASE UNCHANGED vars
  BY <1>3, StutterInv
<1> QED
  BY <1>1, <1>2, <1>3, AskInv, LockUserInv, LockEmailInv, DoneInv DEF Next

LEMMA Invariance == Spec => []Inv
BY InitInv, NextInv, PTL DEF Spec

\* The tables, the locks and the requests keep their types, and a request that
\* has something in its session has read a user that exists.
THEOREM TypeCorrect == Spec => []TypeOK
<1>1. Inv => TypeOK
  BY DEF Inv
<1> QED
  BY <1>1, Invariance, PTL

-----------------------------------------------------------------------------

(* What can be left for the constraints of the database to refuse. *)

\* A PATCH that moves no task, sets no email but one in lower case and gives the
\* empty title to no second task violates no constraint, whatever the order of
\* its updates, if the tasks that it has read are all that its user has.
LEMMA PatchKeepsIntegrity ==
  ASSUME Inv, NEW r \in Requests, pc[r] = "commit", op[r].kind = "patch",
         PatchWrites(r), ~TitleTaken(op[r], session[r].titles),
         NEW new \in Inserted(op[r].user, op[r].adds, PatchedOwners(r), PatchedTitles(r)),
         ~SecondBlank(op[r], session[r].titles),
         \A e \in op[r].edits : e.owner \ {op[r].user} = {},
         \A e \in op[r].email : Normal[e] = e,
         TasksOf(op[r].user) \ DOMAIN session[r].titles = {}
  PROVE  Integrity(PatchedEmails(r), new.owner, new.title) /\ ~TakesOver(r)
<1> USE DEF Inv, TypeOK
<1> DEFINE o == op[r]
           s == session[r]
           read == DOMAIN s.titles
<1>1. /\ o \in Operations /\ o.user \in Users /\ o.email \subseteq Emails
      /\ s \in Sessions /\ SessionCurrent(r) /\ EmailReserved(r)
  BY OperationType DEF StepOK, PatchOK
<1>2. PICK N \in SUBSET Unused :
        Adds(N, new, o.user, o.adds, PatchedOwners(r), PatchedTitles(r))
  BY InsertedIs
<1>3. /\ \A t \in read : t \in Tasks /\ owner[t] = o.user /\ s.titles[t] = title[t]
      /\ \A t \in Tasks : owner[t] = o.user => t \in read
      /\ email[o.user] = s.email /\ s.email \in Emails
  BY <1>1 DEF SessionCurrent, TasksOf, Sessions
<1>4. \A t \in Tasks : PatchedOwners(r)[t] = owner[t]
  BY DEF PatchWrites
<1>5. /\ \A t \in N : new.owner[t] = o.user
      /\ \A t \in Tasks \ N : new.owner[t] = owner[t]
      /\ N \subseteq Tasks /\ N \cap read = {}
  BY <1>1, <1>2, <1>3, <1>4, UserAssumption DEF Adds, Unused
<1>6. \A u, v \in Users :
        PatchedEmails(r)[u] # None /\ PatchedEmails(r)[u] = PatchedEmails(r)[v] => u = v
  <2>1. ASSUME NEW u \in Users \ {o.user}
        PROVE  PatchedEmails(r)[o.user] # email[u]
    <3>1. CASE PatchedEmails(r)[o.user] = email[o.user]
      BY <1>1, <1>3, <3>1, UserAssumption DEF DataOK, Integrity
    <3>2. CASE /\ PatchedEmails(r)[o.user] \in o.email
               /\ PatchedEmails(r)[o.user] # s.email
      <4>1. EmailOf(o) = PatchedEmails(r)[o.user]
        BY <1>1, <3>2, EmailOfIs
      <4> QED
        BY <1>1, <3>2, <4>1 DEF EmailReserved
    <3> QED
      BY <3>1, <3>2 DEF PatchWrites
  <2>2. \A u \in Users \ {o.user} : PatchedEmails(r)[u] = email[u]
    BY DEF PatchWrites
  <2> QED
    BY <2>1, <2>2 DEF DataOK, Integrity
<1>7. \A t \in Tasks : new.owner[t] # None => PatchedEmails(r)[new.owner[t]] # None
  <2>1. \A u \in Users : email[u] # None => PatchedEmails(r)[u] # None
    BY <1>1, UserAssumption DEF PatchWrites
  <2> QED
    BY <1>1, <1>3, <1>5, <2>1, UserAssumption DEF DataOK, Integrity
<1>8. ASSUME NEW t \in read
      PROVE  \/ PatchedTitles(r)[t] = title[t]
             \/ /\ PatchedTitles(r)[t] \notin o.adds
                /\ \A u \in read \ {t} :
                     /\ title[u] # PatchedTitles(r)[t]
                     /\ PatchedTitles(r)[u] # PatchedTitles(r)[t]
  <2> DEFINE x == PatchedTitles(r)[t]
  <2>1. CASE x = s.titles[t]
    BY <1>3, <2>1
  <2>2. ASSUME x # s.titles[t]
        PROVE  x \notin o.adds /\ \A u \in read \ {t} : title[u] # x /\ PatchedTitles(r)[u] # x
    <3>1. PICK e \in o.edits : e.task = t /\ x \in e.title /\ (x \in Range(s.titles) => x = Blank)
      BY <2>2 DEF PatchWrites
    <3>2. x \notin o.adds
      BY <1>1, <3>1, SchemaAssumption DEF SecondBlank
    <3>3. ASSUME NEW u \in read \ {t}
          PROVE  title[u] # x
      <4>1. s.titles[u] = title[u] /\ s.titles[u] \in Range(s.titles)
        BY <1>3 DEF Range
      <4> QED
        BY <3>1, <3>3, <4>1 DEF SecondBlank
    <3>4. ASSUME NEW u \in read \ {t}, PatchedTitles(r)[u] = x
          PROVE  FALSE
      <4>1. s.titles[u] # x
        BY <1>3, <3>3, <3>4
      <4>2. PICK f \in o.edits : f.task = u /\ x \in f.title
        BY <3>4, <4>1 DEF PatchWrites
      <4>3. e # f
        BY <3>1, <3>4, <4>2
      <4> QED
        BY <1>1, <3>1, <4>2, <4>3, SchemaAssumption DEF SecondBlank
    <3> QED
      BY <3>2, <3>3, <3>4
  <2> QED
    BY <2>1, <2>2
<1>11. \A t \in read : title[t] \notin o.adds
  <2>1. \A t \in read : s.titles[t] \in Range(s.titles)
    BY DEF Range
  <2> QED
    BY <1>3, <2>1 DEF TitleTaken
<1>12. \A t, u \in read : title[t] = title[u] => t = u
  BY <1>1, <1>3, UserAssumption DEF DataOK, Integrity
<1>13. \A t, u \in read : PatchedTitles(r)[t] = PatchedTitles(r)[u] => t = u
  BY <1>8, <1>12
<1>14. \A t \in read : new.title[t] = PatchedTitles(r)[t] /\ new.title[t] \notin o.adds
  <2>1. \A t \in read : new.title[t] = PatchedTitles(r)[t]
    BY <1>2, <1>3, <1>5 DEF Adds
  <2> QED
    BY <1>8, <1>11, <2>1
<1>15. ~TakesOver(r)
  <2> SUFFICES ASSUME NEW q \in Tasks, NEW t \in Tasks, q # t, owner[q] # None,
                      PatchedOwners(r)[t] = owner[q], PatchedTitles(r)[t] = title[q]
               PROVE  FALSE
    BY DEF TakesOver
  <2>1. owner[t] = owner[q]
    BY <1>4
  <2>2. CASE t \in read
    BY <1>3, <1>8, <1>12, <2>1, <2>2
  <2>3. CASE t \notin read
    <3>1. PatchedTitles(r)[t] = title[t]
      BY <2>3 DEF PatchWrites
    <3> QED
      BY <2>1, <3>1 DEF DataOK, Integrity
  <2> QED
    BY <2>2, <2>3
<1>9. \A t, u \in Tasks :
        new.owner[t] # None /\ new.owner[t] = new.owner[u] /\ new.title[t] = new.title[u]
          => t = u
  <2> SUFFICES ASSUME NEW t \in Tasks, NEW u \in Tasks, new.owner[t] # None,
                      new.owner[t] = new.owner[u], new.title[t] = new.title[u]
               PROVE  t = u
    OBVIOUS
  <2>1. CASE new.owner[t] # o.user
    <3>1. /\ t \notin N /\ u \notin N /\ t \notin read /\ u \notin read
          /\ owner[t] # None /\ owner[t] = owner[u]
      BY <1>3, <1>5, <2>1
    <3>2. title[t] = title[u]
      BY <1>2, <3>1 DEF Adds, PatchWrites
    <3> QED
      BY <3>1, <3>2 DEF DataOK, Integrity
  <2>2. CASE new.owner[t] = o.user
    <3>1. t \in N \cup read /\ u \in N \cup read
      BY <1>3, <1>5, <2>2
    <3>2. \A x \in N : new.title[x] \in o.adds
      BY <1>2 DEF Adds
    <3>3. \A x, y \in N : new.title[x] = new.title[y] => x = y
      BY <1>2 DEF Adds
    <3> QED
      BY <1>13, <1>14, <3>1, <3>2, <3>3
  <2> QED
    BY <2>1, <2>2
<1> QED
  BY <1>6, <1>7, <1>9, <1>15 DEF Integrity

\* A violated constraint ends a request in its flush, which gives two new tasks the
\* empty title or is that of a PATCH.
LEMMA IntegrityErrorFlush ==
  ASSUME Inv, Next, NEW r \in Requests, answer[r] = None, answer'[r] = "IntegrityError"
  PROVE  /\ pc[r] = "commit"
         /\ \/ op[r].kind = "post" /\ op[r].doubled
            \/ /\ op[r].kind = "patch"
               /\ ~UnknownTask(op[r], session[r].titles)
               /\ ~TitleTaken(op[r], session[r].titles)
               /\ \E new \in Inserted(op[r].user, op[r].adds,
                                      PatchedOwners(r), PatchedTitles(r)) :
                    \/ ~Integrity(PatchedEmails(r), new.owner, new.title)
                    \/ op[r].doubled
                    \/ TakesOver(r)
<1> USE DEF Inv, TypeOK
<1> DEFINE Ends(q, a) == answer' = [answer EXCEPT ![q] = a]
<1>1. ASSUME NEW q \in Requests, NEW a \in Answers \cup {None}, Ends(q, a)
      PROVE  q = r /\ a = "IntegrityError"
  BY <1>1, UserAssumption DEF Answers
<1>2. answer' # answer
  BY UserAssumption DEF Answers
<1>3. ASSUME NEW q \in Requests, NEW a \in Answers, Answer(q, a) \/ Refuse(q, a)
      PROVE  q = r /\ a = "IntegrityError"
  BY <1>1, <1>3 DEF Answer, Refuse
<1>4. ASSUME NEW q \in Requests, Patch(q) \/ Post(q)
      PROVE  q = r
  BY <1>3, <1>4 DEF Patch, Post, Answers
<1>5. PICK q \in Requests : \/ Ask(q) \/ LockUser(q) \/ LockEmail(q) \/ Statement(q)
                            \/ Abandon(q) \/ Done(q)
  BY DEF Next
<1>6. ~Ask(q) /\ ~LockUser(q) /\ ~LockEmail(q)
  BY <1>2 DEF Ask, LockUser, LockEmail, Acquire
<1>7. ~Abandon(q) /\ ~Done(q)
  BY <1>1, <1>3, UserAssumption DEF Abandon, Done, Answers
<1>8. ~Read(q) /\ ~CheckEmail(q)
  BY <1>2, <1>3 DEF Read, CheckEmail, Answers
<1>9. ~Delete(q)
  BY <1>3 DEF Delete, Answers
<1>10. Patch(r) \/ Post(r)
  BY <1>4, <1>5, <1>6, <1>7, <1>8, <1>9 DEF Statement
<1>11. \A a \in Answers \ {"IntegrityError"} : ~Answer(r, a) /\ ~Refuse(r, a)
  BY <1>3
<1> QED
  BY <1>10, <1>11 DEF Patch, Post, Answers

\* For requests of every kind, in any number, an answer of a violated constraint
\* is left only where the locks and checks do not reach: the request gives two
\* tasks the empty title, or is a PATCH that moves a task, sets an email in upper
\* case, or whose user got a task by a move since it was read.
THEOREM IntegrityErrors == Spec => IntegrityErrorExplained
<1> DEFINE Explained(r) ==
             \/ op[r].doubled
             \/ /\ op[r].kind = "patch"
                /\ \/ SecondBlank(op[r], session[r].titles)
                   \/ \E e \in op[r].edits : e.owner \ {op[r].user} # {}
                   \/ \E e \in op[r].email : Normal[e] # e
                   \/ TasksOf(op[r].user) \ DOMAIN session[r].titles # {}
           Step == \A r \in Requests :
                     answer[r] = None /\ answer'[r] = "IntegrityError" => Explained(r)
<1>1. Inv /\ [Next]_vars => [Step]_vars
  <2> SUFFICES ASSUME Inv, Next, NEW r \in Requests,
                      answer[r] = None, answer'[r] = "IntegrityError"
               PROVE  Explained(r)
    OBVIOUS
  <2>1. CASE op[r].kind = "post"
    BY <2>1, IntegrityErrorFlush
  <2>2. CASE op[r].kind = "patch" /\ ~op[r].doubled
    <3>1. PatchWrites(r)
      BY <2>2, IntegrityErrorFlush, PatchedIs
    <3> QED
      BY <2>2, <3>1, IntegrityErrorFlush, PatchKeepsIntegrity
  <2> QED
    BY <2>1, <2>2, IntegrityErrorFlush
<1>2. IntegrityErrorExplained <=> [][Step]_vars
  BY DEF IntegrityErrorExplained
<1> HIDE DEF Step
<1> QED
  BY <1>1, <1>2, Invariance, PTL DEF Spec

-----------------------------------------------------------------------------

(* Deadlocks over advisory locks. *)

\* Who waits for the lock of a user holds none; who waits for that of an email
\* holds at most the lock of its own user, and only as a PATCH.
HolderOK(r) ==
  /\ pc[r] = "user" => \A k \in Locks : lock[k] # r
  /\ pc[r] = "read" /\ op[r].kind = "delete" => \A k \in Locks : lock[k] # r
  /\ pc[r] \in {"read", "email"} =>
       \A k \in Locks : lock[k] = r => op[r].kind = "patch" /\ k = LockKey[op[r].user]

HoldersOK == \A r \in Requests : HolderOK(r)

LEMMA HoldersStep ==
  ASSUME Inv, HoldersOK, [Next]_vars
  PROVE  HoldersOK'
<1> USE DEF Inv, TypeOK, HoldersOK
<1> DEFINE Moves(r, s) == pc' = [pc EXCEPT ![r] = s]
<1>1. UNCHANGED vars => HoldersOK'
  BY DEF vars, HolderOK
<1>2. ASSUME NEW r \in Requests, Ask(r)
      PROVE  HoldersOK'
  <2>1. \A k \in Locks : lock[k] # r
    BY <1>2 DEF Ask, StepOK
  <2>2. \A q \in Requests \ {r} : pc'[q] = pc[q] /\ op'[q] = op[q]
    BY <1>2 DEF Ask
  <2> QED
    BY <1>2, <2>1, <2>2 DEF Ask, HolderOK
<1>3. ASSUME NEW r \in Requests, LockUser(r)
      PROVE  HoldersOK'
  <2>1. pc[r] = "user" /\ op[r].kind = "patch" /\ LockKey[op[r].user] \in Locks
    BY <1>3, OperationType, LockKeyType DEF LockUser, StepOK
  <2>2. /\ lock' = [lock EXCEPT ![LockKey[op[r].user]] = r]
        /\ Moves(r, "read")
        /\ UNCHANGED op
    BY <1>3 DEF LockUser, Acquire, Goto
  <2>3. \A q \in Requests \ {r}, k \in Locks : lock'[k] = q => lock[k] = q
    BY <2>1, <2>2
  <2> QED
    BY <2>1, <2>2, <2>3 DEF HolderOK
<1>4. ASSUME NEW r \in Requests, LockEmail(r)
      PROVE  HoldersOK'
  <2> DEFINE next == IF op[r].kind = "post" THEN "commit" ELSE "check"
             key == LockKey[EmailOf(op[r])]
  <2>1. Acquire(r, key, next)
    BY <1>4 DEF LockEmail
  <2> HIDE DEF key
  <2>2. lock' = [lock EXCEPT ![key] = r] /\ Moves(r, next) /\ UNCHANGED op
    BY <2>1 DEF Acquire, Goto
  <2>3. \A q \in Requests \ {r}, k \in Locks : lock'[k] = q => lock[k] = q
    BY <2>2
  <2> QED
    BY <2>2, <2>3 DEF HolderOK
<1>5. ASSUME NEW r \in Requests, NEW a, Answer(r, a)
      PROVE  HoldersOK'
  <2>1. /\ lock' = [k \in Locks |-> IF lock[k] = r THEN None ELSE lock[k]]
        /\ Moves(r, "done")
        /\ UNCHANGED op
    BY <1>5 DEF Answer, Goto
  <2> QED
    BY <2>1, UserAssumption DEF HolderOK
<1>6. ASSUME NEW r \in Requests, Read(r) \/ CheckEmail(r)
      PROVE  HoldersOK'
  <2>1. ASSUME NEW s \in {"email", "commit"}, Goto(r, s), UNCHANGED <<lock, op>>,
               pc[r] = "read" \/ s = "commit"
        PROVE  HoldersOK'
    BY <2>1 DEF Goto, HolderOK
  <2> QED
    BY <1>5, <1>6, <2>1 DEF Read, CheckEmail, Refuse
<1>7. ASSUME NEW r \in Requests, Post(r) \/ Patch(r) \/ Delete(r) \/ Abandon(r)
      PROVE  HoldersOK'
  BY <1>5, <1>7 DEF Post, Patch, Delete, Abandon, Refuse
<1>8. ASSUME NEW r \in Requests, Done(r)
      PROVE  HoldersOK'
  <2>1. /\ Moves(r, "idle") /\ UNCHANGED lock
        /\ \A q \in Requests \ {r} : op'[q] = op[q]
    BY <1>8 DEF Done, Goto
  <2> QED
    BY <2>1 DEF HolderOK
<1> QED
  BY <1>1, <1>2, <1>3, <1>4, <1>6, <1>7, <1>8 DEF Next, Statement

\* In a circle each request is waited for, so it holds a lock although it waits:
\* it is a PATCH that waits for an email and holds its user.
LEMMA CirclesOfPatches ==
  ASSUME Inv, HoldersOK
  PROVE  CirclesShareKeys
<1> USE DEF Inv, TypeOK
<1> SUFFICES ASSUME NEW S \in SUBSET Requests, Circle(S), NEW p \in S
             PROVE  /\ pc[p] = "email"
                    /\ \E q \in S :
                         /\ op[q].kind = "patch"
                         /\ LockKey[EmailOf(op[p])] = LockKey[op[q].user]
  BY DEF CirclesShareKeys
<1>1. ASSUME NEW x \in S
      PROVE  pc[x] \in {"user", "email"} /\ op[x] \in Operations
  BY DEF Circle, WaitsFor, StepOK
<1>2. ASSUME NEW x \in S, pc[x] = "email"
      PROVE  LockKey[EmailOf(op[x])] \in Locks
  <2>1. op[x].kind = "post" \/ (op[x].kind = "patch" /\ op[x].email # {})
    BY <1>2 DEF StepOK, PatchOK
  <2> QED
    BY <1>1, <2>1, EmailOfType, LockKeyType
<1>3. ASSUME NEW x \in S, NEW y \in S, WaitsFor(x, y)
      PROVE  \E k \in Locks : lock[k] = y
  <2>1. CASE pc[x] = "user"
    BY <1>1, <1>3, <2>1, OperationType, LockKeyType DEF WaitsFor, StepOK
  <2>2. CASE pc[x] = "email"
    BY <1>2, <1>3, <2>2 DEF WaitsFor
  <2> QED
    BY <1>1, <2>1, <2>2
<1>4. ASSUME NEW y \in S
      PROVE  pc[y] = "email"
  <2>1. PICK k \in Locks : lock[k] = y
    BY <1>3 DEF Circle
  <2> QED
    BY <1>1, <2>1 DEF HoldersOK, HolderOK
<1>5. PICK q \in S : lock[LockKey[EmailOf(op[p])]] = q
  BY <1>4 DEF Circle, WaitsFor
<1>6. op[q].kind = "patch" /\ LockKey[EmailOf(op[p])] = LockKey[op[q].user]
  BY <1>2, <1>4, <1>5 DEF HoldersOK, HolderOK
<1> QED
  BY <1>4, <1>6

\* Whatever the hashes of users and emails are, any number of requests wait for
\* each other in a circle over advisory locks only if all of them wait for emails
\* that have the keys of users among them.
THEOREM DeadlocksShareKeys == Spec => []CirclesShareKeys
<1>1. Init => HoldersOK
  BY UserAssumption DEF Init, HoldersOK, HolderOK
<1>2. Inv /\ HoldersOK /\ [Next]_vars => HoldersOK'
  BY HoldersStep
<1>3. Inv /\ HoldersOK => CirclesShareKeys
  BY CirclesOfPatches
<1> QED
  BY <1>1, <1>2, <1>3, Invariance, PTL DEF Spec

=============================================================================
