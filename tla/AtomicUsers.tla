---------------------------- MODULE AtomicUsers ----------------------------
(***************************************************************************)
(* What the API of users and tasks promises to clients that send requests  *)
(* at the same time: each request takes effect in one step, between the    *)
(* moment it is asked and the moment it is answered, and its answer says   *)
(* what that step found.  A refusal is given only when its reason holds    *)
(* then.  Success is given only when no email or title asked for is taken  *)
(* then, and leaves the titles of a user distinct; the empty title alone   *)
(* is not refused before it is written.  A request may fail, and then it   *)
(* changes nothing.                                                        *)
(***************************************************************************)
EXTENDS Functions

CONSTANTS
  Users,
  Tasks,
  Emails,
  Blank,        \* the empty title
  Requests,
  Operations,   \* what requests may ask for, see UserTasks
  None

VARIABLES
  email,        \* of each user, None for an id that is not in use
  userDeleted,
  owner,        \* the user of each task, None for an id that is not in use
  title,
  taskDeleted,
  op,           \* what each request asks for, None while there is no request
  answer        \* None until the request is answered

data == <<email, userDeleted, owner, title, taskDeleted>>
vars == <<data, op, answer>>

Init ==
  /\ email = [u \in Users |-> None]
  /\ userDeleted = [u \in Users |-> FALSE]
  /\ owner = [t \in Tasks |-> None]
  /\ title = [t \in Tasks |-> None]
  /\ taskDeleted = [t \in Tasks |-> FALSE]
  /\ op = [r \in Requests |-> None]
  /\ answer = [r \in Requests |-> None]

Ask(r) ==
  /\ op[r] = None
  /\ \E o \in Operations : op' = [op EXCEPT ![r] = o]
  /\ UNCHANGED <<data, answer>>

Asked(r, kind) == op[r] # None /\ answer[r] = None /\ op[r].kind = kind

Answer(r, a) ==
  /\ answer' = [answer EXCEPT ![r] = a]
  /\ UNCHANGED op

Refuse(r, a) == Answer(r, a) /\ UNCHANGED data

\* The value of an optional field, x when it is not given.
Given(field, x) == IF field = {} THEN x ELSE CHOOSE y \in field : TRUE

\* u gets a new task for each of the titles T; the other tasks are titled.
AddTasks(u, T, titled) ==
  \E N \in SUBSET {t \in Tasks : owner[t] = None} :
    \E named \in Bijection(N, T) :
      /\ owner' = [t \in Tasks |-> IF t \in N THEN u ELSE owner[t]]
      /\ title' = [t \in Tasks |-> IF t \in N THEN named[t] ELSE titled[t]]

Taken(e, u) == \E v \in Users \ {u} : email[v] = e

TasksOf(u) == {t \in Tasks : owner[t] = u}

\* Another task of u than t has the title x.
TitleHeld(u, t, x) == \E s \in TasksOf(u) \ {t} : title[s] = x

Post(r) ==
  /\ Asked(r, "post")
  /\ LET o == op[r] IN
       \/ /\ \E u \in Users : email[u] = o.email
          /\ Refuse(r, "AlreadyExists")
       \/ /\ \A u \in Users : email[u] # o.email
          /\ o.doubled
          /\ Refuse(r, "IntegrityError")
       \/ /\ \A u \in Users : email[u] # o.email
          /\ ~o.doubled
          /\ \E u \in Users :
               /\ email[u] = None
               /\ email' = [email EXCEPT ![u] = o.email]
               /\ userDeleted' = [userDeleted EXCEPT ![u] = o.deleted]
               /\ AddTasks(u, o.titles, title)
          /\ Answer(r, "Ok")
          /\ UNCHANGED taskDeleted

Known(o) == \A e \in o.edits : owner[e.task] = o.user
Conflict(o) ==
  \/ \E e \in o.email : Taken(e, o.user)
  \/ \E x \in o.adds : TitleHeld(o.user, None, x)
  \/ \E e \in o.edits : \E x \in e.title \ {Blank} : TitleHeld(o.user, e.task, x)

\* Two tasks are given the empty title, or one while another one has it.
BlankConflict(o) ==
  \/ o.doubled
  \/ \E e \in o.edits :
       /\ Blank \in e.title
       /\ \/ Blank \in o.adds
          \/ TitleHeld(o.user, e.task, Blank)
          \/ \E f \in o.edits \ {e} : Blank \in f.title

TitlesDistinct(u) ==
  \A s, t \in Tasks : owner[s] = u /\ owner[t] = u /\ title[s] = title[t] => s = t

Edited(o) ==
  [t \in Tasks |->
     Given(UNION {e.title : e \in {f \in o.edits : f.task = t}}, title[t])]

Patch(r) ==
  /\ Asked(r, "patch")
  /\ LET o == op[r] IN
       \/ /\ email[o.user] = None \/ ~Known(o)
          /\ Refuse(r, "NotFound")
       \/ /\ email[o.user] # None
          /\ Conflict(o)
          /\ Refuse(r, "AlreadyExists")
       \/ /\ email[o.user] # None
          /\ Known(o)
          /\ ~Conflict(o)
          /\ BlankConflict(o)
          /\ Refuse(r, "IntegrityError")
       \/ /\ email[o.user] # None
          /\ Known(o)
          /\ ~Conflict(o)
          /\ ~o.doubled
          /\ email' = [email EXCEPT ![o.user] = Given(o.email, @)]
          /\ userDeleted' = [userDeleted EXCEPT ![o.user] = Given(o.deleted, @)]
          /\ AddTasks(o.user, o.adds, Edited(o))
          /\ TitlesDistinct(o.user)'
          /\ Answer(r, "Ok")
          /\ UNCHANGED taskDeleted

\* No ids: the user and all the tasks.
Delete(r) ==
  /\ Asked(r, "delete")
  /\ LET o == op[r]
         whole == o.tasks = {} IN
       \/ /\ email[o.user] = None \/ ~(o.tasks \subseteq TasksOf(o.user))
          /\ Refuse(r, "NotFound")
       \/ /\ email[o.user] # None
          /\ o.tasks \subseteq TasksOf(o.user)
          /\ userDeleted' = [userDeleted EXCEPT ![o.user] = @ \/ whole]
          /\ taskDeleted' =
               [t \in Tasks |->
                  taskDeleted[t] \/ t \in IF whole THEN TasksOf(o.user) ELSE o.tasks]
          /\ Answer(r, "Ok")
          /\ UNCHANGED <<email, owner, title>>

Fail(r) ==
  /\ op[r] # None
  /\ answer[r] = None
  /\ Refuse(r, "Failed")

Done(r) ==
  /\ answer[r] # None
  /\ op' = [op EXCEPT ![r] = None]
  /\ answer' = [answer EXCEPT ![r] = None]
  /\ UNCHANGED data

Next ==
  \E r \in Requests :
    Ask(r) \/ Post(r) \/ Patch(r) \/ Delete(r) \/ Fail(r) \/ Done(r)

Spec == Init /\ [][Next]_vars

=============================================================================
