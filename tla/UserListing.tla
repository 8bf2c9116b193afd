---------------------------- MODULE UserListing ----------------------------
(***************************************************************************)
(* GET /user_tasks: clients that list the users page by page, newest first *)
(* (UserTaskService.get_all_users, UsersRepository.get_all), while users   *)
(* are registered, changed and deleted.                                    *)
(*                                                                         *)
(* A page is two statements at READ COMMITTED: the users, locked FOR SHARE *)
(* SKIP LOCKED, and then their tasks.  The locks last until the request    *)
(* commits.  A client passes the next_cursor of a page on to the next      *)
(* request and stops at the first one that is None.                        *)
(***************************************************************************)
EXTENDS Integers, FiniteSets

CONSTANTS
  Users,       \* ids of users, used and unused
  Readers,     \* clients that list the users
  Writers,     \* concurrent PATCH and DELETE requests
  Limit,       \* limit of PaginationParamsSchema
  MaxTime,     \* bound: instants that created_at tells apart
  None         \* no request

ASSUME ListingAssumption ==
  /\ Limit \in Nat \ {0}
  /\ MaxTime \in Nat \ {0}
  /\ None \notin Writers

VARIABLES
  created,       \* created_at of each user, 0 for an id that is not in use
  deleted,       \* is_deleted of each user
  writer,        \* the request that has updated the row of each user, or None
  pc,            \* "idle", "users", "tasks" or "ended", for each reader
  cursor,        \* cursor of the next request of each reader
  page,          \* the users of the page that the reader's request has read
  pageDeleted,   \* those of them that it has read as deleted
  shown,         \* the users on the earlier pages of the listing
  quiet          \* history: users there since the listing began and not written

tables   == <<created, deleted>>
requests == <<pc, cursor, page, pageDeleted, shown>>
vars     == <<tables, writer, requests, quiet>>

NoCursor == MaxTime + 1

Registered == {u \in Users : created[u] # 0}

Init ==
  /\ created = [u \in Users |-> 0]
  /\ deleted = [u \in Users |-> FALSE]
  /\ writer = [u \in Users |-> None]
  /\ pc = [r \in Readers |-> "idle"]
  /\ cursor = [r \in Readers |-> NoCursor]
  /\ page = [r \in Readers |-> {}]
  /\ pageDeleted = [r \in Readers |-> {}]
  /\ shown = [r \in Readers |-> {}]
  /\ quiet = [r \in Readers |-> {}]

-----------------------------------------------------------------------------

(* The writing requests. *)

\* A POST commits.  created_at is when its transaction began, before or after
\* those of users that have been committed already.
Register(u) ==
  /\ created[u] = 0
  /\ \E now \in 1 .. MaxTime : created' = [created EXCEPT ![u] = now]
  /\ UNCHANGED <<deleted, writer, requests, quiet>>

\* Mutant of SharedBy: the page is read without FOR SHARE.
SharedByNobody(u) == {}

\* The requests that hold a FOR SHARE lock on the row of u.
SharedBy(u) == {r \in Readers : pc[r] = "tasks" /\ u \in page[r]}

\* The flush of a PATCH or a DELETE updates the row of its user, which waits for
\* those who have locked it.
UpdateUser(w, u) ==
  /\ \A v \in Users : writer[v] # w
  /\ u \in Registered
  /\ writer[u] = None
  /\ SharedBy(u) = {}
  /\ writer' = [writer EXCEPT ![u] = w]
  /\ quiet' = [r \in Readers |-> quiet[r] \ {u}]
  /\ UNCHANGED <<tables, requests>>

\* The request ends: is_deleted is set by a DELETE and set or reset by a PATCH,
\* and stays as it was when other columns are written or nothing is committed.
EndUpdate(u) ==
  /\ writer[u] # None
  /\ writer' = [writer EXCEPT ![u] = None]
  /\ \E d \in BOOLEAN : deleted' = [deleted EXCEPT ![u] = d]
  /\ UNCHANGED <<created, requests, quiet>>

-----------------------------------------------------------------------------

(* The listings. *)

StartListing(r) ==
  /\ pc[r] = "idle"
  /\ pc' = [pc EXCEPT ![r] = "users"]
  /\ quiet' = [quiet EXCEPT ![r] = {u \in Registered : writer[u] = None}]
  /\ UNCHANGED <<tables, writer, cursor, page, pageDeleted, shown>>

\* Mutant of Behind: created_at <= cursor.
BehindOrAt(r, u) == created[u] <= cursor[r]

Behind(r, u) == created[u] < cursor[r]

\* The rows that the query of r ranges over.
Candidates(r) == {u \in Registered : Behind(r, u) /\ writer[u] = None}

\* ORDER BY created_at DESC LIMIT Limit: rows with the same created_at come in
\* any order.
IsPage(users, candidates) ==
  /\ users \subseteq candidates
  /\ \/ Cardinality(users) = Limit
     \/ users = candidates /\ Cardinality(users) < Limit
  /\ \A u \in users, v \in candidates \ users : created[u] >= created[v]

\* The client has its answer: nothing more is read for it.
End(r) ==
  /\ pc' = [pc EXCEPT ![r] = "ended"]
  /\ page' = [page EXCEPT ![r] = {}]
  /\ pageDeleted' = [pageDeleted EXCEPT ![r] = {}]
  /\ UNCHANGED <<cursor, shown>>

\* get_all: the users of a page.  Without any, next_cursor is None.
ReadUsers(r) ==
  /\ pc[r] = "users"
  /\ \E users \in SUBSET Users :
       /\ IsPage(users, Candidates(r))
       /\ \/ /\ users = {}
             /\ End(r)
          \/ /\ users # {}
             /\ pc' = [pc EXCEPT ![r] = "tasks"]
             /\ page' = [page EXCEPT ![r] = users]
             /\ pageDeleted' = [pageDeleted EXCEPT ![r] = {u \in users : deleted[u]}]
             /\ UNCHANGED <<cursor, shown>>
  /\ UNCHANGED <<tables, writer, quiet>>

\* Mutant of NextCursor: the instant loses its last digits on its way.
NextCursorRounded(users, t) ==
  \E last \in users : created[last] = t + 1 /\ \A u \in users : t < created[u]

\* users[-1].created_at
NextCursor(users, t) ==
  \E last \in users : created[last] = t /\ \A u \in users : t <= created[u]

\* selectinload: the tasks of these users; the request is answered and commits.
ReadTasks(r) ==
  /\ pc[r] = "tasks"
  /\ pc' = [pc EXCEPT ![r] = "users"]
  /\ shown' = [shown EXCEPT ![r] = @ \cup page[r]]
  /\ \E t \in 0 .. MaxTime :
       NextCursor(page[r], t) /\ cursor' = [cursor EXCEPT ![r] = t]
  /\ page' = [page EXCEPT ![r] = {}]
  /\ pageDeleted' = [pageDeleted EXCEPT ![r] = {}]
  /\ UNCHANGED <<tables, writer, quiet>>

\* The client forgets an ended listing, or gives a running one up.
Forget(r) ==
  /\ pc[r] # "idle"
  /\ pc' = [pc EXCEPT ![r] = "idle"]
  /\ cursor' = [cursor EXCEPT ![r] = NoCursor]
  /\ page' = [page EXCEPT ![r] = {}]
  /\ pageDeleted' = [pageDeleted EXCEPT ![r] = {}]
  /\ shown' = [shown EXCEPT ![r] = {}]
  /\ quiet' = [quiet EXCEPT ![r] = {}]
  /\ UNCHANGED <<tables, writer>>

Next ==
  \/ \E u \in Users :
       \/ Register(u)
       \/ \E w \in Writers : UpdateUser(w, u)
       \/ EndUpdate(u)
  \/ \E r \in Readers :
       \/ StartListing(r)
       \/ ReadUsers(r)
       \/ ReadTasks(r)
       \/ Forget(r)

Spec == Init /\ [][Next]_vars

\* A client goes on with its listing; SKIP LOCKED waits for nobody.
Fairness == \A r \in Readers : WF_vars(ReadUsers(r) \/ ReadTasks(r))

FairSpec == Spec /\ Fairness

-----------------------------------------------------------------------------

\* The tables and what the readers hold keep their types.
TypeOK ==
  /\ created \in [Users -> 0 .. MaxTime]
  /\ deleted \in [Users -> BOOLEAN]
  /\ writer \in [Users -> Writers \cup {None}]
  /\ pc \in [Readers -> {"idle", "users", "tasks", "ended"}]
  /\ cursor \in [Readers -> 1 .. NoCursor]
  /\ page \in [Readers -> SUBSET Users]
  /\ pageDeleted \in [Readers -> SUBSET Users]
  /\ shown \in [Readers -> SUBSET Users]
  /\ quiet \in [Readers -> SUBSET Users]

\* Whatever is registered between two pages, and however the rows of equal
\* created_at are ordered, no user is on two pages of one listing.
ShownOnce == \A r \in Readers : page[r] \cap shown[r] = {}

\* A listing that ends has shown every user who was there when it began, but
\* for those whose row was being written and those who share their created_at.
ListingComplete ==
  \A r \in Readers :
    pc[r] = "ended" =>
      \A u \in quiet[r] :
        \/ u \in shown[r]
        \/ \E v \in Registered \ {u} : created[v] = created[u]

\* The tasks of a page belong to its users as they were read: between the two
\* statements nobody commits an update of these users, and so no DELETE of a
\* whole user, whose other half are the tasks.
PageNotTorn ==
  \A r \in Readers : \A u \in page[r] : u \in pageDeleted[r] <=> deleted[u]

\* Every listing ends, whatever is registered and written meanwhile.
ListingEnds == \A r \in Readers : pc[r] = "users" ~> pc[r] \in {"ended", "idle"}

=============================================================================
