-------------------------- MODULE UserListingProofs --------------------------
(***************************************************************************)
(* Proofs about UserListing, for any number of users, of clients that list *)
(* them and of writing requests, and any limit.                            *)
(***************************************************************************)
EXTENDS UserListing, FiniteSetTheorems, TLAPS

Tied(u) == \E v \in Registered \ {u} : created[v] = created[u]

\* A listing goes down in time: what it has shown is not behind its cursor, the
\* page in hand is.
Ordered(r) ==
  /\ \A u \in shown[r] : created[u] # 0 /\ created[u] >= cursor[r]
  /\ \A u \in page[r] : created[u] # 0 /\ created[u] < cursor[r]

\* A page is in hand exactly between its two statements; its users and the
\* quiet ones are not being written.
Held(r) ==
  /\ pc[r] = "tasks" <=> page[r] # {}
  /\ \A u \in page[r] : writer[u] = None /\ (u \in pageDeleted[r] <=> deleted[u])
  /\ \A u \in quiet[r] : writer[u] = None /\ created[u] # 0

\* A quiet user that is not shown yet is on the page in hand or comes later.
Covered(r) ==
  /\ pc[r] = "idle" => shown[r] = {} /\ cursor[r] = NoCursor
  /\ \A u \in quiet[r] :
       \/ u \in shown[r] \cup page[r]
       \/ Tied(u)
       \/ pc[r] = "users" /\ created[u] < cursor[r]
       \/ pc[r] = "tasks" /\ \A v \in page[r] : created[u] <= created[v]

ReaderInv(r) == Ordered(r) /\ Held(r) /\ Covered(r)

Inv == TypeOK /\ \A r \in Readers : ReaderInv(r)

LEMMA InitInv == Init => Inv
BY ListingAssumption
   DEF Init, Inv, TypeOK, ReaderInv, Ordered, Held, Covered, NoCursor

\* The step that decides what a listing leaves out: the rows behind the cursor
\* that a page leaves out are not newer than the page, or are being written.
LEMMA PageRead ==
  ASSUME TypeOK, NEW r \in Readers, NEW users \in SUBSET Users,
         IsPage(users, Candidates(r))
  PROVE  /\ \A u \in users : created[u] # 0 /\ created[u] < cursor[r] /\ writer[u] = None
         /\ \A u \in Candidates(r) \ users :
              users # {} /\ \A v \in users : created[u] <= created[v]
<1>1. users = {} => Candidates(r) = {}
  BY FS_EmptySet, ListingAssumption DEF IsPage
<1>2. \A u \in Candidates(r) : u \in Users /\ created[u] # 0
                              /\ created[u] < cursor[r] /\ writer[u] = None
  BY DEF Candidates, Registered, Behind
<1>3. users \subseteq Candidates(r)
      /\ \A u \in users, v \in Candidates(r) \ users : created[u] >= created[v]
  BY DEF IsPage
<1> QED
  BY <1>1, <1>2, <1>3 DEF TypeOK

LEMMA NextInv == Inv /\ [Next]_vars => Inv'
<1> SUFFICES ASSUME Inv, [Next]_vars
             PROVE  Inv'
  OBVIOUS
<1> USE ListingAssumption
<1>0. TypeOK /\ \A r \in Readers : ReaderInv(r)
  BY DEF Inv
<1>1. ASSUME NEW u \in Users, Register(u)
      PROVE  Inv'
  <2>1. PICK now \in 1 .. MaxTime : created' = [created EXCEPT ![u] = now]
    BY <1>1 DEF Register
  <2>2. TypeOK'
    BY <1>0, <1>1, <2>1 DEF Register, requests, TypeOK
  <2>3. \A v \in Users : created[v] # 0 => created'[v] = created[v]
    BY <1>0, <1>1, <2>1 DEF Register, TypeOK
  <2>4. ASSUME NEW v \in Users, Tied(v), created[v] # 0
        PROVE  Tied(v)'
    BY <2>2, <2>3, <2>4 DEF Tied, Registered, TypeOK
  <2>5. ASSUME NEW r \in Readers
        PROVE  ReaderInv(r)'
    <3>1. Ordered(r)' /\ Held(r)'
      BY <1>0, <1>1, <2>3 DEF Register, requests, TypeOK, ReaderInv, Ordered, Held
    <3>2. Covered(r)'
      BY <1>0, <1>1, <2>3, <2>4
         DEF Register, requests, TypeOK, ReaderInv, Ordered, Held, Covered
    <3> QED
      BY <3>1, <3>2 DEF ReaderInv
  <2> QED
    BY <2>2, <2>5 DEF Inv
<1>2. ASSUME NEW u \in Users, NEW w \in Writers, UpdateUser(w, u)
      PROVE  Inv'
  <2>1. TypeOK'
    BY <1>0, <1>2 DEF UpdateUser, tables, requests, TypeOK
  <2>2. ASSUME NEW r \in Readers
        PROVE  ReaderInv(r)'
    <3>1. u \notin page[r] /\ quiet'[r] = quiet[r] \ {u}
      BY <1>0, <1>2 DEF UpdateUser, SharedBy, ReaderInv, Held
    <3>2. Ordered(r)' /\ Held(r)'
      BY <1>0, <1>2, <3>1
         DEF UpdateUser, tables, requests, TypeOK, ReaderInv, Ordered, Held
    <3>3. Covered(r)'
      BY <1>0, <1>2, <3>1
         DEF UpdateUser, tables, requests, TypeOK, ReaderInv, Covered, Tied, Registered
    <3> QED
      BY <3>2, <3>3 DEF ReaderInv
  <2> QED
    BY <2>1, <2>2 DEF Inv
<1>3. ASSUME NEW u \in Users, EndUpdate(u)
      PROVE  Inv'
  <2>1. PICK d \in BOOLEAN : deleted' = [deleted EXCEPT ![u] = d]
    BY <1>3 DEF EndUpdate
  <2>2. TypeOK'
    BY <1>0, <1>3, <2>1 DEF EndUpdate, requests, TypeOK
  <2>3. ASSUME NEW r \in Readers
        PROVE  ReaderInv(r)'
    <3>1. u \notin page[r] /\ u \notin quiet[r]
      BY <1>0, <1>3 DEF EndUpdate, ReaderInv, Held
    <3>2. Ordered(r)' /\ Held(r)'
      BY <1>0, <1>3, <2>1, <3>1
         DEF EndUpdate, requests, TypeOK, ReaderInv, Ordered, Held
    <3>3. Covered(r)'
      BY <1>0, <1>3 DEF EndUpdate, requests, TypeOK, ReaderInv, Covered, Tied, Registered
    <3> QED
      BY <3>2, <3>3 DEF ReaderInv
  <2> QED
    BY <2>2, <2>3 DEF Inv
<1>4. ASSUME NEW r \in Readers, StartListing(r)
      PROVE  Inv'
  <2>1. TypeOK'
    BY <1>0, <1>4 DEF StartListing, tables, TypeOK, Registered
  <2>2. ASSUME NEW q \in Readers
        PROVE  ReaderInv(q)'
    BY <1>0, <1>4
       DEF StartListing, tables, TypeOK, ReaderInv, Ordered, Held, Covered,
           Registered, Tied, NoCursor
  <2> QED
    BY <2>1, <2>2 DEF Inv
<1>5. ASSUME NEW r \in Readers, ReadUsers(r)
      PROVE  Inv'
  <2>1. PICK users \in SUBSET Users :
          /\ IsPage(users, Candidates(r))
          /\ page' = [page EXCEPT ![r] = users]
          /\ pc' = [pc EXCEPT ![r] = IF users = {} THEN "ended" ELSE "tasks"]
          /\ pageDeleted' = [pageDeleted EXCEPT ![r] = {u \in users : deleted[u]}]
    BY <1>5 DEF ReadUsers, End
  <2>2. UNCHANGED <<created, deleted, writer, cursor, shown, quiet>> /\ pc[r] = "users"
    BY <1>5 DEF ReadUsers, End, tables
  <2>3. TypeOK'
    BY <1>0, <2>1, <2>2 DEF TypeOK
  <2>4. /\ \A u \in users : created[u] # 0 /\ created[u] < cursor[r] /\ writer[u] = None
        /\ \A u \in Candidates(r) \ users :
             users # {} /\ \A v \in users : created[u] <= created[v]
    BY <1>0, <2>1, PageRead
  <2>5. ASSUME NEW q \in Readers
        PROVE  ReaderInv(q)'
    <3>1. CASE q # r
      BY <1>0, <2>1, <2>2, <3>1
         DEF TypeOK, ReaderInv, Ordered, Held, Covered, Tied, Registered
    <3>2. CASE q = r
      <4>1. Ordered(r)' /\ Held(r)'
        BY <1>0, <2>1, <2>2, <2>4 DEF TypeOK, ReaderInv, Ordered, Held
      <4>2. ASSUME NEW u \in quiet[r], u \notin shown[r], ~Tied(u)
            PROVE  u \in Candidates(r)
        BY <1>0, <2>2, <4>2
           DEF TypeOK, ReaderInv, Held, Covered, Candidates, Registered, Behind
      <4>3. Covered(r)'
        BY <1>0, <2>1, <2>2, <2>4, <4>2 DEF TypeOK, Covered, Tied, Registered
      <4> QED
        BY <3>2, <4>1, <4>3 DEF ReaderInv
    <3> QED
      BY <3>1, <3>2
  <2> QED
    BY <2>3, <2>5 DEF Inv
<1>6. ASSUME NEW r \in Readers, ReadTasks(r)
      PROVE  Inv'
  <2>1. PICK t \in 0 .. MaxTime :
          NextCursor(page[r], t) /\ cursor' = [cursor EXCEPT ![r] = t]
    BY <1>6 DEF ReadTasks
  <2>2. PICK last \in page[r] : created[last] = t /\ \A u \in page[r] : t <= created[u]
    BY <2>1 DEF NextCursor
  <2>3. /\ pc' = [pc EXCEPT ![r] = "users"]
        /\ shown' = [shown EXCEPT ![r] = @ \cup page[r]]
        /\ page' = [page EXCEPT ![r] = {}]
        /\ pageDeleted' = [pageDeleted EXCEPT ![r] = {}]
        /\ UNCHANGED <<created, deleted, writer, quiet>>
        /\ pc[r] = "tasks"
    BY <1>6 DEF ReadTasks, tables
  <2>4. last \in Users /\ created[last] # 0 /\ t \in 1 .. MaxTime /\ t < cursor[r]
    BY <1>0, <2>2 DEF TypeOK, ReaderInv, Ordered
  <2>5. TypeOK'
    BY <1>0, <2>1, <2>3, <2>4 DEF TypeOK, NoCursor
  <2>6. ASSUME NEW q \in Readers
        PROVE  ReaderInv(q)'
    <3>1. CASE q # r
      BY <1>0, <2>1, <2>3, <3>1
         DEF TypeOK, ReaderInv, Ordered, Held, Covered, Tied, Registered
    <3>2. CASE q = r
      <4>1. Ordered(r)' /\ Held(r)'
        BY <1>0, <2>1, <2>2, <2>3, <2>4 DEF TypeOK, ReaderInv, Ordered, Held
      <4>2. ASSUME NEW u \in quiet[r], u \notin shown[r] \cup page[r], ~Tied(u)
            PROVE  created[u] < t
        <5>1. created[u] <= created[last] /\ u # last
          BY <1>0, <2>2, <2>3, <4>2 DEF ReaderInv, Covered
        <5>2. created[last] # created[u]
          BY <2>4, <4>2, <5>1 DEF Tied, Registered
        <5> QED
          BY <1>0, <2>2, <2>4, <5>1, <5>2 DEF TypeOK
      <4>3. Covered(r)'
        BY <1>0, <2>1, <2>3, <4>2 DEF TypeOK, Covered, Tied, Registered
      <4> QED
        BY <3>2, <4>1, <4>3 DEF ReaderInv
    <3> QED
      BY <3>1, <3>2
  <2> QED
    BY <2>5, <2>6 DEF Inv
<1>7. ASSUME NEW r \in Readers, Forget(r)
      PROVE  Inv'
  <2>1. TypeOK'
    BY <1>0, <1>7 DEF Forget, tables, TypeOK, NoCursor
  <2>2. ASSUME NEW q \in Readers
        PROVE  ReaderInv(q)'
    BY <1>0, <1>7
       DEF Forget, tables, TypeOK, ReaderInv, Ordered, Held, Covered, Tied, Registered
  <2> QED
    BY <2>1, <2>2 DEF Inv
<1>8. CASE UNCHANGED vars
  BY <1>0, <1>8
     DEF vars, tables, requests, Inv, TypeOK, ReaderInv, Ordered, Held, Covered,
         Tied, Registered
<1> QED
  BY <1>1, <1>2, <1>3, <1>4, <1>5, <1>6, <1>7, <1>8 DEF Next

LEMMA Invariance == Spec => []Inv
BY InitInv, NextInv, PTL DEF Spec

\* The tables and what the readers hold keep their types.
THEOREM TypeCorrect == Spec => []TypeOK
<1>1. Inv => TypeOK
  BY DEF Inv
<1> QED
  BY <1>1, Invariance, PTL

\* No listing shows a user twice, whatever is registered between its pages.
THEOREM NoRepetition == Spec => []ShownOnce
<1>1. Inv => ShownOnce
  BY DEF Inv, TypeOK, ReaderInv, Ordered, ShownOnce
<1> QED
  BY <1>1, Invariance, PTL

\* A listing that has ended has left out only users that were being written and
\* users of equal created_at.
THEOREM Completeness == Spec => []ListingComplete
<1>1. Inv => ListingComplete
  BY DEF Inv, ReaderInv, Held, Covered, ListingComplete, Tied
<1> QED
  BY <1>1, Invariance, PTL

\* The users of a page do not change before their tasks are read.
THEOREM PagesWhole == Spec => []PageNotTorn
<1>1. Inv => PageNotTorn
  BY DEF Inv, ReaderInv, Held, PageNotTorn
<1> QED
  BY <1>1, Invariance, PTL

\* Every page moves the cursor strictly back, whatever is registered meanwhile,
\* and it stays above 0: the variant on which ListingEnds rests, and a bound of
\* MaxTime pages for every listing.
PagesGoBack ==
  [][\A r \in Readers : ReadTasks(r) => cursor'[r] \in 1 .. (cursor[r] - 1)]_vars

THEOREM ListingProgress == Spec => PagesGoBack
<1>1. ASSUME Inv, NEW r \in Readers, ReadTasks(r)
      PROVE  cursor'[r] \in 1 .. (cursor[r] - 1)
  <2>1. PICK t \in 0 .. MaxTime :
          NextCursor(page[r], t) /\ cursor' = [cursor EXCEPT ![r] = t]
    BY <1>1 DEF ReadTasks
  <2>2. PICK last \in page[r] : created[last] = t
    BY <2>1 DEF NextCursor
  <2>3. last \in Users /\ t # 0 /\ t < cursor[r] /\ cursor[r] \in Int
    BY <1>1, <2>2, ListingAssumption
       DEF Inv, TypeOK, ReaderInv, Ordered, NoCursor
  <2> QED
    BY <1>1, <2>1, <2>3, ListingAssumption DEF Inv, TypeOK
<1>2. Inv /\ [Next]_vars =>
        [\A r \in Readers : ReadTasks(r) => cursor'[r] \in 1 .. (cursor[r] - 1)]_vars
  BY <1>1
<1> QED
  BY <1>2, Invariance, PTL DEF Spec, PagesGoBack

=============================================================================
