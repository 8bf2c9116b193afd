---------------------------- MODULE MCUserTasks ----------------------------
(* UserTasks for TLC: emails, operations and symmetry of the instances.     *)
EXTENDS UserTasks, TLC

LowerCase == [e \in Emails |-> e]

\* "A" and "a" are one email in upper and in lower case.
TwoCases == [e \in Emails |-> "a"]

\* No two advisory locks have the same key.
OwnKeys == [x \in Users \cup Emails |-> x]

\* The hash of each email is that of a user.
SharedKeys ==
  LET twin == CHOOSE f \in Bijection(Emails, Users) : TRUE IN
    [x \in Users \cup Emails |-> IF x \in Emails THEN twin[x] ELSE x]

PostOf(e, d, T) ==
  [kind |-> "post", email |-> e, deleted |-> d, titles |-> T, doubled |-> FALSE]

PatchOf(u, e, d, T, E) ==
  [kind |-> "patch", user |-> u, email |-> e, deleted |-> d, adds |-> T,
   doubled |-> FALSE, edits |-> E]

\* The request has the empty title twice.
Doubled(o) == [o EXCEPT !.doubled = TRUE]

DeleteOf(u, T) == [kind |-> "delete", user |-> u, tasks |-> T]

Retitle(t, x) == [task |-> t, title |-> {x}, owner |-> {}]
Move(t, u) == [task |-> t, title |-> {}, owner |-> {u}]

\* Two users with two emails each to choose from, tasks that want one title or
\* the empty one.
AtomicOperations ==
  UNION {
    {PostOf("a", FALSE, {"x"}), Doubled(PostOf("b", TRUE, {""}))},
    {PostOf("b", TRUE, {})},
    {PatchOf(u, {"b"}, {}, {"x"}, {}) : u \in Users},
    {Doubled(PatchOf(u, {}, {}, {""}, {})) : u \in Users},
    {PatchOf(u, {}, {TRUE}, {}, {Retitle(t, x)}) : u \in Users, t \in Tasks, x \in Titles},
    {PatchOf(u, {}, {}, {""}, {Retitle(t, "")}) : u \in Users, t \in Tasks},
    {PatchOf(u, {}, {}, {}, {Retitle(t, "") : t \in Tasks}) : u \in Users},
    {DeleteOf(u, {t}) : u \in Users, t \in Tasks}
  }

\* What may end in a violated constraint, for two users and two tasks: emails in
\* upper case, moves to another user and empty titles, beside what may not.
IntegrityOperations ==
  UNION {
    {PostOf("A", FALSE, {"x"}), PostOf("a", TRUE, {"x"})},
    {Doubled(PostOf("a", FALSE, {""}))},
    {PatchOf(u, {e}, {}, {}, {}) : u \in Users, e \in Emails},
    {PatchOf(u, {"a"}, {FALSE}, {"x"}, {}) : u \in Users},
    {PatchOf(u, {}, {}, {""}, {}) : u \in Users},
    {PatchOf(u, {}, {}, {}, {Retitle(t, x)}) : u \in Users, t \in Tasks, x \in Titles},
    {PatchOf(u, {}, {}, {}, {Move(t, v)}) : u \in Users, t \in Tasks, v \in Users}
  }

\* Whole users are deleted while tasks are added.
DeleteOperations ==
  {PostOf("a", FALSE, {})} \cup {PatchOf(u, {}, {}, {"x"}, {}) : u \in Users}
    \cup {DeleteOf(u, {}) : u \in Users}

\* Everybody wants everybody's email.
LockOperations ==
  {PostOf(e, FALSE, {}) : e \in Emails}
    \cup {PatchOf(u, {e}, {}, {}, {}) : u \in Users, e \in Emails}
    \cup {DeleteOf(u, {}) : u \in Users}

PostOperations == {PostOf(e, FALSE, {}) : e \in Emails}

IdSymmetry ==
  Permutations(Requests) \cup Permutations(Users) \cup Permutations(Tasks)

=============================================================================
