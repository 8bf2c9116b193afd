\* Concurrent requests for two users that compete for emails and titles.
SPECIFICATION Spec
CONSTANTS
  Users = {u1, u2}
  Tasks = {t1, t2}
  Emails = {"a", "b"}
  Normal <- LowerCase
  Titles = {"", "x"}
  Blank = ""
  Requests = {r1, r2}
  Operations <- AtomicOperations
  LockKey <- OwnKeys
  None = none
SYMMETRY IdSymmetry
INVARIANTS
  TypeOK
PROPERTIES
  ImplementsAtomicUsers
