\* Concurrent requests that may violate the constraints of the database.
SPECIFICATION Spec
CONSTANTS
  Users = {u1, u2}
  Tasks = {t1, t2}
  Emails = {"A", "a"}
  Normal <- TwoCases
  Titles = {"", "x"}
  Blank = ""
  Requests = {r1, r2}
  Operations <- IntegrityOperations
  LockKey <- OwnKeys
  None = none
SYMMETRY IdSymmetry
PROPERTIES
  IntegrityErrorExplained
