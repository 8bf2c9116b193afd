\* A user is deleted while a task is added.
SPECIFICATION Spec
CONSTANTS
  Users = {u1}
  Tasks = {t1}
  Emails = {"a"}
  Normal <- LowerCase
  Titles = {"x"}
  Blank = ""
  Requests = {r1, r2}
  Operations <- DeleteOperations
  LockKey <- OwnKeys
  None = none
SYMMETRY IdSymmetry
PROPERTIES
  DeleteCoversTasks
