\* Two users register with emails that differ in case.
SPECIFICATION Spec
CONSTANTS
  Users = {u1, u2}
  Tasks = {}
  Emails = {"A", "a"}
  Normal <- TwoCases
  Titles = {}
  Blank = ""
  Requests = {r1}
  Operations <- PostOperations
  LockKey <- OwnKeys
  None = none
SYMMETRY IdSymmetry
INVARIANTS
  EmailsDistinct
