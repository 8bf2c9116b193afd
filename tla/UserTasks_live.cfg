\* Requests for two users whose locks have the keys of the two emails.
SPECIFICATION FairSpec
CONSTANTS
  Users = {u1, u2}
  Tasks = {}
  Emails = {"a", "b"}
  Normal <- LowerCase
  Titles = {}
  Blank = ""
  Requests = {r1, r2}
  Operations <- LockOperations
  LockKey <- SharedKeys
  None = none
INVARIANTS
  CirclesShareKeys
PROPERTIES
  RequestAnswered
