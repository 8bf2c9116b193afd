\* Three POSTs at a time that share a client, for two emails.
SPECIFICATION FairSpec
CONSTANTS
  Requests = {r1, r2, r3}
  Emails = {1, 2}
  None = none
  FailureThreshold = 3
  RecoveryTimeout = 1
  MaxAttempts = 2
INVARIANTS
  TypeOK
  AnsweredMeansTaken
  AnswerFits
PROPERTIES
  PostAnswered
  ImplementsSyncPosts
