\* One sync run at a time besides a POST, served fairly: batches of one task.
SPECIFICATION ServedSpec
CONSTANTS
  Tasks = {1, 2}
  Workers = {w1}
  Requests = {r1}
  Editors = {}
  Free = free
  BatchSize = 1
  MaxBatchCount = 2
  MaxReportAttempts = 2
  MaxMessages = 1
INVARIANTS
  FailedMeansExhausted
  RunSendsTaskOnce
PROPERTIES
  PendingResolved
  ImplementsTaskLifecycle
