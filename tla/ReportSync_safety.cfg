\* Two overlapping sync runs, a POST and an edit of the same two tasks.
SPECIFICATION Spec
CONSTANTS
  Tasks = {1, 2}
  Workers = {w1, w2}
  Requests = {r1}
  Editors = {e1}
  Free = free
  BatchSize = 2
  MaxBatchCount = 1
  MaxReportAttempts = 2
  MaxMessages = 2
SYMMETRY ProcessSymmetry
INVARIANTS
  TypeOK
  AttemptsWithinLimit
  NoLockAcrossRemoteCall
  NoWaitCycle
PROPERTIES
  ResolvedStaysResolved
  CompletedLostToLastMissOnly
