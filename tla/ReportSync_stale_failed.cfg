\* Two overlapping sync runs: a failed task is left below the limit.
SPECIFICATION Spec
CONSTANTS
  Tasks = {1}
  Workers = {w1, w2}
  Requests = {}
  Editors = {}
  Free = free
  BatchSize = 1
  MaxBatchCount = 1
  MaxReportAttempts = 2
  MaxMessages = 2
SYMMETRY ProcessSymmetry
INVARIANTS
  FailedMeansExhausted
