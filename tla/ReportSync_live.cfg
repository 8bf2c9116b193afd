\* Two sync runs and an edit that wait for each other's rows.
SPECIFICATION FairSpec
CONSTANTS
  Tasks = {1, 2}
  Workers = {w1, w2}
  Requests = {}
  Editors = {e1}
  Free = free
  BatchSize = 2
  MaxBatchCount = 1
  MaxReportAttempts = 1
  MaxMessages = 2
PROPERTIES
  RunEnds
