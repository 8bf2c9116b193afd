---------------------------- MODULE MCReportSync ----------------------------
(* ReportSync for TLC: processes of one kind are interchangeable.           *)
EXTENDS ReportSync, TLC

ProcessSymmetry ==
  Permutations(Workers) \cup Permutations(Requests) \cup Permutations(Editors)

=============================================================================
