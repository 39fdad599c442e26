---------------------------- MODULE MCReportOutbox ----------------------------
(* TLC instances of ReportOutbox.                                          *)
EXTENDS ReportOutbox, TLC

Symmetry == Permutations(WebThreads) \cup Permutations(Tenants)
              \cup Permutations(Submissions)
=============================================================================
