---------------------------- MODULE MCReportGate ----------------------------
(* Two officers' threads; three drafts against a cap of one rerun.          *)
EXTENDS ReportGate, TLC

CONSTANTS t1, t2

Symmetry == Permutations({t1, t2})
=============================================================================
