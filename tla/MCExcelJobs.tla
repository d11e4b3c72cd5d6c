---------------------------- MODULE MCExcelJobs ----------------------------
(* Instances of ExcelJobs for TLC.                                          *)
EXTENDS ExcelJobs, TLC

Symmetric == Permutations(Jobs) \cup Permutations(Executors)
=============================================================================
