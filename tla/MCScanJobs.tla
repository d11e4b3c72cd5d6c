----------------------------- MODULE MCScanJobs -----------------------------
(* Instances of ScanJobs for TLC.                                           *)
EXTENDS ScanJobs, TLC

Symmetric == Permutations(Workers)
=============================================================================
