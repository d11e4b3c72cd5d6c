-------------------------- MODULE MCExtractionJobs --------------------------
(* Instances of ExtractionJobs for TLC.                                     *)
EXTENDS ExtractionJobs, TLC

Symmetric == Permutations(Jobs) \cup Permutations(Workers)
=============================================================================
