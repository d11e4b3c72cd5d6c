--------------------------- MODULE MCCobieQcJobs ---------------------------
(* Two requests for a check beside one scan, two writes that raise and one     *)
(* restart.                                                                *)
EXTENDS CobieQcJobs
=============================================================================
