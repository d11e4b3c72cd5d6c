--------------------------- MODULE MCSessionStore ---------------------------
(* Instances of SessionStore for TLC.                                       *)
EXTENDS SessionStore, TLC

Symmetric == Permutations(Sessions) \cup Permutations(Threads)
=============================================================================
