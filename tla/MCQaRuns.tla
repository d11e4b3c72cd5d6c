------------------------------ MODULE MCQaRuns ------------------------------
(* Instances of QaRuns for TLC.                                             *)
EXTENDS QaRuns

(* Two jobs overlap, or the session ends, a write raises and jobs expire, but *)
(* the two jobs do not overlap and meet one of the others too.              *)
OneDisturbance ==
  overlap => session = "open" /\ faults = 0 /\ \A r \in Requests : status[r] # "gone"

Disturbed == Init /\ [][Next /\ OneDisturbance']_vars /\ Fairness
=============================================================================
