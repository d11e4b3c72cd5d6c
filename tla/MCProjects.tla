---------------------------- MODULE MCProjects ----------------------------
(* The parts of the Regulation 38 workspace that share no state, checked    *)
(* side by side: a behaviour is a behaviour of one of them.                 *)
EXTENDS IfcUploads, SpatialReview, FireTrace, AccountSessions, TLC

VARIABLE part
vars == <<part, uploadVars, spatialVars, fireVars, accountVars>>

Init ==
  /\ part \in {"uploads", "spaces", "fire", "accounts"}
  /\ UploadInit /\ SpatialInit /\ FireInit /\ AccountInit
  (* what is not looked at begins in one state only *)
  /\ part # "uploads" => objects = {} /\ project = "DRAFT"
  /\ part # "accounts" => ~premium

Next ==
  \/ part = "uploads" /\ UploadNext
     /\ UNCHANGED <<part, spatialVars, fireVars, accountVars>>
  \/ part = "spaces" /\ SpatialNext
     /\ UNCHANGED <<part, uploadVars, fireVars, accountVars>>
  \/ part = "fire" /\ FireNext
     /\ UNCHANGED <<part, uploadVars, spatialVars, accountVars>>
  \/ part = "accounts" /\ AccountNext
     /\ UNCHANGED <<part, uploadVars, spatialVars, fireVars>>

Spec == Init /\ [][Next]_vars

(* Type correctness of every part.                                          *)
TypeOK == UploadTypeOK /\ SpatialTypeOK /\ FireTypeOK /\ AccountTypeOK

(* The configuration gives the data of every part the same model values,   *)
(* and its processes too.                                                  *)
Symmetry == Permutations(Models) \cup Permutations(Handlers)
===========================================================================
