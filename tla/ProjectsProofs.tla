--------------------------- MODULE ProjectsProofs ---------------------------
(***************************************************************************)
(* Theorems about the parts of the Regulation 38 workspace, for any models,  *)
(* handlers, uploads, spaces and requests and any bounds: the upload of an    *)
(* IFC model (IfcUploads), the evidence of FireTrace (FireTrace), the review  *)
(* of spaces and zones beside a re-scan (SpatialReview) and the browser's     *)
(* session with the Auth server (AccountSessions).                          *)
(***************************************************************************)
EXTENDS MCProjects, FiniteSetTheorems, TLAPS

-----------------------------------------------------------------------------
(***************************************************************************)
(* The upload of a model.                                                  *)
(***************************************************************************)

(* What identifiers are used for, initiate has handed out.                   *)
UploadsKnown ==
  /\ records \subseteq handedOut
  /\ {sending, pending} \subseteq handedOut \cup {NoModel}
  /\ \A h \in Handlers :
       /\ handler[h].new \in handedOut \cup {NoModel}
       /\ handler[h].caller = "upload" => handler[h].new # NoModel

(* Nobody but the page has heard of the model it is sending.                 *)
SendingIsNew ==
  sending # NoModel =>
    /\ sending \notin records \cup reports \cup {pending}
    /\ \A h \in Handlers : handler[h].new # sending

(* An upload that is reported as failed is not going to be recorded, unless  *)
(* it is reported for its finalisation.                                     *)
ReportsAreFailures ==
  \A m \in reports \ disowned :
    /\ m \notin records \cup {pending}
    /\ \A h \in Handlers : handler[h].new # m

(* What a handler removes, somebody asked to remove.                        *)
RemovalsAreAsked ==
  \A h \in Handlers :
    /\ handler[h].pc \in {"verify", "record", "load", "drop", "erase"} =>
         handler[h].old \in discarded \cup {NoModel}
    /\ handler[h].pc \in {"empty", "delete"} => emptied

UploadInv ==
  UploadTypeOK /\ UploadsKnown /\ SendingIsNew /\ ReportsAreFailures /\ RemovalsAreAsked
  /\ ModelsAreKept

(* The initial state satisfies the invariant.                               *)
LEMMA UploadInitInv == UploadInit => UploadInv
<1> SUFFICES ASSUME UploadInit PROVE UploadInv
  OBVIOUS
<1> USE NoModelAssumption, MaxFailuresAssumption
<1>1. objects \subseteq Models
  BY DEF UploadInit
<1>2. \A h \in Handlers : handler[h] = Idle
  BY DEF UploadInit
<1>3. UploadTypeOK
  <2>1. handler \in [Handlers -> [pc : HandlerPC, new : Models \cup {NoModel},
                                 old : Models \cup {NoModel}, caller : Callers]]
    BY DEF UploadInit, HandlerPC, Callers, Idle
  <2>2. \A h \in Handlers : handler[h].pc = "idle"
    BY <1>2 DEF Idle
  <2>3. /\ {sending, pending, retiring, current, replaces} \subseteq Models \cup {NoModel}
        /\ failures \in 0..MaxFailures
    BY DEF UploadInit
  <2> QED
    BY <1>1, <2>1, <2>2, <2>3 DEF UploadInit, UploadTypeOK
<1>4. ModelsAreKept
  BY <1>2 DEF UploadInit, ModelsAreKept, Idle
<1> QED
  BY <1>2, <1>3, <1>4
     DEF UploadInit, UploadInv, UploadsKnown, SendingIsNew, ReportsAreFailures, RemovalsAreAsked, Idle

(* An answer leaves the handler idle; the page may take the model it was     *)
(* about for uploaded, if it is one and the answer was good, and reports it  *)
(* at most if it is the model of its upload.                                *)
LEMMA AnswerEffect ==
  ASSUME UploadTypeOK, NEW h \in Handlers, NEW ok \in BOOLEAN, Answer(h, ok)
  PROVE  /\ handler' = [handler EXCEPT ![h] = Idle]
         /\ UNCHANGED <<sending, replaces>>
         /\ \/ UNCHANGED reportVars
            \/ /\ handler[h].caller = "upload"
               /\ reports' = reports \cup {handler[h].new}
               /\ disowned' = disowned \cup {handler[h].new}
         /\ retiring' \in {retiring, NoModel}
         /\ pending' \in {pending, NoModel}
         /\ current' \in {current, handler[h].new}
         /\ shown' \in {"EMPTY", "UPLOADING", "UPLOADED", "FAILED", "FINALIZE_FAILED"}
         /\ shown' = "UPLOADED" =>
              \/ current' = current /\ shown = "UPLOADED"
              \/ current' = handler[h].new /\ ok /\ handler[h].new # NoModel
<1>1. \/ UNCHANGED reportVars
      \/ /\ handler[h].caller = "upload"
         /\ reports' = reports \cup {handler[h].new}
         /\ disowned' = disowned \cup {handler[h].new}
  BY DEF Answer, Disowns, reportVars
<1> QED
  BY <1>1 DEF Answer, pageVars, UploadTypeOK

(* A request that is the last of a handler: it is answered, with success    *)
(* only where the model it is about was recorded; the stores gain a model    *)
(* that can be recorded at most, and lose what the handler was asked to      *)
(* remove at most, or the project.                                         *)
Ends(h) ==
  \/ Load(h) /\ handler[h].old = NoModel
  \/ Erase(h) \/ Delete(h) \/ Refused(h) \/ RequestFails(h)

LEMMA EndEffect ==
  ASSUME UploadTypeOK, NEW h \in Handlers, Ends(h)
  PROVE  /\ \E ok \in BOOLEAN :
              /\ Answer(h, ok)
              /\ ok => handler[h].pc \in {"load", "erase", "delete"}
              /\ ok /\ handler[h].pc = "load" => handler[h].new \in records
              /\ ok /\ handler[h].pc = "delete" => project' = "deleted"
         /\ UNCHANGED historyVars
         /\ objects' \subseteq objects
         /\ \A m \in objects \ objects' : handler[h].pc = "erase" /\ m = handler[h].old
         /\ \A m \in records' \ records : Recordable(h) /\ m = handler[h].new
         /\ \A m \in records \ records' :
              project' = "deleted" \/ (handler[h].pc = "drop" /\ m = handler[h].old)
         /\ project' = project \/ project' = "deleted"
         /\ failures' \in 0..MaxFailures
<1> USE MaxFailuresAssumption DEF UploadTypeOK, storeVars, historyVars
<1>1. CASE Load(h) /\ handler[h].old = NoModel
  BY <1>1 DEF Load
<1>2. CASE Erase(h)
  BY <1>2 DEF Erase
<1>3. CASE Delete(h)
  <2>1. Answer(h, TRUE) /\ handler[h].pc = "delete"
    BY <1>3 DEF Delete
  <2> QED
    BY <1>3, <2>1 DEF Delete
<1>4. CASE Refused(h)
  BY <1>4 DEF Refused
<1>5. CASE RequestFails(h)
  <2>1. Answer(h, FALSE) /\ UNCHANGED <<handedOut, discarded, emptied>>
    BY <1>5 DEF RequestFails
  <2>3. failures' \in 0..MaxFailures
    BY <1>5 DEF RequestFails
  <2>2. \/ UNCHANGED <<objects, records, project>>
        \/ Recordable(h) /\ records' = records \cup {handler[h].new} /\ UNCHANGED <<objects, project>>
        \/ /\ handler[h].pc = "drop" /\ records' = records \ {handler[h].old}
           /\ UNCHANGED <<objects, project>>
        \/ /\ handler[h].pc = "erase" /\ objects' = objects \ {handler[h].old}
           /\ UNCHANGED <<records, project>>
    BY <1>5 DEF RequestFails
  <2> QED
    BY <2>1, <2>2, <2>3
<1> QED
  BY <1>1, <1>2, <1>3, <1>4, <1>5 DEF Ends

(* Every step keeps the types.                                              *)
LEMMA UploadTypeStep ==
  ASSUME UploadInv, [UploadNext]_uploadVars
  PROVE  UploadTypeOK'
<1> USE MaxFailuresAssumption, NoModelAssumption
    DEF UploadInv, UploadTypeOK, HandlerPC, Callers, Idle, storeVars, pageVars, reportVars,
        historyVars
<1>1. CASE ChooseReplacement \/ BeginUpload \/ UploadFails \/ CleanUp
  <2>1. CASE ChooseReplacement
    BY <2>1 DEF ChooseReplacement
  <2>2. CASE BeginUpload
    BY <2>2 DEF BeginUpload
  <2>3. CASE UploadFails
    BY <2>3 DEF UploadFails, ReportFailure, UploadsKnown
  <2>4. CASE CleanUp
    BY <2>4 DEF CleanUp
  <2> QED
    BY <1>1, <2>1, <2>2, <2>3, <2>4
<1>2. ASSUME NEW h \in Handlers,
             Uploaded(h) \/ RetryFinalisation(h) \/ RequestRemoval(h) \/ RequestDeletion(h)
      PROVE  UploadTypeOK'
  <2>1. CASE Uploaded(h)
    BY <2>1 DEF Uploaded, Call
  <2>2. CASE RetryFinalisation(h)
    BY <2>2 DEF RetryFinalisation, Call
  <2>3. CASE RequestRemoval(h)
    <3>1. PICK m \in records, caller \in {"remove", "other"} :
            /\ Call(h, "drop", NoModel, m, caller)
            /\ discarded' = discarded \cup {m}
      BY <2>3 DEF RequestRemoval
    <3> QED
      BY <2>3, <3>1 DEF RequestRemoval, Call
  <2>4. CASE RequestDeletion(h)
    BY <2>4 DEF RequestDeletion, Call
  <2> QED
    BY <1>2, <2>1, <2>2, <2>3, <2>4
<1>3. ASSUME NEW h \in Handlers, Verify(h) \/ Record(h) \/ Drop(h) \/ Empty(h)
      PROVE  UploadTypeOK'
  BY <1>3 DEF Verify, Record, Recordable, Drop, Empty, Goes
<1>4. ASSUME NEW h \in Handlers, Load(h) /\ handler[h].old # NoModel
      PROVE  UploadTypeOK'
  BY <1>4 DEF Load, Goes
<1>5. ASSUME NEW h \in Handlers, Ends(h)
      PROVE  UploadTypeOK'
  <2>1. PICK ok \in BOOLEAN : Answer(h, ok)
    BY <1>5, EndEffect
  <2>2. /\ handler' = [handler EXCEPT ![h] = Idle]
        /\ UNCHANGED <<sending, replaces>>
        /\ pending' \in {pending, NoModel} /\ retiring' \in {retiring, NoModel}
        /\ current' \in {current, handler[h].new}
        /\ shown' \in {"EMPTY", "UPLOADING", "UPLOADED", "FAILED", "FINALIZE_FAILED"}
    BY <2>1, AnswerEffect
  <2>3. /\ UNCHANGED historyVars /\ objects' \subseteq objects
        /\ records' \subseteq records \cup {handler[h].new}
        /\ \A m \in records' \ records : Recordable(h)
        /\ project' = project \/ project' = "deleted"
        /\ failures' \in 0..MaxFailures
    BY <1>5, EndEffect
  <2>4. records' \subseteq Models
    BY <2>3 DEF Recordable
  <2>5. reports' \subseteq handedOut /\ disowned' \subseteq handedOut
    BY <2>1, AnswerEffect DEF UploadsKnown
  <2> QED
    BY <2>2, <2>3, <2>4, <2>5
<1>6. CASE UNCHANGED uploadVars
  BY <1>6 DEF uploadVars
<1> QED
  BY <1>1, <1>2, <1>3, <1>4, <1>5, <1>6 DEF UploadNext, Ends

(* What an identifier is used for: a model is being sent, or waits to be      *)
(* recorded, or was reported as failed, and never two of these.             *)
UploadNames == UploadsKnown /\ SendingIsNew /\ ReportsAreFailures

LEMMA UploadNamesStep ==
  ASSUME UploadInv, [UploadNext]_uploadVars
  PROVE  UploadNames'
<1> USE NoModelAssumption
    DEF UploadInv, UploadTypeOK, UploadNames, UploadsKnown, SendingIsNew, ReportsAreFailures,
        Idle, storeVars, pageVars, reportVars, historyVars
<1>1. CASE ChooseReplacement
  BY <1>1 DEF ChooseReplacement
<1>2. CASE BeginUpload
  BY <1>2 DEF BeginUpload
<1>3. CASE UploadFails
  BY <1>3 DEF UploadFails, ReportFailure
<1>4. CASE CleanUp
  BY <1>4 DEF CleanUp
<1>5. ASSUME NEW h \in Handlers, Uploaded(h)
      PROVE  UploadNames'
  <2>1. /\ handler' = [handler EXCEPT ![h] = [pc |-> "verify", new |-> sending, old |-> replaces, caller |-> "upload"]]
        /\ pending' = sending /\ sending' = NoModel /\ sending # NoModel
        /\ UNCHANGED <<records, reports, disowned, handedOut>>
    BY <1>5 DEF Uploaded, Call
  <2>2. \A k \in Handlers :
          /\ handler'[k].new \in {handler[k].new, sending}
          /\ handler'[k].caller = "upload" => handler'[k].new # NoModel
    BY <2>1
  <2> QED
    BY <2>1, <2>2
<1>6. ASSUME NEW h \in Handlers, RetryFinalisation(h) \/ RequestRemoval(h) \/ RequestDeletion(h)
      PROVE  UploadNames'
  <2>1. \A k \in Handlers :
          /\ handler'[k].new \in {handler[k].new, pending, NoModel}
          /\ handler'[k].caller = "upload" => handler'[k].new # NoModel
    BY <1>6 DEF RetryFinalisation, RequestRemoval, RequestDeletion, Call
  <2>2. UNCHANGED <<records, reports, disowned, handedOut, sending, pending>>
    BY <1>6 DEF RetryFinalisation, RequestRemoval, RequestDeletion
  <2> QED
    BY <2>1, <2>2
<1>7. ASSUME NEW h \in Handlers,
             \/ Verify(h) \/ Record(h) \/ Drop(h) \/ Empty(h)
             \/ Load(h) /\ handler[h].old # NoModel
      PROVE  UploadNames'
  <2>1. \A k \in Handlers :
          handler'[k].new = handler[k].new /\ handler'[k].caller = handler[k].caller
    <3>1. \E pc \in HandlerPC : handler' = [handler EXCEPT ![h].pc = pc]
      BY <1>7 DEF Verify, Record, Drop, Empty, Load, Goes, HandlerPC
    <3> QED
      BY <3>1
  <2>2. records' \subseteq records \cup ({handler[h].new} \ {NoModel})
    BY <1>7 DEF Verify, Record, Recordable, Drop, Empty, Load
  <2>3. UNCHANGED <<reports, disowned, handedOut, sending, pending>>
    BY <1>7 DEF Verify, Record, Drop, Empty, Load
  <2> QED
    BY <2>1, <2>2, <2>3
<1>8. ASSUME NEW h \in Handlers, Ends(h)
      PROVE  UploadNames'
  <2>1. /\ handler' = [handler EXCEPT ![h] = Idle]
        /\ sending' = sending /\ pending' \in {pending, NoModel}
        /\ \/ UNCHANGED <<reports, disowned>>
           \/ /\ handler[h].caller = "upload"
              /\ reports' = reports \cup {handler[h].new}
              /\ disowned' = disowned \cup {handler[h].new}
    BY <1>8, EndEffect, AnswerEffect
  <2>2. \A k \in Handlers :
          /\ handler'[k].new \in {handler[k].new, NoModel}
          /\ handler'[k].caller = "upload" => handler'[k].new # NoModel
    BY <2>1
  <2>3. /\ UNCHANGED handedOut
        /\ \A m \in records' \ records : Recordable(h) /\ m = handler[h].new
    BY <1>8, EndEffect
  <2>4. records' \subseteq records \cup ({handler[h].new} \ {NoModel})
    BY <2>3 DEF Recordable
  <2> QED
    BY <2>1, <2>2, <2>3, <2>4
<1>9. CASE UNCHANGED uploadVars
  BY <1>9 DEF uploadVars
<1> QED
  BY <1>1, <1>2, <1>3, <1>4, <1>5, <1>6, <1>7, <1>8, <1>9 DEF UploadNext, Ends

(* What was reported for its finalisation stays noted.                      *)
LEMMA DisownedStep ==
  ASSUME UploadInv, [UploadNext]_uploadVars
  PROVE  disowned \subseteq disowned'
<1> USE DEF UploadInv, reportVars
<1>1. ASSUME NEW h \in Handlers, Ends(h) PROVE disowned \subseteq disowned'
  BY <1>1, EndEffect, AnswerEffect
<1>2. ASSUME NEW h \in Handlers,
             \/ Uploaded(h) \/ RetryFinalisation(h) \/ RequestRemoval(h) \/ RequestDeletion(h)
             \/ Verify(h) \/ Record(h) \/ Drop(h) \/ Empty(h)
             \/ Load(h) /\ handler[h].old # NoModel
      PROVE  UNCHANGED disowned
  BY <1>2 DEF Uploaded, RetryFinalisation, RequestRemoval, RequestDeletion, Verify, Record, Drop,
              Empty, Load
<1>3. CASE ChooseReplacement \/ BeginUpload \/ UploadFails \/ CleanUp \/ UNCHANGED uploadVars
  BY <1>3 DEF ChooseReplacement, BeginUpload, UploadFails, CleanUp, uploadVars
<1> QED
  BY <1>1, <1>2, <1>3 DEF UploadNext, Ends

(* A handler is given the model to remove with the request that asks for it. *)
LEMMA RemovalsStep ==
  ASSUME UploadInv, [UploadNext]_uploadVars
  PROVE  RemovalsAreAsked' /\ discarded \subseteq discarded' /\ (emptied => emptied')
<1> USE DEF UploadInv, UploadTypeOK, RemovalsAreAsked, Idle, storeVars, pageVars, historyVars
<1>1. CASE ChooseReplacement \/ BeginUpload \/ UploadFails \/ CleanUp
  BY <1>1 DEF ChooseReplacement, BeginUpload, UploadFails, CleanUp
<1>2. ASSUME NEW h \in Handlers, Uploaded(h) \/ RetryFinalisation(h)
      PROVE  RemovalsAreAsked' /\ discarded \subseteq discarded' /\ emptied' = emptied
  <2>1. \E m, replaced, caller :
          /\ handler' = [handler EXCEPT ![h] =
                           [pc |-> "verify", new |-> m, old |-> replaced, caller |-> caller]]
          /\ discarded' = discarded \cup ({replaced} \ {NoModel}) /\ emptied' = emptied
    BY <1>2 DEF Uploaded, RetryFinalisation, Call
  <2> QED
    BY <2>1
<1>3. ASSUME NEW h \in Handlers, RequestRemoval(h) \/ RequestDeletion(h)
      PROVE  RemovalsAreAsked' /\ discarded \subseteq discarded' /\ (emptied => emptied')
  BY <1>3 DEF RequestRemoval, RequestDeletion, Call
<1>4. ASSUME NEW h \in Handlers,
             \/ Verify(h) \/ Record(h) \/ Drop(h) \/ Empty(h)
             \/ Load(h) /\ handler[h].old # NoModel
      PROVE  RemovalsAreAsked' /\ UNCHANGED historyVars
  <2>1. UNCHANGED historyVars
    BY <1>4 DEF Verify, Record, Drop, Empty, Load
  <2>2. \/ /\ handler[h].pc \in {"verify", "record", "load", "drop"}
           /\ \E pc \in {"record", "load", "drop", "erase"} : Goes(h, pc)
        \/ handler[h].pc = "empty" /\ Goes(h, "delete")
    BY <1>4 DEF Verify, Record, Recordable, Drop, Empty, Load
  <2> QED
    BY <2>1, <2>2 DEF Goes
<1>5. ASSUME NEW h \in Handlers, Ends(h)
      PROVE  RemovalsAreAsked' /\ UNCHANGED historyVars
  <2>1. handler' = [handler EXCEPT ![h] = Idle] /\ UNCHANGED historyVars
    BY <1>5, EndEffect, AnswerEffect
  <2> QED
    BY <2>1
<1>6. CASE UNCHANGED uploadVars
  BY <1>6 DEF uploadVars
<1> QED
  BY <1>1, <1>2, <1>3, <1>4, <1>5, <1>6 DEF UploadNext, Ends

(* Objects go only on request, with the project, or because their upload was *)
(* reported as failed; recorded models are none of the last, unless their    *)
(* finalisation was reported.                                               *)
LEMMA ObjectsStep ==
  ASSUME UploadInv, [UploadNext]_uploadVars,
         NEW m \in records', m \notin discarded' \cup disowned', ~emptied'
  PROVE  m \in objects'
<1> USE DEF UploadInv, ModelsAreKept, storeVars, pageVars, historyVars
<1>1. /\ discarded \subseteq discarded' /\ (emptied => emptied')
      /\ disowned \subseteq disowned'
  BY RemovalsStep, DisownedStep
<1>2. CASE CleanUp
  BY <1>1, <1>2 DEF CleanUp, ReportsAreFailures
<1>3. ASSUME NEW h \in Handlers, Record(h)
      PROVE  m \in objects'
  BY <1>1, <1>3 DEF Record, Recordable
<1>4. ASSUME NEW h \in Handlers, Empty(h)
      PROVE  m \in objects'
  BY <1>1, <1>4 DEF Empty, RemovalsAreAsked
<1>5. ASSUME NEW h \in Handlers, Ends(h)
      PROVE  m \in objects'
  <2>1. /\ \A x \in objects \ objects' : handler[h].pc = "erase" /\ x = handler[h].old
        /\ \A x \in records' \ records : Recordable(h) /\ x = handler[h].new
    BY <1>5, EndEffect
  <2>2. m \in objects
    BY <1>1, <2>1 DEF Recordable
  <2>3. m \in objects \ objects' => m \in discarded \cup {NoModel}
    BY <2>1 DEF RemovalsAreAsked
  <2> QED
    BY <1>1, <2>2, <2>3, NoModelAssumption DEF UploadTypeOK
<1>6. ASSUME NEW h \in Handlers,
             \/ Uploaded(h) \/ RetryFinalisation(h) \/ RequestRemoval(h) \/ RequestDeletion(h)
             \/ Verify(h) \/ Drop(h)
             \/ Load(h) /\ handler[h].old # NoModel
      PROVE  m \in objects'
  <2>1. records' \subseteq records /\ objects \subseteq objects'
    BY <1>6 DEF Uploaded, RetryFinalisation, RequestRemoval, RequestDeletion, Verify, Drop, Load
  <2> QED
    BY <1>1, <2>1
<1>7. CASE ChooseReplacement \/ BeginUpload \/ UploadFails \/ UNCHANGED uploadVars
  BY <1>1, <1>7 DEF ChooseReplacement, BeginUpload, UploadFails, uploadVars
<1> QED
  BY <1>1, <1>2, <1>3, <1>4, <1>5, <1>6, <1>7 DEF UploadNext, Ends

(* A recorded model stays recorded unless it was asked to be removed, or      *)
(* the project is deleted for good.                                         *)
LEMMA RecordsStep ==
  ASSUME UploadInv, [UploadNext]_uploadVars
  PROVE  /\ project = "deleted" => project' = "deleted"
         /\ records \cup discarded \subseteq records' \cup discarded' \/ project' = "deleted"
<1> USE DEF UploadInv, storeVars, pageVars, historyVars
<1>1. discarded \subseteq discarded'
  BY RemovalsStep
<1>2. ASSUME NEW h \in Handlers, Drop(h)
      PROVE  records \cup discarded \subseteq records' \cup discarded' /\ UNCHANGED project
  BY <1>2 DEF Drop, RemovalsAreAsked, NoModelAssumption, UploadTypeOK
<1>3. ASSUME NEW h \in Handlers, Ends(h)
      PROVE  /\ project' = project \/ project' = "deleted"
             /\ records \cup discarded \subseteq records' \cup discarded' \/ project' = "deleted"
  <2>1. /\ \A m \in records \ records' :
             project' = "deleted" \/ (handler[h].pc = "drop" /\ m = handler[h].old)
        /\ project' = project \/ project' = "deleted"
    BY <1>3, EndEffect
  <2> QED
    BY <1>1, <2>1, NoModelAssumption DEF RemovalsAreAsked, UploadTypeOK
<1>4. ASSUME NEW h \in Handlers,
             \/ Uploaded(h) \/ RetryFinalisation(h) \/ RequestRemoval(h) \/ RequestDeletion(h)
             \/ Verify(h) \/ Record(h) \/ Empty(h)
             \/ Load(h) /\ handler[h].old # NoModel
      PROVE  records \cup discarded \subseteq records' \cup discarded' /\ UNCHANGED project
  <2>1. records \subseteq records' /\ UNCHANGED project
    BY <1>4 DEF Uploaded, RetryFinalisation, RequestRemoval, RequestDeletion, Verify, Record, Empty, Load
  <2> QED
    BY <1>1, <2>1
<1>5. CASE ChooseReplacement \/ BeginUpload \/ UploadFails \/ CleanUp \/ UNCHANGED uploadVars
  BY <1>1, <1>5 DEF ChooseReplacement, BeginUpload, UploadFails, CleanUp, uploadVars
<1> QED
  BY <1>1, <1>2, <1>3, <1>4, <1>5 DEF UploadNext, Ends

(* A handler that replaces a model has recorded the new one.                 *)
Recorded(m) == m \in records \cup discarded \/ project = "deleted"
RecordedNext(m) == m \in records' \cup discarded' \/ project' = "deleted"

LEMMA ReplacedStep ==
  ASSUME UploadInv, [UploadNext]_uploadVars, NEW h \in Handlers,
         handler'[h].pc \in {"drop", "erase"}, handler'[h].new # NoModel
  PROVE  RecordedNext(handler'[h].new)
<1> USE DEF UploadInv, UploadTypeOK, Idle, storeVars, pageVars, historyVars
<1>1. \A m : Recorded(m) => RecordedNext(m)
  BY RecordsStep DEF Recorded, RecordedNext
<1>2. CASE handler[h] = handler'[h]
  BY <1>1, <1>2 DEF ModelsAreKept, Recorded
<1>3. ASSUME NEW k \in Handlers,
             Uploaded(k) \/ RetryFinalisation(k) \/ RequestRemoval(k) \/ RequestDeletion(k)
      PROVE  handler'[h] = handler[h]
  BY <1>3 DEF Uploaded, RetryFinalisation, RequestRemoval, RequestDeletion, Call
<1>4. ASSUME NEW k \in Handlers, Ends(k)
      PROVE  handler'[h] = handler[h]
  <2>1. handler' = [handler EXCEPT ![k] = Idle]
    BY <1>4, EndEffect, AnswerEffect
  <2> QED
    BY <2>1
<1>5. ASSUME NEW k \in Handlers, Verify(k) \/ Record(k) \/ Empty(k)
      PROVE  handler'[h] = handler[h]
  BY <1>5 DEF Verify, Record, Empty, Goes
<1>6. ASSUME NEW k \in Handlers, Drop(k)
      PROVE  RecordedNext(handler'[h].new)
  <2>1. handler[h].pc \in {"drop", "erase"} /\ handler'[h].new = handler[h].new
    BY <1>6 DEF Drop, Goes
  <2> QED
    BY <1>1, <2>1 DEF ModelsAreKept, Recorded
<1>7. ASSUME NEW k \in Handlers, Load(k) /\ handler[k].old # NoModel
      PROVE  RecordedNext(handler'[h].new)
  <2>1. CASE h = k
    <3>1. handler[h].new \in records /\ handler'[h].new = handler[h].new
      BY <1>7, <2>1 DEF Load, Goes
    <3> QED
      BY <1>1, <3>1 DEF Recorded
  <2>2. CASE h # k
    BY <1>2, <1>7, <2>2 DEF Load, Goes
  <2> QED
    BY <2>1, <2>2
<1>8. CASE ChooseReplacement \/ BeginUpload \/ UploadFails \/ CleanUp \/ UNCHANGED uploadVars
  BY <1>2, <1>8 DEF ChooseReplacement, BeginUpload, UploadFails, CleanUp, uploadVars
<1> QED
  BY <1>2, <1>3, <1>4, <1>5, <1>6, <1>7, <1>8 DEF UploadNext, Ends

(* The page is told of an upload only after the model was recorded.          *)
LEMMA ShownStep ==
  ASSUME UploadInv, [UploadNext]_uploadVars, shown' = "UPLOADED"
  PROVE  RecordedNext(current')
<1> USE DEF UploadInv, UploadTypeOK, storeVars, pageVars, historyVars
<1>1. \A m : Recorded(m) => RecordedNext(m)
  BY RecordsStep DEF Recorded, RecordedNext
<1>2. CASE UNCHANGED <<shown, current>>
  BY <1>1, <1>2 DEF ModelsAreKept, Recorded
<1>3. ASSUME NEW h \in Handlers, Ends(h)
      PROVE  RecordedNext(current')
  <2>1. PICK ok \in BOOLEAN :
          /\ Answer(h, ok)
          /\ ok => handler[h].pc \in {"load", "erase", "delete"}
          /\ ok /\ handler[h].pc = "load" => handler[h].new \in records
          /\ ok /\ handler[h].pc = "delete" => project' = "deleted"
    BY <1>3, EndEffect
  <2>2. \/ current' = current /\ shown = "UPLOADED"
        \/ current' = handler[h].new /\ ok /\ handler[h].new # NoModel
    BY <2>1, AnswerEffect
  <2>3. CASE current' = handler[h].new /\ ok /\ handler[h].new # NoModel
    BY <1>1, <2>1, <2>3 DEF ModelsAreKept, Recorded, RecordedNext
  <2> QED
    BY <1>1, <2>2, <2>3 DEF ModelsAreKept, Recorded
<1>4. ASSUME NEW h \in Handlers,
             \/ Uploaded(h) \/ RetryFinalisation(h) \/ RequestRemoval(h) \/ RequestDeletion(h)
             \/ Verify(h) \/ Record(h) \/ Drop(h) \/ Empty(h)
             \/ Load(h) /\ handler[h].old # NoModel
      PROVE  UNCHANGED <<shown, current>>
  BY <1>4 DEF Uploaded, RetryFinalisation, RequestRemoval, RequestDeletion, Verify, Record, Drop,
              Empty, Load
<1>5. CASE BeginUpload \/ UploadFails
  BY <1>5 DEF BeginUpload, UploadFails
<1>6. CASE ChooseReplacement \/ CleanUp \/ UNCHANGED uploadVars
  BY <1>2, <1>6 DEF ChooseReplacement, CleanUp, uploadVars
<1> QED
  BY <1>2, <1>3, <1>4, <1>5, <1>6 DEF UploadNext, Ends

(* The invariant is inductive, and holds in every reachable state.           *)
THEOREM UploadInvariance == UploadSpec => []UploadInv
<1>1. ASSUME UploadInv, [UploadNext]_uploadVars PROVE UploadInv'
  <2>1. ModelsAreKept'
    BY <1>1, ObjectsStep, ReplacedStep, ShownStep DEF ModelsAreKept, RecordedNext
  <2> QED
    BY <1>1, <2>1, UploadTypeStep, UploadNamesStep, RemovalsStep DEF UploadInv, UploadNames
<1> QED
  BY UploadInitInv, <1>1, PTL DEF UploadSpec

(* No model is lost that nobody asked to remove, whatever requests fail or    *)
(* overlap: its object stays with its row, a replaced model goes after its   *)
(* successor was recorded, and what the page calls uploaded is recorded.     *)
THEOREM UploadsAreKept == UploadSpec => []ModelsAreKept
<1>1. UploadInv => ModelsAreKept
  BY DEF UploadInv
<1> QED
  BY UploadInvariance, <1>1, PTL

-----------------------------------------------------------------------------
(***************************************************************************)
(* The evidence of FireTrace.                                              *)
(***************************************************************************)

Submitted == {u \in Uploads : version[u] # 0}

(* The types that matter to evidence.                                       *)
EvidenceTypes ==
  /\ submission \in [Uploads -> {"idle", "store", "number", "insert", "status", "erase", "done"}]
  /\ version \in [Uploads -> Nat] /\ previous \in [Uploads -> Nat]
  /\ verdict \in [Uploads -> {"none", "SUBMITTED", "ACCEPTED", "RETURNED"}]
  /\ evidence \subseteq Uploads /\ spoiled \subseteq Uploads
  /\ judging = NoJudging \/ \E u \in Submitted, d \in {"ACCEPTED", "RETURNED"} :
                              judging = [of |-> {u}, as |-> d]

(* Where an upload is says what there is of it.                             *)
UploadTraced(u) ==
  /\ submission[u] \in {"idle", "store", "number", "insert"} => version[u] = 0
  /\ submission[u] = "status" => version[u] # 0
  /\ submission[u] \in {"number", "insert", "status"} => u \in evidence
  /\ submission[u] = "erase" /\ version[u] # 0 => u \in spoiled
  /\ version[u] # 0 => u \in evidence \cup spoiled /\ version[u] = previous[u] + 1
  /\ version[u] = 0 <=> verdict[u] = "none"

(* The versions are 1, 2, ..., and no upload has read one that is not there. *)
Numbered ==
  /\ IsFiniteSet(Submitted)
  /\ {version[u] : u \in Submitted} = 1..Cardinality(Submitted)
  /\ \A u \in Uploads : previous[u] <= Cardinality(Submitted)

EvidenceInv ==
  /\ EvidenceTypes
  /\ \A u \in Uploads : UploadTraced(u)
  /\ Numbered
  /\ requirement \notin {"absent", "OPEN"} => Submitted # {}

(* The newest version is that of the last submission, 0 when there is none.  *)
LEMMA NewestIsLast ==
  ASSUME EvidenceTypes, Numbered, NEW u \in Uploads
  PROVE  Newest = Cardinality(Submitted)
<1> DEFINE n == Cardinality(Submitted)
<1>1. n \in Nat
  BY FS_CardinalityType DEF Numbered
<1>2. Versions \subseteq 0..n
  <2> SUFFICES ASSUME NEW x \in Uploads PROVE version[x] \in 0..n
    BY DEF Versions
  <2>1. version[x] # 0 => version[x] \in 1..n
    BY DEF Numbered, Submitted
  <2> QED
    BY <1>1, <2>1
<1>3. n \in Versions
  <2>1. CASE n = 0
    BY <2>1, <1>1, <1>2 DEF Versions
  <2>2. CASE n # 0
    <3>1. n \in {version[x] : x \in Submitted}
      BY <1>1, <2>2 DEF Numbered
    <3> QED
      BY <3>1 DEF Versions, Submitted
  <2> QED
    BY <2>1, <2>2
<1>4. \A k \in Versions : k <= n
  BY <1>1, <1>2
<1>5. \A m \in Versions : (\A k \in Versions : k <= m) => m = n
  BY <1>1, <1>2, <1>3, <1>4
<1> HIDE DEF n
<1> QED
  BY <1>3, <1>4, <1>5 DEF Newest, n

(* The initial state satisfies the invariant.                               *)
LEMMA EvidenceInitInv == FireInit => EvidenceInv
<1> SUFFICES ASSUME FireInit PROVE EvidenceInv
  OBVIOUS
<1>1. Submitted = {}
  BY DEF FireInit, Submitted
<1>2. Numbered
  BY <1>1, FS_EmptySet DEF FireInit, Numbered
<1> QED
  BY <1>1, <1>2 DEF FireInit, EvidenceInv, EvidenceTypes, UploadTraced

(* A submission that is inserted is the next one: the versions up to the one  *)
(* it read are taken, so its own is free only if that was the last.         *)
LEMMA InsertNumbers ==
  ASSUME EvidenceInv, NEW u \in Uploads, submission[u] = "insert",
         VersionIsFree(u), InsertVersion(u), UNCHANGED previous
  PROVE  /\ Numbered'
         /\ Submitted' = Submitted \cup {u}
         /\ version'[u] = previous[u] + 1
<1> USE DEF EvidenceInv, EvidenceTypes
<1> DEFINE n == Cardinality(Submitted)
<1>1. n \in Nat /\ previous[u] \in Nat /\ previous[u] <= n /\ version[u] = 0
  BY FS_CardinalityType DEF Numbered, UploadTraced
<1>2. \A k \in 1..n : k \in Versions
  BY DEF Numbered, Versions, Submitted
<1>3. previous[u] = n
  BY <1>1, <1>2 DEF VersionIsFree
<1>4. version' = [version EXCEPT ![u] = n + 1]
  BY <1>3 DEF InsertVersion
<1>5. Submitted' = Submitted \cup {u} /\ u \notin Submitted
  BY <1>1, <1>4, SMTT(30) DEF Submitted
<1>6. IsFiniteSet(Submitted') /\ Cardinality(Submitted') = n + 1
  BY <1>5, FS_AddElement DEF Numbered
<1>7. {version'[x] : x \in Submitted'} = {version[x] : x \in Submitted} \cup {n + 1}
  BY <1>4, <1>5 DEF Submitted
<1>8. {version'[x] : x \in Submitted'} = 1..(n + 1)
  <2>1. 1..(n + 1) = (1..n) \cup {n + 1}
    BY <1>1
  <2> QED
    BY <1>7, <2>1 DEF Numbered
<1>9. \A x \in Uploads : previous'[x] <= n + 1
  BY <1>1 DEF Numbered
<1> HIDE DEF n
<1> QED
  BY <1>3, <1>4, <1>5, <1>6, <1>8, <1>9 DEF Numbered

(* The steps that concern one upload.                                       *)
UploadStep(u) ==
  \/ BeginSubmission(u) \/ StoreEvidence(u) \/ ReadNewest(u) \/ InsertSubmission(u)
  \/ MarkSubmitted(u) \/ UploadRequestFails(u) \/ EraseObject(u)

(* A step leaves the rows of the submissions alone, or inserts one.          *)
LEMMA VersionsStep ==
  ASSUME EvidenceInv, [FireNext]_fireVars
  PROVE  \/ UNCHANGED version
         \/ \E u \in Uploads : /\ submission[u] = "insert" /\ VersionIsFree(u)
                              /\ InsertVersion(u) /\ UNCHANGED previous
<1>1. ASSUME NEW u \in Uploads, UploadStep(u)
      PROVE  \/ UNCHANGED version
             \/ submission[u] = "insert" /\ VersionIsFree(u) /\ InsertVersion(u) /\ UNCHANGED previous
  BY <1>1 DEF UploadStep, BeginSubmission, StoreEvidence, ReadNewest, InsertSubmission,
              MarkSubmitted, UploadRequestFails, EraseObject
<1>2. ASSUME NEW l \in Loads,
             BeginLoad(l) \/ ReadExisting(l) \/ Seed(l) \/ ReadBack(l) \/ LoadFails(l)
      PROVE  UNCHANGED version
  BY <1>2 DEF BeginLoad, ReadExisting, Seed, ReadBack, LoadFails, evidenceVars
<1>3. CASE \/ Decide \/ Rescan \/ CompleteSetup \/ Require \/ Judge \/ Conclude
           \/ UNCHANGED fireVars
  BY <1>3 DEF Decide, Rescan, CompleteSetup, Require, Judge, Conclude, fireVars, evidenceVars
<1> QED
  BY <1>1, <1>2, <1>3 DEF FireNext, UploadStep

(* The versions stay numbered.                                              *)
LEMMA NumberedStep ==
  ASSUME EvidenceInv, [FireNext]_fireVars
  PROVE  Numbered' /\ Submitted \subseteq Submitted'
<1> USE DEF EvidenceInv
<1>1. CASE \E u \in Uploads : /\ submission[u] = "insert" /\ VersionIsFree(u)
                              /\ InsertVersion(u) /\ UNCHANGED previous
  BY <1>1, InsertNumbers
<1>2. CASE UNCHANGED version
  <2>1. Submitted' = Submitted
    BY <1>2 DEF Submitted
  <2>2. \A u \in Uploads : previous'[u] \in {previous[u], Cardinality(Submitted)}
    <3>1. ASSUME NEW u \in Uploads, UploadStep(u)
          PROVE  previous' \in {previous, [previous EXCEPT ![u] = Cardinality(Submitted)]}
      <4>1. Newest = Cardinality(Submitted)
        BY NewestIsLast
      <4> QED
        BY <3>1, <4>1 DEF UploadStep, BeginSubmission, StoreEvidence, ReadNewest,
           InsertSubmission, MarkSubmitted, UploadRequestFails, EraseObject
    <3>2. ASSUME NEW l \in Loads,
                 BeginLoad(l) \/ ReadExisting(l) \/ Seed(l) \/ ReadBack(l) \/ LoadFails(l)
          PROVE  UNCHANGED previous
      BY <3>2 DEF BeginLoad, ReadExisting, Seed, ReadBack, LoadFails, evidenceVars
    <3>3. CASE \/ Decide \/ Rescan \/ CompleteSetup \/ Require \/ Judge \/ Conclude
               \/ UNCHANGED fireVars
      BY <3>3 DEF Decide, Rescan, CompleteSetup, Require, Judge, Conclude, fireVars, evidenceVars
    <3> QED
      BY <3>1, <3>2, <3>3 DEF FireNext, UploadStep, EvidenceTypes
  <2>3. Cardinality(Submitted) \in Nat
    BY FS_CardinalityType DEF Numbered
  <2> QED
    BY <1>2, <2>1, <2>2, <2>3 DEF Numbered
<1> QED
  BY <1>1, <1>2, VersionsStep

(* What is known of each upload stays true.                                 *)
LEMMA TracedStep ==
  ASSUME EvidenceInv, [FireNext]_fireVars
  PROVE  /\ EvidenceTypes'
         /\ \A u \in Uploads : UploadTraced(u)'
         /\ requirement' \notin {"absent", "OPEN"} => Submitted' # {}
<1> DEFINE Goal == /\ EvidenceTypes'
                   /\ \A u \in Uploads : UploadTraced(u)'
                   /\ requirement' \notin {"absent", "OPEN"} => Submitted' # {}
<1> USE DEF EvidenceInv, EvidenceTypes, UploadTraced, SubmissionAt, EvidenceStep
<1>0. Submitted \subseteq Submitted' /\ Submitted \subseteq Uploads
      /\ (\A u \in Uploads : u \in Submitted' <=> version'[u] # 0)
      /\ (\A u \in Uploads : u \in Submitted <=> version[u] # 0)
  BY NumberedStep DEF Submitted
<1>a. \A u \in Uploads : Newest \in Nat
  BY NewestIsLast, FS_CardinalityType DEF Numbered
<1>1. ASSUME NEW u \in Uploads, UploadStep(u) PROVE Goal
  <2>1. CASE BeginSubmission(u)
    BY <1>0, <2>1 DEF BeginSubmission
  <2>2. CASE StoreEvidence(u)
    BY <1>0, <2>2 DEF StoreEvidence
  <2>3. CASE ReadNewest(u)
    BY <1>0, <1>a, <2>3 DEF ReadNewest
  <2>4. CASE InsertSubmission(u)
    BY <1>0, <2>4 DEF InsertSubmission, InsertVersion
  <2>5. CASE MarkSubmitted(u)
    BY <1>0, <2>5 DEF MarkSubmitted
  <2>6. CASE UploadRequestFails(u)
    BY <1>0, <2>6 DEF UploadRequestFails, InsertVersion
  <2>7. CASE EraseObject(u)
    BY <1>0, <2>7 DEF EraseObject
  <2> QED
    BY <1>1, <2>1, <2>2, <2>3, <2>4, <2>5, <2>6, <2>7 DEF UploadStep
<1>2. CASE Judge
  BY <1>0, <1>2, ZenonT(60) DEF Judge
<1>3. CASE Conclude
  BY <1>0, <1>3 DEF Conclude, NoJudging
<1>4. CASE Require
  BY <1>0, <1>4 DEF Require
<1>5. CASE UNCHANGED evidenceVars
  BY <1>0, <1>5 DEF evidenceVars
<1>6. ASSUME NEW l \in Loads,
             BeginLoad(l) \/ ReadExisting(l) \/ Seed(l) \/ ReadBack(l) \/ LoadFails(l)
      PROVE  UNCHANGED evidenceVars
  BY <1>6 DEF BeginLoad, ReadExisting, Seed, ReadBack, LoadFails
<1>7. CASE Decide \/ Rescan \/ CompleteSetup \/ UNCHANGED fireVars
  BY <1>5, <1>7 DEF Decide, Rescan, CompleteSetup, fireVars
<1> QED
  BY <1>1, <1>2, <1>3, <1>4, <1>5, <1>6, <1>7 DEF FireNext, UploadStep

(* The invariant is inductive, and holds in every reachable state.           *)
THEOREM EvidenceInvariance == FireSpec => []EvidenceInv
<1>1. EvidenceInv /\ [FireNext]_fireVars => EvidenceInv'
  BY NumberedStep, TracedStep DEF EvidenceInv
<1> QED
  BY EvidenceInitInv, <1>1, PTL DEF FireSpec

(* However many uploads race for a requirement, its submissions are numbered *)
(* without a gap or a double, a status says there is one, and evidence is    *)
(* missing only where a request failed.                                     *)
THEOREM EvidenceTraced == FireSpec => []EvidenceIsTraceable
<1>1. EvidenceInv => EvidenceIsTraceable
  <2> SUFFICES ASSUME EvidenceInv PROVE EvidenceIsTraceable
    OBVIOUS
  <2>1. \A u \in Submitted : u \in evidence \cup spoiled /\ version[u] = previous[u] + 1
    BY DEF EvidenceInv, UploadTraced, Submitted
  <2> QED
    BY <2>1 DEF EvidenceInv, Numbered, Submitted, EvidenceIsTraceable
<1> QED
  BY EvidenceInvariance, <1>1, PTL

(* The types of the review and the tracker.                                  *)
ReviewTypes ==
  /\ scanned \in BOOLEAN /\ setUp \in BOOLEAN
  /\ review \in [Objects -> Relevance \cup {"absent"}]
  /\ confirmed \in [Objects -> BOOLEAN]
  /\ load \in [Loads -> {"idle", "existing", "seed", "back"}]
  /\ seen \in [Loads -> SUBSET Objects]
  /\ tracker \subseteq Objects
  /\ requirement \in {"absent", "OPEN", "SUBMITTED", "ACCEPTED", "RETURNED"}
  /\ decisions \in 0..MaxDecisions /\ losses \in 0..MaxLosses

LEMMA ReviewTypesStep ==
  ASSUME EvidenceInv, ReviewTypes, [FireNext]_fireVars
  PROVE  ReviewTypes'
<1> USE FireBoundsAssumption
    DEF ReviewTypes, Relevance, EvidenceStep, SubmissionAt, reviewVars, trackerVars, evidenceVars
<1>1. ASSUME NEW l \in Loads,
             BeginLoad(l) \/ ReadExisting(l) \/ Seed(l) \/ ReadBack(l) \/ LoadFails(l)
      PROVE  ReviewTypes'
  <2>1. CASE BeginLoad(l) \/ ReadBack(l) \/ LoadFails(l)
    BY <2>1 DEF BeginLoad, ReadBack, LoadFails
  <2>2. CASE ReadExisting(l)
    BY <2>2 DEF ReadExisting, Rows
  <2>3. CASE Seed(l)
    BY <2>3 DEF Seed
  <2> QED
    BY <1>1, <2>1, <2>2, <2>3
<1>2. CASE Decide
  <2>1. PICK chosen \in SUBSET Rows \ {{}}, r \in {"IN_SCOPE", "OUT_OF_SCOPE"}, c \in BOOLEAN :
          /\ review' = [o \in Objects |-> IF o \in chosen THEN r ELSE review[o]]
          /\ confirmed' = [o \in Objects |-> IF o \in chosen THEN c ELSE confirmed[o]]
    BY <1>2 DEF Decide
  <2>2. review' \in [Objects -> Relevance \cup {"absent"}]
    BY <2>1
  <2>3. confirmed' \in [Objects -> BOOLEAN]
    BY <2>1
  <2> QED
    BY <1>2, <2>2, <2>3 DEF Decide
<1>3. CASE Rescan
  BY <1>3 DEF Rescan
<1>4. CASE CompleteSetup
  BY <1>4 DEF CompleteSetup, Rows
<1>5. CASE Require \/ Judge
  BY <1>5 DEF Require, Judge
<1>6. CASE Conclude
  BY <1>6 DEF Conclude, EvidenceInv, EvidenceTypes
<1>7. ASSUME NEW u \in Uploads,
             \/ BeginSubmission(u) \/ StoreEvidence(u) \/ ReadNewest(u) \/ InsertSubmission(u)
             \/ MarkSubmitted(u) \/ UploadRequestFails(u) \/ EraseObject(u)
      PROVE  ReviewTypes'
  BY <1>7 DEF BeginSubmission, StoreEvidence, ReadNewest, InsertSubmission, MarkSubmitted,
              UploadRequestFails, EraseObject
<1>8. CASE UNCHANGED fireVars
  BY <1>8 DEF fireVars
<1> QED
  BY <1>1, <1>2, <1>3, <1>4, <1>5, <1>6, <1>7, <1>8 DEF FireNext

(* Types of the review and of evidence: versions are bounded since each      *)
(* submission has the next one.                                              *)
LEMMA EvidenceIsTyped ==
  ASSUME EvidenceInv, ReviewTypes
  PROVE  FireTypeOK
<1> DEFINE n == Cardinality(Submitted)
<1>1. /\ n \in Nat /\ Cardinality(Uploads) \in Nat /\ n <= Cardinality(Uploads)
  <2>1. Submitted \subseteq Uploads /\ IsFiniteSet(Uploads)
    BY FireBoundsAssumption DEF Submitted
  <2> QED
    BY <2>1, FS_Subset, FS_CardinalityType DEF EvidenceInv, Numbered
<1>2. ASSUME NEW u \in Uploads
      PROVE  version[u] \in 0..Cardinality(Uploads) /\ previous[u] \in 0..Cardinality(Uploads)
  <2>1. version[u] \in Nat /\ previous[u] \in Nat
    BY DEF EvidenceInv, EvidenceTypes
  <2>2. version[u] # 0 => version[u] \in 1..n
    BY DEF EvidenceInv, Numbered, Submitted
  <2>3. previous[u] <= n
    BY DEF EvidenceInv, Numbered
  <2> HIDE DEF n
  <2> QED
    BY <1>1, <2>1, <2>2, <2>3
<1>3. judging.of \subseteq Uploads /\ judging.as \in {"ACCEPTED", "RETURNED"}
  BY DEF EvidenceInv, EvidenceTypes, NoJudging, Submitted
<1>4. \A u \in Uploads : version[u] = 0 <=> verdict[u] = "none"
  BY DEF EvidenceInv, UploadTraced
<1>5. /\ version \in [Uploads -> 0..Cardinality(Uploads)]
      /\ previous \in [Uploads -> 0..Cardinality(Uploads)]
  BY <1>2 DEF EvidenceInv, EvidenceTypes
<1> QED
  BY <1>3, <1>4, <1>5 DEF EvidenceInv, EvidenceTypes, ReviewTypes, FireTypeOK

THEOREM FireTypesKept == FireSpec => []FireTypeOK
<1>1. FireInit => ReviewTypes
  <2> SUFFICES ASSUME FireInit PROVE ReviewTypes
    OBVIOUS
  <2>1. 0 \in 0..MaxDecisions /\ 0 \in 0..MaxLosses
    BY FireBoundsAssumption
  <2>2. review \in [Objects -> Relevance \cup {"absent"}] /\ confirmed \in [Objects -> BOOLEAN]
    BY DEF FireInit
  <2>3. /\ load \in [Loads -> {"idle", "existing", "seed", "back"}]
        /\ seen \in [Loads -> SUBSET Objects]
    BY DEF FireInit
  <2> QED
    BY <2>1, <2>2, <2>3 DEF FireInit, ReviewTypes
<1> QED
  BY <1>1, ReviewTypesStep, EvidenceIsTyped, EvidenceInvariance, PTL DEF FireSpec

-----------------------------------------------------------------------------
(***************************************************************************)
(* The review of spaces and zones.                                         *)
(***************************************************************************)

SpatialTypes ==
  /\ working \in [Spaces -> Nat] /\ kept \in [Spaces -> Nat] /\ asked \in [Spaces -> Nat]
  /\ edits \in Nat /\ edited \subseteq Spaces /\ waiting \subseteq Spaces

(* The edit a reviewer may expect is there, and the worker that has yet to   *)
(* write the row carries it.                                               *)
EditsCarried ==
  /\ refresh # "write" => waiting = {}
  /\ \A s \in Spaces :
       /\ working[s] # 0 => s \in edited
       /\ asked[s] # 0 => working[s] = asked[s]
       /\ asked[s] # 0 /\ s \in waiting => kept[s] = asked[s]
       /\ s \in waiting /\ kept[s] # 0 => s \in edited

SpatialInv == SpatialTypes /\ EditsCarried

(* The invariant is inductive, and holds in every reachable state.           *)
THEOREM SpatialInvariance == SpatialSpec => []SpatialInv
<1>1. SpatialInit => SpatialInv
  BY DEF SpatialInit, SpatialInv, SpatialTypes, EditsCarried
<1>2. SpatialInv /\ [SpatialNext]_spatialVars => SpatialInv'
  <2> SUFFICES ASSUME SpatialInv, [SpatialNext]_spatialVars PROVE SpatialInv'
    OBVIOUS
  <2> USE DEF SpatialInv, SpatialTypes, EditsCarried, spaceVars, refreshVars
  <2>1. ASSUME NEW s \in Spaces, UpdateSpace(s) PROVE SpatialInv'
    BY <2>1 DEF UpdateSpace, MayEdit, Marks
  <2>2. CASE BeginRefresh
    BY <2>2 DEF BeginRefresh
  <2>3. CASE ReadWorking
    BY <2>3 DEF ReadWorking, Curated
  <2>4. CASE WriteBatch
    BY <2>4 DEF WriteBatch
  <2>5. CASE RefreshFails
    BY <2>5 DEF RefreshFails
  <2>6. ASSUME NEW e \in Editors,
               \/ SubmitZone(e) \/ InsertZone(e) \/ NameZone(e) \/ ListMembers(e)
               \/ RemoveMember(e) \/ AddMembers(e) \/ ZoneRequestFails(e)
        PROVE  UNCHANGED <<spaceVars, refreshVars>> /\ edits' \in Nat
    BY <2>6 DEF SubmitZone, InsertZone, NameZone, ListMembers, RemoveMember, AddMembers,
                ZoneRequestFails, ZoneStep, MayEdit
  <2>7. CASE UNCHANGED spatialVars
    BY <2>7 DEF spatialVars
  <2> QED
    BY <2>1, <2>2, <2>3, <2>4, <2>5, <2>6, <2>7 DEF SpatialNext
<1> QED
  BY <1>1, <1>2, PTL DEF SpatialSpec

(* An edit outlives every re-scan that began to read after it, and a space    *)
(* that everybody who is updating the zone has selected stays a member.      *)
THEOREM ReviewsAreKept == SpatialSpec => ReviewIsKept
<1>1. SpatialInv' => \A s \in Spaces : asked'[s] # 0 => working'[s] = asked'[s]
  BY DEF SpatialInv, EditsCarried
<1>2. ASSUME [SpatialNext]_spatialVars, NEW s \in Spaces, s \in members,
             \A e \in Editors : editor[e] # "idle" => s \in selection[e]
      PROVE  s \in members'
  <2>1. ASSUME NEW e \in Editors, RemoveMember(e) PROVE s \in members'
    BY <1>2, <2>1 DEF RemoveMember, Removals
  <2>2. ASSUME NEW e \in Editors, AddMembers(e) PROVE s \in members'
    BY <1>2, <2>2 DEF AddMembers
  <2>3. ASSUME NEW e \in Editors,
               SubmitZone(e) \/ InsertZone(e) \/ NameZone(e) \/ ListMembers(e) \/ ZoneRequestFails(e)
        PROVE  members' = members
    BY <2>3 DEF SubmitZone, InsertZone, NameZone, ListMembers, ZoneRequestFails
  <2>4. CASE \/ \E x \in Spaces : UpdateSpace(x)
             \/ BeginRefresh \/ ReadWorking \/ WriteBatch \/ RefreshFails \/ UNCHANGED spatialVars
    BY <1>2, <2>4 DEF UpdateSpace, BeginRefresh, ReadWorking, WriteBatch, RefreshFails,
                      spatialVars, zoneVars
  <2> QED
    BY <1>2, <2>1, <2>2, <2>3, <2>4 DEF SpatialNext
<1>3. /\ SpatialInv' =>
           [\A s \in Spaces : asked'[s] # 0 => working'[s] = asked'[s]]_spatialVars
      /\ [SpatialNext]_spatialVars =>
           [\A s \in Spaces :
              s \in members /\ (\A e \in Editors : editor[e] # "idle" => s \in selection[e])
                => s \in members']_spatialVars
  BY <1>1, <1>2
<1> QED
  BY SpatialInvariance, <1>3, PTL DEF SpatialSpec, ReviewIsKept

(* Who changes the members of the zone has met the zone.                     *)
ZoneIsMet == \A e \in Editors : editor[e] \notin {"idle", "insert"} => zones

(* The types of the review, which rest on its invariant.                     *)
THEOREM SpatialTypesKept == SpatialSpec => [](SpatialTypeOK /\ ZoneIsMet)
<1> USE SpatialBoundsAssumption
<1>1. SpatialInit => SpatialTypeOK /\ ZoneIsMet
  <2> SUFFICES ASSUME SpatialInit PROVE SpatialTypeOK /\ ZoneIsMet
    OBVIOUS
  <2>1. 0 \in 0..MaxEdits /\ 0 \in 0..MaxScans /\ 0 \in 0..MaxRefusals
    OBVIOUS
  <2>2. working \in [Spaces -> 0..MaxEdits] /\ kept \in [Spaces -> 0..MaxEdits]
    BY <2>1 DEF SpatialInit
  <2>3. selection \in [Editors -> SUBSET Spaces] /\ old \in [Editors -> SUBSET Spaces]
    BY DEF SpatialInit
  <2>4. /\ editor \in [Editors -> {"idle", "insert", "name", "list", "remove", "add"}]
        /\ \A e \in Editors : editor[e] = "idle"
        /\ \A s \in Spaces : working[s] = 0
    BY DEF SpatialInit
  <2> QED
    BY <2>1, <2>2, <2>3, <2>4 DEF SpatialInit, SpatialTypeOK, ZoneIsMet
<1>2. SpatialInv /\ SpatialTypeOK /\ ZoneIsMet /\ [SpatialNext]_spatialVars
        => (SpatialTypeOK /\ ZoneIsMet)'
  <2> SUFFICES ASSUME SpatialInv, SpatialTypeOK, ZoneIsMet, [SpatialNext]_spatialVars
               PROVE  (SpatialTypeOK /\ ZoneIsMet)'
    OBVIOUS
  <2> USE DEF SpatialTypeOK, ZoneIsMet, spaceVars, zoneVars, refreshVars
  <2>1. ASSUME NEW s \in Spaces, UpdateSpace(s) PROVE (SpatialTypeOK /\ ZoneIsMet)'
    BY <2>1 DEF UpdateSpace, MayEdit, Marks
  <2>2. CASE BeginRefresh
    BY <2>2 DEF BeginRefresh
  <2>3. CASE ReadWorking
    BY <2>3 DEF ReadWorking, Curated
  <2>4. CASE WriteBatch
    BY <2>4 DEF WriteBatch, SpatialInv, EditsCarried
  <2>5. CASE RefreshFails
    BY <2>5 DEF RefreshFails
  <2>6. ASSUME NEW e \in Editors,
               \/ SubmitZone(e) \/ InsertZone(e) \/ NameZone(e) \/ ListMembers(e)
               \/ RemoveMember(e) \/ AddMembers(e) \/ ZoneRequestFails(e)
        PROVE  (SpatialTypeOK /\ ZoneIsMet)'
    <3> USE DEF ZoneStep
    <3>1. CASE SubmitZone(e)
      BY <3>1 DEF SubmitZone, MayEdit
    <3>2. CASE InsertZone(e)
      BY <3>2 DEF InsertZone
    <3>3. CASE NameZone(e)
      BY <3>3 DEF NameZone
    <3>4. CASE ListMembers(e)
      BY <3>4 DEF ListMembers
    <3>5. CASE RemoveMember(e)
      BY <3>5 DEF RemoveMember
    <3>6. CASE AddMembers(e)
      BY <3>6 DEF AddMembers
    <3>7. CASE ZoneRequestFails(e)
      BY <3>7 DEF ZoneRequestFails
    <3> QED
      BY <2>6, <3>1, <3>2, <3>3, <3>4, <3>5, <3>6, <3>7
  <2>7. CASE UNCHANGED spatialVars
    BY <2>7 DEF spatialVars
  <2> QED
    BY <2>1, <2>2, <2>3, <2>4, <2>5, <2>6, <2>7 DEF SpatialNext
<1> QED
  BY <1>1, <1>2, SpatialInvariance, PTL DEF SpatialSpec

-----------------------------------------------------------------------------
(***************************************************************************)
(* The browser's session.                                                  *)
(***************************************************************************)

(* A token is the newest of its session.                                    *)
Current(t) == t # NoToken => t[2] = generation[t[1]]

Busy(r) == request[r].at # "none"

(* A request that shows a token to the Auth server has one.                  *)
TokenAtHand ==
  \A r \in Requests : request[r].at \in {"user", "refresh"} => request[r].token # NoToken

(* A request that is past the check has no session that was signed out when   *)
(* it began.                                                               *)
CheckedInTime ==
  \A r \in Requests :
    /\ request[r].gone \subseteq revoked
    /\ request[r].at \in {"gate", "serve", "served", "refused"} =>
         request[r].token = NoToken \/ request[r].token[1] \notin request[r].gone

(* One request at a time: it carries the newest tokens, or the cookie has     *)
(* them.                                                                   *)
TokensInOrder ==
  ~disturbed =>
    /\ \A q, r \in Requests : Busy(q) /\ Busy(r) => q = r
    /\ \A r \in Requests : Busy(r) =>
         IF request[r].dirty THEN Current(request[r].token) ELSE request[r].token = cookie
    /\ (\A r \in Requests : Busy(r) => ~request[r].dirty) => Current(cookie)

AccountInv == AccountTypeOK /\ TokenAtHand /\ CheckedInTime /\ TokensInOrder

(* The server issued it.                                                    *)
Issued(t) == t # NoToken => t[2] \in 1..generation[t[1]]

RequestScopes ==
  [at : {"none", "user", "refresh", "gate", "serve", "served", "refused", "leave"},
   route : Routes, token : Tokens, dirty : BOOLEAN, gone : SUBSET Sessions]

(* The type invariant, request by request.                                  *)
AccountTyped ==
  /\ generation \in [Sessions -> 0..MaxRefreshes]
  /\ revoked \subseteq Sessions /\ runOut \subseteq Tokens
  /\ cookie \in Tokens /\ Issued(cookie)
  /\ request \in [Requests -> RequestScopes]
  /\ \A r \in Requests : Issued(request[r].token)
  /\ hiccups \in 0..MaxHiccups
  /\ disturbed \in BOOLEAN /\ premium \in BOOLEAN

(* It is the type invariant.                                                *)
LEMMA AccountTypes == AccountTypeOK <=> AccountTyped
<1>1. (\A t \in {cookie} \cup {request[r].token : r \in Requests} : Issued(t))
        <=> Issued(cookie) /\ \A r \in Requests : Issued(request[r].token)
  OBVIOUS
<1> QED
  BY <1>1 DEF AccountTypeOK, AccountTyped, Issued, RequestScopes

(* A token that is one names its session and its generation.                 *)
LEMMA TokenParts ==
  ASSUME NEW t \in Tokens, t # NoToken
  PROVE  t[1] \in Sessions /\ t[2] \in 1..MaxRefreshes /\ t[1] # 0
  BY DEF Tokens, NoToken, Sessions

(* A generation of a session is a token.                                    *)
LEMMA PairIsToken ==
  ASSUME NEW s \in Sessions, NEW g \in 1..MaxRefreshes
  PROVE  /\ <<s, g>> \in Tokens /\ <<s, g>> # NoToken
         /\ <<s, g>>[1] = s /\ <<s, g>>[2] = g
  BY AccountBoundsAssumption DEF Tokens, NoToken, Sessions

(* store_auth_session keeps a request's scope one.                          *)
LEMMA KeptScope ==
  ASSUME request \in [Requests -> RequestScopes], NEW r \in Requests, NEW t \in Tokens,
         NEW at \in {"gate", "served"}, Keeps(r, at, t)
  PROVE  request' \in [Requests -> RequestScopes]
<1> DEFINE scope == [request[r] EXCEPT !.at = at, !.token = t, !.dirty = TRUE]
<1>1. request' = [request EXCEPT ![r] = scope]
  BY DEF Keeps
<1>2. scope \in RequestScopes
  BY DEF RequestScopes
<1> QED
  BY <1>1, <1>2

(* What the Auth server answers a request, new tokens of its session or none, *)
(* keeps the invariant: the request has the newest tokens then, and if nothing *)
(* was disturbed it is the only one.                                         *)
LEMMA AnswerKeepsOrder ==
  ASSUME AccountTyped, TokenAtHand, CheckedInTime, TokensInOrder,
         NEW r \in Requests, Busy(r), NEW t \in Tokens, Keeps(r, "gate", t),
         t # NoToken => t[2] = generation'[t[1]],
         t = NoToken \/ t[1] \notin request[r].gone,
         generation' \in [Sessions -> 0..MaxRefreshes],
         \A s \in Sessions : generation[s] <= generation'[s],
         disturbed' \in {disturbed, TRUE}, hiccups' \in 0..MaxHiccups,
         UNCHANGED <<revoked, runOut, premium, cookie>>
  PROVE  AccountTyped' /\ TokenAtHand' /\ CheckedInTime' /\ TokensInOrder'
<1>1. /\ request \in [Requests -> RequestScopes]
      /\ cookie \in Tokens /\ Issued(cookie) /\ disturbed \in BOOLEAN /\ premium \in BOOLEAN
      /\ \A q \in Requests : Issued(request[q].token) /\ request[q].token \in Tokens
      /\ generation \in [Sessions -> 0..MaxRefreshes]
      /\ revoked \subseteq Sessions /\ runOut \subseteq Tokens
  BY DEF AccountTyped, RequestScopes
<1>2. /\ request' \in [Requests -> RequestScopes]
      /\ \A q \in Requests \ {r} : request'[q] = request[q]
      /\ request'[r].at = "gate" /\ request'[r].token = t /\ request'[r].dirty
      /\ request'[r].gone = request[r].gone
  <2>1. request[r] \in RequestScopes
    BY <1>1
  <2>2. request' = [request EXCEPT ![r] = [@ EXCEPT !.at = "gate", !.token = t, !.dirty = TRUE]]
    BY DEF Keeps
  <2>3. request' \in [Requests -> RequestScopes]
    BY <1>1, KeptScope
  <2> QED
    BY <1>1, <2>1, <2>2, <2>3 DEF RequestScopes
<1>3. ASSUME NEW u \in Tokens, Issued(u) PROVE Issued(u)'
  <2> SUFFICES ASSUME u # NoToken PROVE u[2] \in 1..generation'[u[1]]
    BY DEF Issued
  <2>1. u[1] \in Sessions /\ u[2] \in 1..generation[u[1]]
    BY <1>3, TokenParts DEF Issued
  <2> QED
    BY <1>1, <2>1, AccountBoundsAssumption
<1>4. Issued(t)'
  <2> SUFFICES ASSUME t # NoToken PROVE t[2] \in 1..generation'[t[1]]
    BY DEF Issued
  <2> QED
    BY TokenParts
<1>5. AccountTyped'
  <2>1. \A q \in Requests : Issued(request[q].token)'
    <3> TAKE q \in Requests
    <3>1. CASE q = r
      BY <1>2, <1>4, <3>1 DEF Issued
    <3>2. CASE q # r
      <4>1. Issued(request[q].token) /\ request[q].token \in Tokens /\ request'[q] = request[q]
        BY <1>1, <1>2, <3>2
      <4> DEFINE u == request[q].token
      <4>2. u # NoToken => u[2] \in 1..generation'[u[1]]
        BY <1>3, <4>1 DEF Issued
      <4> QED
        BY <4>1, <4>2 DEF Issued
    <3> QED
      BY <3>1, <3>2
  <2>2. Issued(cookie)'
    <3>1. cookie # NoToken => cookie[2] \in 1..generation'[cookie[1]]
      BY <1>1, <1>3 DEF Issued
    <3> QED
      BY <3>1 DEF Issued
  <2> QED
    BY <1>1, <1>2, <2>1, <2>2 DEF AccountTyped
<1>6. TokenAtHand'
  BY <1>2 DEF TokenAtHand
<1>7. CheckedInTime'
  BY <1>2 DEF CheckedInTime
<1>8. TokensInOrder'
  <2> SUFFICES ASSUME ~disturbed'
               PROVE  /\ \A q \in Requests : Busy(q)' => q = r
                      /\ request'[r].dirty /\ Busy(r)' /\ Current(request[r].token)'
    BY <1>2 DEF TokensInOrder
  <2>1. \A q \in Requests : Busy(q) => q = r
    BY DEF TokensInOrder
  <2>2. \A q \in Requests : Busy(q)' => q = r
    BY <1>2, <2>1 DEF Busy
  <2> QED
    BY <1>2, <2>2 DEF Busy, Current
<1> QED
  BY <1>5, <1>6, <1>7, <1>8

(* The initial state satisfies the invariant.                               *)
LEMMA AccountInitInv == AccountInit => AccountInv
<1> SUFFICES ASSUME AccountInit PROVE AccountInv
  OBVIOUS
<1> USE AccountBoundsAssumption
<1>1. NoRequest \in RequestScopes /\ NoToken \in Tokens
  BY DEF NoRequest, RequestScopes, Routes, Tokens
<1>2. AccountTypeOK
  <2>1. request \in [Requests -> RequestScopes]
    BY <1>1 DEF AccountInit
  <2>2. \A r \in Requests : Issued(request[r].token)
    BY DEF AccountInit, NoRequest, Issued
  <2>3. generation \in [Sessions -> 0..MaxRefreshes] /\ hiccups \in 0..MaxHiccups
    BY DEF AccountInit
  <2>4. Issued(cookie)
    BY DEF AccountInit, Issued
  <2>5. AccountTyped
    BY <1>1, <2>1, <2>2, <2>3, <2>4 DEF AccountTyped, AccountInit
  <2> QED
    BY <2>5, AccountTypes
<1>3. \A r \in Requests : request[r].at = "none" /\ request[r].gone = {}
  BY DEF AccountInit, NoRequest
<1>4. Current(cookie)
  BY DEF AccountInit, Current
<1> QED
  BY <1>2, <1>3, <1>4 DEF AccountInv, TokenAtHand, CheckedInTime, TokensInOrder, Busy

(* A step keeps the invariant.                                              *)
LEMMA AccountStepInv ==
  ASSUME AccountInv, [AccountNext]_accountVars
  PROVE  AccountInv'
<1> DEFINE Goal == AccountTyped' /\ TokenAtHand' /\ CheckedInTime' /\ TokensInOrder'
<1>1. AccountTyped /\ TokenAtHand /\ CheckedInTime /\ TokensInOrder
  BY AccountTypes DEF AccountInv
<1>2. AccountTypeOK' <=> AccountTyped'
  BY AccountTypes, PTL
<1> SUFFICES Goal
  BY <1>2 DEF AccountInv
<1> USE <1>1, AccountBoundsAssumption, TokenParts, PairIsToken
    DEF AccountTyped, TokenAtHand, CheckedInTime, TokensInOrder, Busy, RequestScopes,
        Issued, Current, authServerVars
<1>3. NoRequest \in RequestScopes /\ NoToken \in Tokens /\ NoRequest.at = "none"
      /\ NoRequest.token = NoToken /\ NoRequest.gone = {}
  BY DEF NoRequest, RequestScopes, Routes, Tokens
<1>4. CASE RunOut
  BY <1>3, <1>4, SMTT(30) DEF RunOut, Tokens, Sessions
<1>5. CASE ChangeLevel
  BY <1>3, <1>5 DEF ChangeLevel
<1>6. CASE SignIn
  <2>1. PICK s \in Sessions :
          /\ generation[s] = 0 /\ generation' = [generation EXCEPT ![s] = 1]
          /\ cookie' = <<s, 1>>
    BY <1>6 DEF SignIn
  <2>2. <<s, 1>> \in Tokens /\ <<s, 1>> # NoToken
    BY <2>1
  <2>4. AccountTyped'
    BY <1>3, <1>6, <2>1, <2>2 DEF SignIn
  <2>5. TokenAtHand'
    BY <1>3, <1>6, <2>1, <2>2 DEF SignIn
  <2>6. CheckedInTime'
    BY <1>3, <1>6, <2>1, <2>2 DEF SignIn
  <2>7. TokensInOrder'
    BY <1>3, <1>6, <2>1, <2>2 DEF SignIn
  <2> QED
    BY <2>4, <2>5, <2>6, <2>7
<1>7. ASSUME NEW r \in Requests, Send(r) PROVE Goal
  <2>1. PICK route \in Routes :
          request' = [request EXCEPT ![r] =
            [at |-> IF route = "logout" THEN "leave" ELSE FirstCheck(cookie),
             route |-> route, token |-> cookie, dirty |-> FALSE, gone |-> revoked]]
    BY <1>7 DEF Send
  <2>2. FirstCheck(cookie) \in {"gate", "user", "refresh"}
        /\ (FirstCheck(cookie) = "gate" => cookie = NoToken)
        /\ (cookie = NoToken => FirstCheck(cookie) = "gate")
    BY DEF FirstCheck
  <2>4. AccountTyped'
    BY <1>3, <1>7, <2>1, <2>2 DEF Send
  <2>5. TokenAtHand'
    BY <1>3, <1>7, <2>1, <2>2 DEF Send
  <2>6. CheckedInTime'
    BY <1>3, <1>7, <2>1, <2>2 DEF Send
  <2>7. TokensInOrder'
    BY <1>3, <1>7, <2>1, <2>2, ZenonT(60) DEF Send
  <2> QED
    BY <2>4, <2>5, <2>6, <2>7
<1>8. ASSUME NEW r \in Requests, GetUser(r) PROVE Goal
  BY <1>3, <1>8 DEF GetUser, Becomes, Honoured
<1>9. ASSUME NEW r \in Requests, Refresh(r) PROVE Goal
  <2> DEFINE u == request[r].token
             t == <<u[1], u[2] + 1>>
  <2>1. /\ u \in Tokens /\ u # NoToken /\ u[1] \in Sessions /\ u[2] + 1 \in 1..MaxRefreshes
        /\ u[2] = generation[u[1]]
        /\ u[1] \notin revoked /\ request[r].gone \subseteq revoked /\ Busy(r)
    BY <1>9 DEF Refresh
  <2>2. t \in Tokens /\ t[1] = u[1] /\ t[2] = u[2] + 1
    BY <2>1
  <2>3. Keeps(r, "gate", t) /\ UNCHANGED <<revoked, runOut, premium, cookie, hiccups, disturbed>>
    BY <1>9 DEF Refresh, Refreshed
  <2>4. /\ generation' \in [Sessions -> 0..MaxRefreshes]
        /\ generation'[u[1]] = u[2] + 1
        /\ \A s \in Sessions : generation[s] <= generation'[s]
    BY <1>9, <2>1 DEF Refresh
  <2>5. disturbed' \in {disturbed, TRUE} /\ hiccups' \in 0..MaxHiccups
    BY <2>3
  <2> HIDE DEF AccountTyped, TokenAtHand, CheckedInTime, TokensInOrder, Busy, RequestScopes, Issued, t
  <2> QED
    BY ONLY <1>1, <2>1, <2>2, <2>3, <2>4, <2>5, AnswerKeepsOrder
<1>10. ASSUME NEW r \in Requests, RefreshAgain(r) PROVE Goal
  <2> DEFINE u == request[r].token
             t == <<u[1], generation[u[1]]>>
  <2>1. /\ u \in Tokens /\ u # NoToken /\ u[1] \in Sessions /\ generation[u[1]] \in 1..MaxRefreshes
        /\ u[1] \notin revoked /\ request[r].gone \subseteq revoked /\ Busy(r)
    BY <1>10 DEF RefreshAgain
  <2>2. t \in Tokens /\ t[1] = u[1] /\ t[2] = generation[u[1]]
    BY <2>1
  <2>3. Keeps(r, "gate", t)
        /\ UNCHANGED <<generation, revoked, runOut, premium, cookie, hiccups, disturbed>>
    BY <1>10 DEF RefreshAgain, Refreshed
  <2>4. /\ generation' \in [Sessions -> 0..MaxRefreshes]
        /\ \A s \in Sessions : generation[s] <= generation'[s]
        /\ disturbed' \in {disturbed, TRUE} /\ hiccups' \in 0..MaxHiccups
    BY <1>1, <2>3, AccountBoundsAssumption DEF AccountTyped
  <2> HIDE DEF AccountTyped, TokenAtHand, CheckedInTime, TokensInOrder, Busy, RequestScopes, Issued, t
  <2> QED
    BY ONLY <1>1, <2>1, <2>2, <2>3, <2>4, AnswerKeepsOrder
<1>11. ASSUME NEW r \in Requests, RefreshRefused(r) PROVE Goal
  <2>1. Keeps(r, "gate", NoToken) /\ Busy(r)
        /\ UNCHANGED <<generation, revoked, runOut, premium, cookie, hiccups, disturbed>>
    BY <1>11 DEF RefreshRefused
  <2>2. /\ generation' \in [Sessions -> 0..MaxRefreshes]
        /\ \A s \in Sessions : generation[s] <= generation'[s]
        /\ disturbed' \in {disturbed, TRUE} /\ hiccups' \in 0..MaxHiccups
    BY <1>1, <2>1, AccountBoundsAssumption DEF AccountTyped
  <2> HIDE DEF AccountTyped, TokenAtHand, CheckedInTime, TokensInOrder, Busy, RequestScopes, Issued
  <2> QED
    BY ONLY <1>1, <1>3, <2>1, <2>2, AnswerKeepsOrder
<1>12. ASSUME NEW r \in Requests, Hiccup(r) PROVE Goal
  <2>1. /\ Keeps(r, "gate", NoToken) /\ Busy(r)
        /\ disturbed' = TRUE /\ hiccups' \in 0..MaxHiccups
        /\ UNCHANGED <<revoked, runOut, premium, cookie>>
    BY <1>12 DEF Hiccup
  <2>2. /\ generation' \in [Sessions -> 0..MaxRefreshes]
        /\ \A s \in Sessions : generation[s] <= generation'[s]
    BY <1>12 DEF Hiccup
  <2> HIDE DEF AccountTyped, TokenAtHand, CheckedInTime, TokensInOrder, Busy, RequestScopes, Issued
  <2> QED
    BY ONLY <1>1, <1>3, <2>1, <2>2, AnswerKeepsOrder
<1>13. ASSUME NEW r \in Requests, Gate(r) PROVE Goal
  BY <1>3, <1>13 DEF Gate, Becomes
<1>14. ASSUME NEW r \in Requests, Serve(r) PROVE Goal
  BY <1>3, <1>14 DEF Serve, Becomes
<1>15. ASSUME NEW r \in Requests, LogOut(r) PROVE Goal
  <2>1. /\ revoked \subseteq revoked' /\ revoked' \subseteq Sessions
        /\ hiccups' \in 0..MaxHiccups
        /\ UNCHANGED disturbed \/ disturbed' = TRUE
    <3>1. Honoured(request[r].token) => request[r].token[1] \in Sessions
      BY <1>3, <1>15 DEF LogOut, Honoured
    <3> QED
      BY <1>15, <3>1 DEF LogOut
  <2>4. AccountTyped'
    <3>1. request' \in [Requests -> RequestScopes]
      BY <1>3, <1>15, KeptScope DEF LogOut
    <3>2. \A q \in Requests : Issued(request[q].token)'
      BY <1>15 DEF LogOut, Keeps
    <3> QED
      BY <1>15, <2>1, <3>1, <3>2 DEF LogOut
  <2>5. TokenAtHand'
    BY <1>3, <1>15, <2>1 DEF LogOut, Keeps
  <2>6. CheckedInTime'
    BY <1>3, <1>15, <2>1 DEF LogOut, Keeps
  <2>7. TokensInOrder'
    BY <1>3, <1>15, <2>1 DEF LogOut, Keeps
  <2> QED
    BY <2>4, <2>5, <2>6, <2>7
<1>16. ASSUME NEW r \in Requests, Receive(r) PROVE Goal
  BY <1>3, <1>16 DEF Receive
<1>17. CASE UNCHANGED accountVars
  BY <1>3, <1>17 DEF accountVars
<1> HIDE <1>1, AccountBoundsAssumption, TokenParts, PairIsToken DEF Goal
<1> QED
  BY <1>4, <1>5, <1>6, <1>7, <1>8, <1>9, <1>10, <1>11, <1>12, <1>13, <1>14, <1>15, <1>16, <1>17 DEF AccountNext

(* The invariant is inductive, and holds in every reachable state.           *)
THEOREM AccountInvariance == AccountSpec => []AccountInv
  BY AccountInitInv, AccountStepInv, PTL DEF AccountSpec

(* A session the Auth server has ended is served to no request that begins   *)
(* afterwards, and a browser that sends one request at a time, meets no       *)
(* outage and is refused nothing always holds the newest tokens of its        *)
(* session.                                                                *)
THEOREM SessionsLast == AccountSpec => []SessionsEndAndLast
<1>1. AccountInv => SessionsEndAndLast
  BY DEF AccountInv, CheckedInTime, TokensInOrder, Busy, Current, SessionsEndAndLast
<1> QED
  BY AccountInvariance, <1>1, PTL

-----------------------------------------------------------------------------
(***************************************************************************)
(* The parts side by side, as they are checked: what a part keeps is kept   *)
(* whatever the others do.                                                 *)
(***************************************************************************)

(* A behaviour of the whole is a behaviour of every part, which steps or     *)
(* rests.                                                                  *)
LEMMA PartsBehave == Spec => UploadSpec /\ SpatialSpec /\ FireSpec /\ AccountSpec
<1>1. Init => UploadInit /\ SpatialInit /\ FireInit /\ AccountInit
  BY DEF Init
<1>2. [Next]_vars => /\ [UploadNext]_uploadVars /\ [SpatialNext]_spatialVars
                     /\ [FireNext]_fireVars /\ [AccountNext]_accountVars
  BY DEF Next, vars
<1> QED
  BY <1>1, <1>2, PTL DEF Spec, UploadSpec, SpatialSpec, FireSpec, AccountSpec

(* Type correctness of the Regulation 38 workspace: uploads, spaces and      *)
(* zones, the fire strategy with its evidence, and the browser's session.    *)
THEOREM PartsAreTyped == Spec => []TypeOK
<1>1. UploadInv => UploadTypeOK
  BY DEF UploadInv
<1>2. AccountInv => AccountTypeOK
  BY DEF AccountInv
<1> QED
  BY PartsBehave, UploadInvariance, SpatialTypesKept, FireTypesKept, AccountInvariance,
     <1>1, <1>2, PTL DEF TypeOK

(* What the parts promise holds of the whole: models, evidence, sessions and *)
(* reviews are kept.                                                        *)
THEOREM PartsKeepTheirPromises ==
  Spec => [](ModelsAreKept /\ EvidenceIsTraceable /\ SessionsEndAndLast) /\ ReviewIsKept
  BY PartsBehave, UploadsAreKept, EvidenceTraced, SessionsLast, ReviewsAreKept, PTL

=============================================================================
