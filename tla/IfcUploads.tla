----------------------------- MODULE IfcUploads -----------------------------
(***************************************************************************)
(* Uploading, replacing and removing the IFC model of a project: the page  *)
(* (static/reg38-ifc-upload.js), the handlers of ifc_app/saas.py, the      *)
(* requests Regulation38Repository sends for them, and the two stores they *)
(* write: private Storage, and the table ifc_files.                        *)
(*                                                                         *)
(* A handler is a sequence of requests, each of which may fail before or   *)
(* after it took effect; a step here is one request.  The signed upload    *)
(* goes from the page to Storage past the handlers.                        *)
(***************************************************************************)
EXTENDS Naturals

CONSTANTS
  Models,       \* identifiers uuid4 hands out
  NoModel,
  Handlers,     \* bound: requests of this page served at a time
  MaxFailures   \* bound: requests that fail

ASSUME NoModelAssumption == NoModel \notin Models

ASSUME MaxFailuresAssumption == MaxFailures \in Nat

VARIABLES
  objects,   \* models whose object is in Storage
  records,   \* models with a row in ifc_files
  project,   \* "DRAFT" or "ACTIVE"; "deleted" without its row
  sending,   \* the model the page is putting into Storage
  pending,   \* pendingFinalization
  retiring,  \* its replace_file_id
  current,   \* currentUpload
  replaces,  \* replacement.replace_file_id
  shown,     \* the state the page renders
  reports,   \* failure reports that were sent and have not arrived
  handler,   \* [pc, new, old, caller]: the next request of a handler, for whom
  failures,
  (* history *)
  handedOut, \* models initiate returned
  discarded, \* models somebody asked to remove or to replace
  emptied,   \* delete_draft_project began
  disowned   \* models whose failed finalisation the page reported

storeVars == <<objects, records, project>>
pageVars == <<sending, pending, retiring, current, replaces, shown>>
historyVars == <<handedOut, discarded, emptied>>
reportVars == <<reports, disowned>>
uploadVars == <<storeVars, pageVars, reportVars, handler, failures, historyVars>>

HandlerPC == {"idle", "verify", "record", "load", "drop", "erase", "empty",
              "delete"}

(* upload, the retry-finalize button, the remove-uploaded button; another    *)
(* tab, or the page of the projects.                                        *)
Callers == {"upload", "retry", "remove", "other"}

Idle == [pc |-> "idle", new |-> NoModel, old |-> NoModel, caller |-> "other"]

(* The page is opened on a project that may have a model already.           *)
UploadInit ==
  /\ \E m \in Models : objects \in {{}, {m}}
  /\ records = objects /\ handedOut = objects
  /\ project \in {"DRAFT", "ACTIVE"}
  /\ sending = NoModel /\ pending = NoModel /\ retiring = NoModel
  /\ current = NoModel /\ replaces = NoModel
  /\ shown = "EMPTY"
  /\ reports = {}
  /\ handler = [h \in Handlers |-> Idle]
  /\ failures = 0
  /\ discarded = {} /\ disowned = {}
  /\ emptied = FALSE

UploadTypeOK ==
  /\ objects \subseteq Models /\ records \subseteq Models
  /\ project \in {"DRAFT", "ACTIVE", "deleted"}
  /\ {sending, pending, retiring, current, replaces} \subseteq Models \cup {NoModel}
  /\ shown \in {"EMPTY", "UPLOADING", "UPLOADED", "FAILED", "FINALIZE_FAILED"}
  /\ reports \subseteq handedOut /\ handedOut \subseteq Models
  /\ handler \in [Handlers -> [pc : HandlerPC, new : Models \cup {NoModel},
                               old : Models \cup {NoModel},
                               caller : Callers]]
  /\ failures \in 0..MaxFailures
  /\ discarded \subseteq Models /\ emptied \in BOOLEAN
  /\ disowned \subseteq handedOut
  (* a handler that records a model, or removes one, was told which *)
  /\ \A h \in Handlers :
       /\ handler[h].pc \in {"verify", "record", "load"} => handler[h].new # NoModel
       /\ handler[h].pc \in {"drop", "erase"} => handler[h].old # NoModel

-----------------------------------------------------------------------------
(***************************************************************************)
(* The page.                                                               *)
(***************************************************************************)

(* The .replace-ifc buttons set `replacement', and nothing clears it.       *)
ChooseReplacement ==
  /\ \E m \in records : replaces' = m
  /\ UNCHANGED <<storeVars, sending, pending, retiring, current, shown, reportVars, handler,
                 failures, historyVars>>

(* upload: initiate answers with an identifier, a path and a signed URL; it *)
(* stores nothing.                                                          *)
BeginUpload ==
  /\ sending = NoModel /\ project # "deleted"
  /\ \E m \in Models \ handedOut : sending' = m /\ handedOut' = handedOut \cup {m}
  /\ shown' = "UPLOADING"
  /\ UNCHANGED <<storeVars, pending, retiring, current, replaces, reportVars, handler,
                 failures, discarded, emptied>>

Call(h, first, m, old, caller) ==
  /\ handler[h] = Idle
  /\ handler' = [handler EXCEPT ![h] =
                   [pc |-> first, new |-> m, old |-> old, caller |-> caller]]

(* The PUT is answered 2xx: finalizeUpload.                                 *)
Uploaded(h) ==
  /\ sending # NoModel
  /\ objects' = objects \cup {sending}
  /\ pending' = sending /\ retiring' = replaces /\ sending' = NoModel
  /\ Call(h, "verify", sending, replaces, "upload")
  /\ discarded' = discarded \cup ({replaces} \ {NoModel})
  /\ UNCHANGED <<records, project, current, replaces, shown, reportVars, failures,
                 handedOut, emptied>>

(* Variant: whatever went wrong is reported.                                *)
ReportFailure_Always ==
  reports' = reports \cup ({sending, pending} \ {NoModel})

(* The catch of upload reports an upload that is not awaiting finalisation: *)
(* pendingFinalization may be that of an earlier one.                       *)
ReportFailure ==
  reports' = IF pending = NoModel THEN reports \cup {sending} ELSE reports

(* The PUT fails, is aborted, or its answer is lost.                        *)
UploadFails ==
  /\ sending # NoModel
  /\ objects' \in {objects, objects \cup {sending}}
  /\ ReportFailure
  /\ shown' = IF pending = NoModel THEN "FAILED" ELSE "FINALIZE_FAILED"
  /\ sending' = NoModel
  /\ UNCHANGED <<records, project, pending, retiring, current, replaces, disowned,
                 handler, failures, historyVars>>

(* The button stays while finalizeUpload waits for an answer; what is to be  *)
(* replaced was noted with the upload.                                      *)
RetryFinalisation(h) ==
  /\ shown = "FINALIZE_FAILED" /\ pending # NoModel
  /\ Call(h, "verify", pending, retiring, "retry")
  /\ discarded' = discarded \cup ({retiring} \ {NoModel})
  /\ UNCHANGED <<storeVars, pageVars, reportVars, failures, handedOut, emptied>>

(* remove_reg38_ifc: of the model just uploaded, or of one that another tab *)
(* lists.                                                                   *)
RequestRemoval(h) ==
  /\ \E m \in records, caller \in {"remove", "other"} :
       /\ caller = "remove" => shown = "UPLOADED" /\ m = current
       /\ Call(h, "drop", NoModel, m, caller)
       /\ discarded' = discarded \cup {m}
  /\ UNCHANGED <<storeVars, pageVars, reportVars, failures, handedOut, emptied>>

RequestDeletion(h) ==
  /\ project # "deleted"
  /\ Call(h, "empty", NoModel, NoModel, "other")
  /\ emptied' = TRUE
  /\ UNCHANGED <<storeVars, pageVars, reportVars, failures, handedOut, discarded>>

-----------------------------------------------------------------------------
(***************************************************************************)
(* The handlers.                                                           *)
(***************************************************************************)

Goes(h, pc) == handler' = [handler EXCEPT ![h].pc = pc]

(* report_reg38_ifc_failure and cleanup_failed_upload; the report and the   *)
(* request to Storage may both be lost.                                     *)
CleanUp ==
  /\ \E m \in reports :
       /\ reports' = reports \ {m}
       /\ objects' \in {objects, objects \ {m}}
  /\ UNCHANGED <<records, project, pageVars, disowned, handler, failures, historyVars>>

(* finalize_ifc_upload asks Storage for the object first.                   *)
Verify(h) ==
  /\ handler[h].pc = "verify" /\ handler[h].new \in objects
  /\ Goes(h, "record")
  /\ UNCHANGED <<storeVars, pageVars, reportVars, failures, historyVars>>

(* rpc/finalize_ifc_upload, which looks at storage.objects again and queues *)
(* the scan.                                                                *)
Recordable(h) ==
  /\ handler[h].pc = "record"
  /\ project # "deleted" /\ handler[h].new \in objects

Record(h) ==
  /\ Recordable(h)
  /\ records' = records \cup {handler[h].new}
  /\ Goes(h, "load")
  /\ UNCHANGED <<objects, project, pageVars, reportVars, failures, historyVars>>

(* finalizeUpload rethrows to upload, whose catch reports the upload as       *)
(* failed if nothing awaits finalisation: a retry may have ended meanwhile.  *)
Disowns(h, ok) ==
  ~ok /\ handler[h].caller = "upload" /\ pending = NoModel

(* What the page makes of an answer to it.                                  *)
Answer(h, ok) ==
  LET new == handler[h].new
      failed == IF Disowns(h, ok) THEN {new} ELSE {}
  IN  /\ handler' = [handler EXCEPT ![h] = Idle]
      /\ reports' = reports \cup failed /\ disowned' = disowned \cup failed
      /\ IF handler[h].caller = "other" THEN UNCHANGED pageVars
         ELSE /\ shown' = CASE ok /\ new # NoModel -> "UPLOADED"
                           [] ok /\ new = NoModel -> "EMPTY"
                           [] ~ok /\ new # NoModel /\ ~Disowns(h, ok) -> "FINALIZE_FAILED"
                           [] OTHER -> "FAILED"
              /\ current' = IF ok THEN new ELSE current
              /\ pending' = IF ok /\ new # NoModel THEN NoModel ELSE pending
              /\ retiring' = IF ok /\ new # NoModel THEN NoModel ELSE retiring
              /\ UNCHANGED <<sending, replaces>>

(* The project and the model are read back; the row must be there.          *)
Load(h) ==
  /\ handler[h].pc = "load" /\ handler[h].new \in records
  /\ IF handler[h].old = NoModel
     THEN Answer(h, TRUE)
     ELSE Goes(h, "drop") /\ UNCHANGED <<pageVars, reportVars>>
  /\ UNCHANGED <<storeVars, failures, historyVars>>

(* rpc/remove_reg38_ifc_model raises when there is no such row.             *)
Drop(h) ==
  /\ handler[h].pc = "drop" /\ handler[h].old \in records
  /\ records' = records \ {handler[h].old}
  /\ Goes(h, "erase")
  /\ UNCHANGED <<objects, project, pageVars, reportVars, failures, historyVars>>

(* The answer to the DELETE is not looked at.                               *)
Erase(h) ==
  /\ handler[h].pc = "erase"
  /\ objects' \in {objects, objects \ {handler[h].old}}
  /\ Answer(h, TRUE)
  /\ UNCHANGED <<records, project, failures, historyVars>>

(* delete_draft_project lists and deletes what Storage returns for the      *)
(* prefix, a thousand names at most, ...                                    *)
Empty(h) ==
  /\ handler[h].pc = "empty"
  /\ objects' \in SUBSET objects
  /\ Goes(h, "delete")
  /\ UNCHANGED <<records, project, pageVars, reportVars, failures, historyVars>>

(* ... and only then is the project required to be a draft.                 *)
Delete(h) ==
  /\ handler[h].pc = "delete" /\ project = "DRAFT"
  /\ project' = "deleted" /\ records' = {}
  /\ Answer(h, TRUE)
  /\ UNCHANGED <<objects, failures, historyVars>>

(* The request is refused for what it finds.                                *)
Refused(h) ==
  /\ \/ handler[h].pc = "verify" /\ handler[h].new \notin objects
     \/ handler[h].pc = "record" /\ ~Recordable(h)
     \/ handler[h].pc = "load" /\ handler[h].new \notin records
     \/ handler[h].pc = "drop" /\ handler[h].old \notin records
     \/ handler[h].pc = "delete" /\ project # "DRAFT"
  /\ Answer(h, FALSE)
  /\ UNCHANGED <<storeVars, failures, historyVars>>

(* The request fails, or its answer is lost after it took effect.           *)
RequestFails(h) ==
  /\ handler[h].pc # "idle" /\ failures < MaxFailures
  /\ failures' = failures + 1
  /\ Answer(h, FALSE)
  /\ \/ UNCHANGED storeVars
     \/ Recordable(h) /\ records' = records \cup {handler[h].new}
          /\ UNCHANGED <<objects, project>>
     \/ handler[h].pc = "drop" /\ records' = records \ {handler[h].old}
          /\ UNCHANGED <<objects, project>>
     \/ handler[h].pc = "erase" /\ objects' = objects \ {handler[h].old}
          /\ UNCHANGED <<records, project>>
  /\ UNCHANGED historyVars

UploadNext ==
  \/ ChooseReplacement \/ BeginUpload \/ UploadFails \/ CleanUp
  \/ \E h \in Handlers :
       \/ Uploaded(h) \/ RetryFinalisation(h) \/ RequestRemoval(h)
       \/ RequestDeletion(h)
       \/ Verify(h) \/ Record(h) \/ Load(h) \/ Drop(h) \/ Erase(h)
       \/ Empty(h) \/ Delete(h) \/ Refused(h) \/ RequestFails(h)

UploadSpec == UploadInit /\ [][UploadNext]_uploadVars

-----------------------------------------------------------------------------
(***************************************************************************)
(* Properties.                                                             *)
(***************************************************************************)

(* Nobody loses a model he did not ask to remove: a recorded model keeps    *)
(* its object, whatever clean-up of failed uploads, retry or removal of     *)
(* others is under way, unless its finalisation failed for the page after    *)
(* another one had succeeded, which the page reports like a failed upload;   *)
(* a model to be replaced goes only when the new one was recorded; and "IFC  *)
(* uploaded" names a model that was recorded.                               *)
ModelsAreKept ==
  /\ \A m \in records \ (discarded \cup disowned) : m \in objects \/ emptied
  /\ \A h \in Handlers :
       handler[h].pc \in {"drop", "erase"} /\ handler[h].new # NoModel
         => handler[h].new \in records \cup discarded \/ project = "deleted"
  /\ shown = "UPLOADED" =>
       current \in records \cup discarded \/ project = "deleted"

=============================================================================
