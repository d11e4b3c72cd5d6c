------------------------------- MODULE QaRuns -------------------------------
(***************************************************************************)
(* The IFC QA runs of one browser session: the endpoints of app.py that     *)
(* start them, the registry and the job thread of ifc_qa_service.py, and    *)
(* what they leave in the session: CSV outputs, manifest.json, the zip.     *)
(*                                                                         *)
(* A request asks whether a job is active, then reads its uploads (an await *)
(* per chunk), then starts a thread: other requests come in between, and     *)
(* the session may end while the thread works in its directory.             *)
(***************************************************************************)
EXTENDS Naturals, FiniteSets

CONSTANTS
  Requests,   \* requests, each starts at most one job
  Models,     \* names of IFC files
  None,       \* no file
  MaxFaults   \* bound: directories, table, zip or manifest writes that raise

ASSUME NoneAssumption == None \notin Models

ASSUME BoundAssumption == MaxFaults \in Nat

VARIABLES
  pc,       \* where a request, and then the thread of its job, is
  status,   \* IFC_QA_V2_REGISTRY.jobs: the status of its job
  mode,     \* "replace" or "append"
  files,    \* the files of the request
  todo,     \* those still to be processed
  cur,      \* the file being processed
  listed,   \* processed_files of the manifest in the thread's memory
  failures, \* had_failures
  out,      \* the CSV outputs of a file: none, some or all of them
  zip,      \* IFC Output.zip: whether it is there, the outputs and rows in it
  table,    \* the rows of IFC MODEL TABLE.csv
  saved,    \* processed_files in manifest.json
  torn,     \* manifest.json is truncated or half written
  session,  \* its directory is there, is removed, or was made again by a thread
  cut,      \* jobs whose open zip or manifest was removed under them
  before,   \* what the manifest listed when a job began
  overlap,  \* a job was started while the thread of another was alive
  faults

request == <<mode, files>>
thread == <<todo, cur, listed, failures>>
manifest == <<saved, torn>>
place == <<session, cut>>
ghost == <<before, overlap>>
vars == <<pc, status, request, thread, out, zip, table, manifest, place, ghost, faults>>

NoOutputs == [m \in Models |-> "none"]
NoZip == [state |-> "none", outputs |-> NoOutputs, rows |-> {}]

Init ==
  /\ pc = [r \in Requests |-> "idle"]
  /\ status = [r \in Requests |-> "none"]
  /\ mode = [r \in Requests |-> "replace"]
  /\ files = [r \in Requests |-> {}]
  /\ todo = [r \in Requests |-> {}]
  /\ cur = [r \in Requests |-> None]
  /\ listed = [r \in Requests |-> {}]
  /\ failures = [r \in Requests |-> FALSE]
  /\ out = NoOutputs
  /\ zip = NoZip
  /\ table = {}
  /\ saved = {} /\ torn = FALSE
  /\ session = "open" /\ cut = {}
  /\ before = [r \in Requests |-> {}]
  /\ overlap = FALSE
  /\ faults = 0

Active == {"queued", "running"}
Finished == {"complete", "complete_with_errors"}

(* The thread of the job runs.                                             *)
Running == {"load", "clear", "files", "process", "write", "table", "zip",
            "zipping", "save", "saving", "report"}
Live(r) == pc[r] \in Running

Goto(r, l) == pc' = [pc EXCEPT ![r] = l]

(* registry.update: a job that was cleaned up stays away.                  *)
SetStatus(r, s) ==
  status' = IF status[r] = "gone" THEN status ELSE [status EXCEPT ![r] = s]

(* The request or the thread is over, with its local variables.             *)
End(r, l) ==
  /\ Goto(r, l)
  /\ mode' = [mode EXCEPT ![r] = "replace"]
  /\ files' = [files EXCEPT ![r] = {}]
  /\ todo' = [todo EXCEPT ![r] = {}]
  /\ cur' = [cur EXCEPT ![r] = None]
  /\ listed' = [listed EXCEPT ![r] = {}]
  /\ failures' = [failures EXCEPT ![r] = FALSE]
  /\ before' = [before EXCEPT ![r] = {}]
  /\ cut' = cut \ {r}

(* A directory is made with its parents: a removed session is there again.  *)
Remade == IF session = "gone" THEN "again" ELSE session

Fault == faults < MaxFaults /\ faults' = faults + 1

-----------------------------------------------------------------------------
(***************************************************************************)
(* Requests: run and extract replace, add-to-zip appends.                  *)
(***************************************************************************)

HasActiveJob == \E r \in Requests : status[r] \in Active

Ask(r, md, fs) ==
  /\ pc[r] = "idle"
  /\ IF HasActiveJob
       THEN Goto(r, "refused") /\ UNCHANGED request
       ELSE /\ Goto(r, "upload")
            /\ mode' = [mode EXCEPT ![r] = md]
            /\ files' = [files EXCEPT ![r] = fs]
  /\ UNCHANGED <<status, thread, out, zip, table, manifest, place, ghost, faults>>

(* An upload is too large, an option is malformed, the session is gone.     *)
Reject(r) ==
  /\ pc[r] = "upload"
  /\ End(r, "refused")
  /\ UNCHANGED <<status, out, zip, table, manifest, session, overlap, faults>>

Start(r) ==
  /\ pc[r] = "upload" /\ session # "gone"
  /\ Goto(r, "load")
  /\ status' = [status EXCEPT ![r] = "queued"]
  /\ overlap' = (overlap \/ \E q \in Requests : Live(q))
  /\ UNCHANGED <<request, thread, out, zip, table, manifest, place, before, faults>>

(* Registry.cleanup, from a status or result request a day later: the       *)
(* result of the job is removed, which is the zip of the session.          *)
Expire(r) ==
  /\ status[r] \in Active \cup Finished \cup {"failed"}
  /\ status' = [status EXCEPT ![r] = "gone"]
  /\ zip' = IF status[r] \in Finished THEN NoZip ELSE zip
  /\ cut' = cut \cup {q \in Requests : status[r] \in Finished /\ pc[q] = "zipping"}
  /\ UNCHANGED <<pc, request, thread, out, table, manifest, session, ghost, faults>>

(* The page or a clean-up ends the session, whatever works in it: rmtree of   *)
(* its directory. What threads hold open goes with it.                      *)
EndSession ==
  /\ session # "gone" /\ session' = "gone"
  /\ out' = NoOutputs /\ zip' = NoZip /\ table' = {}
  /\ saved' = {} /\ torn' = FALSE
  /\ cut' = cut \cup {q \in Requests : pc[q] \in {"zipping", "saving"}}
  /\ UNCHANGED <<pc, status, request, thread, ghost, faults>>

-----------------------------------------------------------------------------
(***************************************************************************)
(* The thread: run_session_job.                                            *)
(***************************************************************************)

ThreadUnchanged == UNCHANGED <<request, ghost>>

(* The directories are made and the manifest is read outside the try: if     *)
(* that raises, the thread ends and the job stays queued.                   *)
Load(r) ==
  /\ pc[r] = "load"
  /\ \/ torn /\ End(r, "unread")
     \/ /\ ~torn
        /\ listed' = [listed EXCEPT ![r] = saved]
        /\ before' = [before EXCEPT ![r] = saved]
        /\ Goto(r, "clear")
        /\ UNCHANGED <<request, todo, cur, failures, cut>>
  /\ session' = Remade
  /\ UNCHANGED <<status, out, zip, table, manifest, overlap, faults>>

(* Variant: replace removes the outputs and keeps the list.                 *)
Clear_KeepsList(r) ==
  /\ pc[r] = "clear"
  /\ out' = IF mode[r] = "replace" THEN NoOutputs ELSE out
  /\ todo' = [todo EXCEPT ![r] = files[r]]
  /\ SetStatus(r, "running")
  /\ Goto(r, "files")
  /\ session' = IF mode[r] = "replace" THEN Remade ELSE session
  /\ UNCHANGED <<cur, listed, failures, zip, table, manifest, cut, faults>>
  /\ ThreadUnchanged

(* Variant: every job replaces.                                             *)
Clear_Always(r) ==
  /\ pc[r] = "clear"
  /\ out' = NoOutputs /\ listed' = [listed EXCEPT ![r] = {}]
  /\ session' = Remade
  /\ todo' = [todo EXCEPT ![r] = files[r]]
  /\ SetStatus(r, "running")
  /\ Goto(r, "files")
  /\ UNCHANGED <<cur, failures, zip, table, manifest, cut, faults>>
  /\ ThreadUnchanged

Clear(r) ==
  /\ pc[r] = "clear"
  /\ IF mode[r] = "replace"
       THEN /\ out' = NoOutputs /\ listed' = [listed EXCEPT ![r] = {}]
            /\ session' = Remade
       ELSE UNCHANGED <<out, listed, session>>
  /\ todo' = [todo EXCEPT ![r] = files[r]]
  /\ SetStatus(r, "running")
  /\ Goto(r, "files")
  /\ UNCHANGED <<cur, failures, zip, table, manifest, cut, faults>>
  /\ ThreadUnchanged

(* A directory cannot be made, or is removed again while the tree is made:   *)
(* that too is outside the try. A replacing job has removed the outputs.    *)
Stranded(r) ==
  /\ Fault
  /\ \/ pc[r] = "load" /\ UNCHANGED out
     \/ pc[r] = "clear" /\ mode[r] = "replace" /\ out' = NoOutputs
  /\ session' \in {session, Remade}
  /\ End(r, "stranded")
  /\ UNCHANGED <<status, zip, table, manifest, overlap>>

(* The next file: its earlier outputs and its entry go.                     *)
NextFile(r) ==
  /\ pc[r] = "files"
  /\ \E m \in todo[r] :
       /\ cur' = [cur EXCEPT ![r] = m]
       /\ todo' = [todo EXCEPT ![r] = @ \ {m}]
       /\ out' = IF m \in listed[r] THEN [out EXCEPT ![m] = "none"] ELSE out
       /\ listed' = [listed EXCEPT ![r] = @ \ {m}]
  /\ Goto(r, "process")
  /\ UNCHANGED <<status, failures, zip, table, manifest, place, faults>>
  /\ ThreadUnchanged

(* The file is read, and its outputs are begun.                            *)
Collect(r) ==
  /\ pc[r] = "process"
  /\ out' = [out EXCEPT ![cur[r]] = "some"]
  /\ session' = Remade
  /\ Goto(r, "write")
  /\ UNCHANGED <<status, thread, zip, table, manifest, cut, faults>>
  /\ ThreadUnchanged

(* The outputs are written; if another job or the end of the session has     *)
(* removed those it began with, only the later ones are there.              *)
WriteOutputs(r) ==
  /\ pc[r] = "write"
  /\ \/ /\ out[cur[r]] # "none" /\ out' = [out EXCEPT ![cur[r]] = "all"]
        /\ UNCHANGED session
     \/ /\ out[cur[r]] = "none"
        /\ \/ UNCHANGED <<out, session>>
           \/ out' = [out EXCEPT ![cur[r]] = "some"] /\ session' = Remade
  /\ listed' = [listed EXCEPT ![r] = @ \cup {cur[r]}]
  /\ cur' = [cur EXCEPT ![r] = None]
  /\ Goto(r, "files")
  /\ UNCHANGED <<status, todo, failures, zip, table, manifest, cut, faults>>
  /\ ThreadUnchanged

(* Variant: the failed file stays the current one.                         *)
FileFails_KeepsFile(r) ==
  /\ pc[r] \in {"process", "write"}
  /\ failures' = [failures EXCEPT ![r] = TRUE]
  /\ Goto(r, "files")
  /\ UNCHANGED <<status, todo, cur, listed, out, zip, table, manifest, place, faults>>
  /\ ThreadUnchanged

(* Variant: the failure of a file is not noted.                             *)
FileFails_Unnoted(r) ==
  /\ pc[r] \in {"process", "write"}
  /\ cur' = [cur EXCEPT ![r] = None]
  /\ Goto(r, "files")
  /\ UNCHANGED <<status, todo, listed, failures, out, zip, table, manifest, place, faults>>
  /\ ThreadUnchanged

(* Variant: a failed file is tried again.                                   *)
FileFails_Retries(r) ==
  /\ pc[r] \in {"process", "write"}
  /\ failures' = [failures EXCEPT ![r] = TRUE]
  /\ todo' = [todo EXCEPT ![r] = @ \cup {cur[r]}]
  /\ cur' = [cur EXCEPT ![r] = None]
  /\ Goto(r, "files")
  /\ UNCHANGED <<status, listed, out, zip, table, manifest, place, faults>>
  /\ ThreadUnchanged

(* A file that cannot be read or written; the other files go on.            *)
FileFails(r) ==
  /\ pc[r] \in {"process", "write"}
  /\ failures' = [failures EXCEPT ![r] = TRUE]
  /\ cur' = [cur EXCEPT ![r] = None]
  /\ Goto(r, "files")
  /\ UNCHANGED <<status, todo, listed, out, zip, table, manifest, place, faults>>
  /\ ThreadUnchanged

(* The model table lists what the manifest in memory lists.                 *)
WriteTable(r) ==
  /\ pc[r] = "files" /\ todo[r] = {}
  /\ table' = listed[r]
  /\ session' = Remade
  /\ Goto(r, "zip")
  /\ UNCHANGED <<status, thread, out, zip, manifest, cut, faults>>
  /\ ThreadUnchanged

(* The zip is truncated, and then filled with what is in the directory and   *)
(* copied; nothing makes the directory of the zip, so it has to be there.    *)
OpenZip(r) ==
  /\ pc[r] = "zip" /\ session # "gone"
  /\ zip' = [state |-> "open", outputs |-> NoOutputs, rows |-> {}]
  /\ Goto(r, "zipping")
  /\ UNCHANGED <<status, thread, out, table, manifest, place, faults>>
  /\ ThreadUnchanged

FillZip(r) ==
  /\ pc[r] = "zipping" /\ r \notin cut
  /\ zip' = [state |-> "done", outputs |-> out, rows |-> table]
  /\ Goto(r, "save")
  /\ UNCHANGED <<status, thread, out, table, manifest, place, faults>>
  /\ ThreadUnchanged

(* The zip was removed while it was filled: there is another one to copy, or *)
(* no directory to copy it to, which is not asked for.                      *)
FillRemovedZip(r) ==
  /\ pc[r] = "zipping" /\ r \in cut
  /\ session = "gone" \/ zip.state # "none"
  /\ cut' = cut \ {r}
  /\ Goto(r, "save")
  /\ UNCHANGED <<status, thread, out, zip, table, manifest, session, faults>>
  /\ ThreadUnchanged

(* There is no directory for the zip, or no zip to copy.                    *)
ZipLost(r) ==
  /\ \/ pc[r] = "zip" /\ session = "gone"
     \/ pc[r] = "zipping" /\ r \in cut /\ zip.state = "none"
  /\ SetStatus(r, "failed")
  /\ End(r, "done")
  /\ UNCHANGED <<out, zip, table, manifest, session, overlap, faults>>

(* The manifest is truncated, and then written.                             *)
OpenManifest(r) ==
  /\ pc[r] = "save"
  /\ torn' = TRUE
  /\ session' = Remade
  /\ Goto(r, "saving")
  /\ UNCHANGED <<status, thread, out, zip, table, saved, cut, faults>>
  /\ ThreadUnchanged

SaveManifest(r) ==
  /\ pc[r] = "saving"
  /\ IF r \in cut THEN UNCHANGED manifest
                  ELSE saved' = listed[r] /\ torn' = FALSE
  /\ cut' = cut \ {r}
  /\ Goto(r, "report")
  /\ UNCHANGED <<status, thread, out, zip, table, session, faults>>
  /\ ThreadUnchanged

(* Variant: the outcome is not entered in the registry.                     *)
Report_Silent(r) ==
  /\ pc[r] = "report"
  /\ End(r, "done")
  /\ UNCHANGED <<status, out, zip, table, manifest, session, overlap, faults>>

Report(r) ==
  /\ pc[r] = "report"
  /\ SetStatus(r, IF failures[r] THEN "complete_with_errors" ELSE "complete")
  /\ End(r, "done")
  /\ UNCHANGED <<out, zip, table, manifest, session, overlap, faults>>

(* The table, the zip or the manifest cannot be written.                    *)
Fails(r) ==
  /\ Fault
  /\ \/ pc[r] = "files" /\ todo[r] = {}
     \/ pc[r] \in {"zip", "zipping", "save", "saving"}
  /\ SetStatus(r, "failed")
  /\ End(r, "done")
  /\ UNCHANGED <<out, zip, table, manifest, session, overlap>>

Run(r) ==
  \/ Load(r) \/ Clear(r) \/ Stranded(r)
  \/ NextFile(r) \/ Collect(r) \/ WriteOutputs(r) \/ FileFails(r)
  \/ WriteTable(r) \/ OpenZip(r) \/ FillZip(r) \/ FillRemovedZip(r) \/ ZipLost(r)
  \/ OpenManifest(r) \/ SaveManifest(r) \/ Report(r) \/ Fails(r)

Next ==
  \/ \E r \in Requests :
       \/ \E md \in {"replace", "append"}, fs \in SUBSET Models \ {{}} : Ask(r, md, fs)
       \/ Reject(r) \/ Start(r) \/ Expire(r)
       \/ Run(r)
  \/ EndSession

(* Threads that were started run on.                                       *)
Fairness == \A r \in Requests : WF_vars(Run(r))

Spec == Init /\ [][Next]_vars
FairSpec == Spec /\ Fairness

-----------------------------------------------------------------------------
(***************************************************************************)
(* Properties.                                                             *)
(***************************************************************************)

PC == {"idle", "refused", "upload", "unread", "stranded", "done"} \cup Running
Status == {"none", "failed", "gone"} \cup Active \cup Finished
Outputs == [Models -> {"none", "some", "all"}]

(* The types of the variables; a thread has a file while it processes one.  *)
TypeOK ==
  /\ pc \in [Requests -> PC]
  /\ status \in [Requests -> Status]
  /\ mode \in [Requests -> {"replace", "append"}]
  /\ files \in [Requests -> SUBSET Models]
  /\ todo \in [Requests -> SUBSET Models]
  /\ cur \in [Requests -> Models \cup {None}]
  /\ \A r \in Requests : cur[r] # None <=> pc[r] \in {"process", "write"}
  /\ listed \in [Requests -> SUBSET Models]
  /\ failures \in [Requests -> BOOLEAN]
  /\ out \in Outputs
  /\ zip \in [state : {"none", "open", "done"}, outputs : Outputs, rows : SUBSET Models]
  /\ table \subseteq Models
  /\ saved \subseteq Models /\ torn \in BOOLEAN
  /\ session \in {"open", "gone", "again"} /\ cut \subseteq Requests
  /\ before \in [Requests -> SUBSET Models]
  /\ overlap \in BOOLEAN
  /\ faults \in 0..MaxFaults

(* has_active_ifc_qa_job refuses with "already running": a thread works, or   *)
(* one ended before its try, on a manifest that every later job would meet   *)
(* too until the session ends, or on directories that could not be made.     *)
BusyMeansWorking ==
  ~overlap =>
    \A r \in Requests :
      status[r] \in Active =>
        \/ Live(r)
        \/ pc[r] = "unread" /\ (torn \/ session # "open")
        \/ pc[r] = "stranded" /\ faults > 0

(* No job runs, none has expired, no write has failed, and the session never  *)
(* ended.                                                                  *)
Settled ==
  /\ ~overlap /\ faults = 0 /\ session = "open"
  /\ \A r \in Requests : ~Live(r) /\ status[r] # "gone"

(* After jobs that did not overlap, whatever files failed in them, the       *)
(* summary of the session (manifest) lists the models whose outputs are      *)
(* complete, and no others; the model table in the zip lists the same ones,  *)
(* and the zip has the outputs that are on disk.                            *)
SummaryMatchesZip ==
  Settled /\ (\E r \in Requests : pc[r] = "done")
    => /\ zip.state = "done" /\ zip.rows = saved /\ zip.outputs = out
       /\ \A m \in Models : m \in saved <=> out[m] = "all"

Reports(r) == pc[r] = "report" /\ pc'[r] = "done"

(* A job that ends complete has stored every file of its request, unless the *)
(* session ended: then a job reports complete on what it made again.        *)
CompleteMeansAll ==
  [][\A r \in Requests :
       Reports(r) /\ ~overlap /\ session = "open" /\ status'[r] = "complete"
         => \A m \in files[r] : m \in saved /\ out[m] = "all"]_vars

(* add-to-zip keeps the models of earlier runs.                             *)
AppendKeepsOthers ==
  [][\A r \in Requests :
       Reports(r) /\ ~overlap /\ session = "open" /\ mode[r] = "append"
         => before[r] \ files[r] \subseteq saved]_vars

(* The thread of a started job ends, whatever files fail, other jobs write    *)
(* or the end of the session removes; and with an outcome in the registry,   *)
(* unless it ended before its try.                                         *)
EveryQaJobEnds ==
  \A r \in Requests :
    pc[r] = "load" ~> \/ pc[r] \in {"unread", "stranded"}
                      \/ pc[r] = "done" /\ status[r] \notin Active
=============================================================================
