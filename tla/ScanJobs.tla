------------------------------ MODULE ScanJobs ------------------------------
(***************************************************************************)
(* The Regulation 38 model-scan queue: the table ifc_processing_jobs with  *)
(* the functions the migrations install on it, the worker processes of     *)
(* backend/reg38_ifc_worker.py that lease jobs from it, and the requests   *)
(* of the web application that create, retry, re-run and remove scans.     *)
(*                                                                         *)
(* The database runs every request as one transaction, so a request is     *)
(* one step here.  A worker is a client across a network: any request may  *)
(* time out or answer 5xx, and the transaction behind it may then commit   *)
(* later, or never.  Such a request moves to `late', from which it arrives *)
(* or is dropped.                                                          *)
(*                                                                         *)
(* Job and file identifiers are numbers in the order of created_at (uuids  *)
(* carry no information), lease tokens are numbers in the order of         *)
(* started_at.  One project is modelled.                                   *)
(***************************************************************************)
EXTENDS Naturals

CONSTANTS
  Workers,    \* worker identities (hostname:pid); one may start late, or stay down
  NoWorker,   \* worker_id null
  MaxFiles,   \* bound: IFC files uploaded
  MaxJobs,    \* bound: rows ever inserted in ifc_processing_jobs
  MaxFaults,  \* bound: crashes, and requests that fail or lose their answer
  MaxSlow     \* bound: leases of live workers that outlive the stale interval

ASSUME NoWorkerAssumption == NoWorker \notin Workers

ASSUME BoundsAssumption ==
  /\ MaxFiles \in Nat
  /\ MaxJobs \in Nat
  /\ MaxFaults \in Nat
  /\ MaxSlow \in Nat

VARIABLES
  (* the database *)
  jobCount,   \* rows inserted in ifc_processing_jobs so far
  jobStatus,  \* ifc_processing_jobs.status
  jobFile,    \* ifc_processing_jobs.ifc_file_id
  jobToken,   \* ifc_processing_jobs.claim_token; 0 is null
  jobWorker,  \* ifc_processing_jobs.worker_id; NoWorker is null
  overdue,    \* RUNNING jobs whose heartbeat_at is older than the stale interval
  lastToken,  \* the newest token of gen_random_uuid()
  fileStatus, \* ifc_files.status
  rows,       \* per file: which groups of extracted rows are stored
  (* the workers *)
  pc,         \* where the process is in run_worker_loop and process_job
  held,       \* the id of the job process_job was called with; 0 outside it
  heldToken,  \* the claim_token of that job record
  (* the network and the bounds *)
  late,       \* requests whose client stopped waiting and that may still commit
  faults,
  slow

dbVars == <<jobCount, jobStatus, jobFile, jobToken, jobWorker, overdue,
            lastToken, fileStatus, rows>>
workerVars == <<pc, held, heldToken>>
vars == <<dbVars, workerVars, late, faults, slow>>

Jobs == 1..MaxJobs
Files == 1..MaxFiles

JobStatus == {"ABSENT", "QUEUED", "RUNNING", "COMPLETED", "FAILED", "DELETED"}
Active == {"QUEUED", "RUNNING"}
Terminal == {"COMPLETED", "FAILED"}
FileStatus == {"ABSENT", "UPLOADED", "PROCESSED", "FAILED", "REMOVED"}
Stored == {"UPLOADED", "PROCESSED", "FAILED"}   \* the row of the file exists

(* insert_result writes the tables in foreign-key order.  They fall into two *)
(* groups: "model" tables, whose rows reference the file and go with it, and *)
(* "project" tables (fire_requirements, project_zones, project_spaces),      *)
(* whose rows belong to the project.                                         *)
Part == {"model", "project"}

PC == {"down", "recover", "claim", "start", "scan", "model", "project",
       "mark", "complete", "fail", "failFile"}

(* Inside process_job.                                                      *)
Working == {"start", "scan", "model", "project", "mark", "complete", "fail",
            "failFile"}

JobPatch == [op : {"job"}, job : Jobs, token : Nat,
             to : {"RUNNING", "COMPLETED", "FAILED"}]
FilePatch == [op : {"file"}, file : Files, to : {"PROCESSED", "FAILED"}]
RowPost == [op : {"rows"}, file : Files, part : Part]
ClaimCall == [op : {"claim"}, job : Jobs, worker : Workers]

PatchJob(j, t, s) == [op |-> "job", job |-> j, token |-> t, to |-> s]
PatchFile(f, s) == [op |-> "file", file |-> f, to |-> s]
PostRows(f, p) == [op |-> "rows", file |-> f, part |-> p]
CallClaim(j, w) == [op |-> "claim", job |-> j, worker |-> w]

Init ==
  /\ jobCount = 0
  /\ jobStatus = [j \in Jobs |-> "ABSENT"]
  /\ jobFile = [j \in Jobs |-> 0]
  /\ jobToken = [j \in Jobs |-> 0]
  /\ jobWorker = [j \in Jobs |-> NoWorker]
  /\ overdue = {}
  /\ lastToken = 0
  /\ fileStatus = [f \in Files |-> "ABSENT"]
  /\ rows = [f \in Files |-> {}]
  /\ pc = [w \in Workers |-> "down"]
  /\ held = [w \in Workers |-> 0]
  /\ heldToken = [w \in Workers |-> 0]
  /\ late = {}
  /\ faults = 0
  /\ slow = 0

-----------------------------------------------------------------------------
(***************************************************************************)
(* What the transactions do to the database.                               *)
(***************************************************************************)

JobsOf(f) == {j \in Jobs : jobFile[j] = f /\ jobStatus[j] \notin {"ABSENT", "DELETED"}}

(* Variant: the index predicate forgets queued jobs.                        *)
NoActiveJob_RunningOnly(f) == \A j \in JobsOf(f) : jobStatus[j] # "RUNNING"

(* The partial unique index ifc_one_active_job_idx refuses a second active  *)
(* row of one file.                                                         *)
NoActiveJob(f) == \A j \in JobsOf(f) : jobStatus[j] \notin Active

(* insert into ifc_processing_jobs ... 'QUEUED', and the file's status.     *)
Enqueue(f) ==
  /\ jobCount < MaxJobs
  /\ jobCount' = jobCount + 1
  /\ jobStatus' = [jobStatus EXCEPT ![jobCount + 1] = "QUEUED"]
  /\ jobFile' = [jobFile EXCEPT ![jobCount + 1] = f]
  /\ fileStatus' = [fileStatus EXCEPT ![f] = "UPLOADED"]
  /\ UNCHANGED <<jobToken, jobWorker, overdue, lastToken, rows>>

(* Variant: the filter omits status=eq.RUNNING.                             *)
LeaseHolds_AnyStatus(j, t) == jobToken[j] = t

(* The filter of update_job: id, status and claim_token.                    *)
LeaseHolds(j, t) == jobStatus[j] = "RUNNING" /\ jobToken[j] = t

(* Variant: the patch is filtered by the id alone.                          *)
ApplyJobPatch_ById(j, t, s) ==
  /\ jobStatus[j] # "DELETED"
  /\ jobStatus' = [jobStatus EXCEPT ![j] = s]
  /\ overdue' = overdue \ {j}
  /\ UNCHANGED <<jobCount, jobFile, jobToken, jobWorker, lastToken, fileStatus, rows>>

(* update_job: every patch also renews heartbeat_at.                        *)
ApplyJobPatch(j, t, s) ==
  /\ LeaseHolds(j, t)
  /\ jobStatus' = [jobStatus EXCEPT ![j] = s]
  /\ overdue' = overdue \ {j}
  /\ UNCHANGED <<jobCount, jobFile, jobToken, jobWorker, lastToken, fileStatus, rows>>

(* update_file: filtered by the id alone; no row is no error.               *)
ApplyFilePatch(f, s) ==
  /\ fileStatus' = IF fileStatus[f] \in Stored
                     THEN [fileStatus EXCEPT ![f] = s] ELSE fileStatus
  /\ UNCHANGED <<jobCount, jobStatus, jobFile, jobToken, jobWorker, overdue,
                 lastToken, rows>>

(* One group of upserts; the foreign key refuses it once the file is gone.  *)
ApplyRowPost(f, p) ==
  /\ fileStatus[f] \in Stored
  /\ rows' = [rows EXCEPT ![f] = @ \cup {p}]
  /\ UNCHANGED <<jobCount, jobStatus, jobFile, jobToken, jobWorker, overdue,
                 lastToken, fileStatus>>

(* The update of claim_reg38_ifc_job.                                       *)
ApplyClaim(j, w) ==
  /\ lastToken' = lastToken + 1
  /\ jobStatus' = [jobStatus EXCEPT ![j] = "RUNNING"]
  /\ jobToken' = [jobToken EXCEPT ![j] = lastToken + 1]
  /\ jobWorker' = [jobWorker EXCEPT ![j] = w]
  /\ UNCHANGED <<jobCount, jobFile, overdue, fileStatus, rows>>

(* Variant: recovery marks the job STALE, which the table's check allows.   *)
ApplyRecover_MarksStale ==
  /\ jobStatus' = [j \in Jobs |-> IF j \in overdue THEN "STALE" ELSE jobStatus[j]]
  /\ overdue' = {}
  /\ UNCHANGED <<jobCount, jobFile, jobToken, jobWorker, lastToken, fileStatus, rows>>

(* Variant: recovery revokes the lease and forgets the status.              *)
ApplyRecover_KeepsStatus ==
  /\ jobToken' = [j \in Jobs |-> IF j \in overdue THEN 0 ELSE jobToken[j]]
  /\ jobWorker' = [j \in Jobs |-> IF j \in overdue THEN NoWorker ELSE jobWorker[j]]
  /\ overdue' = {}
  /\ UNCHANGED <<jobCount, jobStatus, jobFile, lastToken, fileStatus, rows>>

(* recover_stale_reg38_ifc_jobs.                                            *)
ApplyRecover ==
  /\ jobStatus' = [j \in Jobs |-> IF j \in overdue THEN "QUEUED" ELSE jobStatus[j]]
  /\ jobToken' = [j \in Jobs |-> IF j \in overdue THEN 0 ELSE jobToken[j]]
  /\ jobWorker' = [j \in Jobs |-> IF j \in overdue THEN NoWorker ELSE jobWorker[j]]
  /\ overdue' = {}
  /\ UNCHANGED <<jobCount, jobFile, lastToken, fileStatus, rows>>

-----------------------------------------------------------------------------
(***************************************************************************)
(* The web application.                                                    *)
(***************************************************************************)

(* finalize_ifc_upload: the first call inserts the file; a repeated call    *)
(* (the browser's "Retry finalisation") resets its status and keeps an      *)
(* active job if there is one.                                              *)
Finalize(f) ==
  /\ fileStatus[f] # "REMOVED"
  /\ \A g \in 1..(f - 1) : fileStatus[g] # "ABSENT"
  /\ \/ /\ NoActiveJob(f)
        /\ Enqueue(f)
     \/ /\ ~NoActiveJob(f)
        /\ fileStatus' = [fileStatus EXCEPT ![f] = "UPLOADED"]
        /\ UNCHANGED <<jobCount, jobStatus, jobFile, jobToken, jobWorker,
                       overdue, lastToken, rows>>
  /\ UNCHANGED <<workerVars, late, faults, slow>>

(* retry_reg38_ifc_job: some job of the file failed, and none is active.    *)
Retry(f) ==
  /\ \E j \in JobsOf(f) : jobStatus[j] = "FAILED"
  /\ NoActiveJob(f)
  /\ Enqueue(f)
  /\ UNCHANGED <<workerVars, late, faults, slow>>

(* The newest job of a file by created_at.                                  *)
IsLatest(j, f) == j \in JobsOf(f) /\ \A i \in JobsOf(f) : i <= j

(* rerun_reg38_ifc_job.  rerun_model_scan also asks, before the call, that  *)
(* the file be the newest of the project; nothing holds that answer until   *)
(* the call commits, so here the call may reach any file.                   *)
Rerun(f) ==
  /\ \E j \in Jobs : IsLatest(j, f) /\ jobStatus[j] = "COMPLETED"
  /\ NoActiveJob(f)
  /\ Enqueue(f)
  /\ UNCHANGED <<workerVars, late, faults, slow>>

(* Jobs whose row a claim that has not committed yet has locked.            *)
Locked == {j \in Jobs : \E w \in Workers : CallClaim(j, w) \in late}

(* remove_reg38_ifc_model: the extracted rows of the whole project's spaces, *)
(* zones and fire requirements, the file, and by cascade its own rows and    *)
(* its jobs.  Waits for a row lock.                                          *)
Remove(f) ==
  /\ fileStatus[f] \in Stored
  /\ JobsOf(f) \cap Locked = {}
  /\ rows' = [g \in Files |-> IF g = f THEN {} ELSE rows[g] \ {"project"}]
  /\ fileStatus' = [fileStatus EXCEPT ![f] = "REMOVED"]
  /\ jobStatus' = [j \in Jobs |-> IF j \in JobsOf(f) THEN "DELETED" ELSE jobStatus[j]]
  /\ overdue' = overdue \ JobsOf(f)
  /\ UNCHANGED <<jobCount, jobFile, jobToken, jobWorker, lastToken>>
  /\ UNCHANGED <<workerVars, late, faults, slow>>

User == \E f \in Files : Finalize(f) \/ Retry(f) \/ Rerun(f) \/ Remove(f)

-----------------------------------------------------------------------------
(***************************************************************************)
(* The worker process.                                                     *)
(***************************************************************************)

Goto(w, l) ==
  /\ pc' = [pc EXCEPT ![w] = l]
  /\ UNCHANGED <<held, heldToken>>

(* process_job returns or raises; the loop swallows the exception.          *)
BackToLoop(w) ==
  /\ pc' = [pc EXCEPT ![w] = "recover"]
  /\ held' = [held EXCEPT ![w] = 0]
  /\ heldToken' = [heldToken EXCEPT ![w] = 0]

NoFault == UNCHANGED <<late, faults, slow>>

(* The request m timed out or was answered 5xx: it may still commit.        *)
Lose(m) ==
  /\ faults < MaxFaults
  /\ faults' = faults + 1
  /\ late' = late \cup {m}
  /\ UNCHANGED <<dbVars, slow>>

(* The process starts, or its container restarts under the same identity.   *)
Start(w) ==
  /\ pc[w] = "down"
  /\ Goto(w, "recover")
  /\ UNCHANGED dbVars /\ NoFault

(* recover_stale, answered, or failed and skipped.                          *)
Recover(w) ==
  /\ pc[w] = "recover"
  /\ Goto(w, "claim")
  /\ \/ /\ ApplyRecover
        /\ NoFault
     \/ /\ faults < MaxFaults
        /\ faults' = faults + 1
        /\ UNCHANGED <<dbVars, late, slow>>

(* Variant: the query for a live lease omits worker_id=p_worker_id.         *)
LeasesOf_AnyWorker(w) == {j \in Jobs : jobStatus[j] = "RUNNING" /\ jobToken[j] # 0}

(* The leases the database has on record for this identity.                 *)
LeasesOf(w) == {j \in Jobs : jobStatus[j] = "RUNNING" /\ jobWorker[j] = w /\ jobToken[j] # 0}

(* claim: the lease this worker already has, whose answer it never saw.     *)
ClaimExisting(w) ==
  /\ pc[w] = "claim"
  /\ \E j \in LeasesOf(w) :
       /\ \A i \in LeasesOf(w) : jobToken[j] <= jobToken[i]
       /\ pc' = [pc EXCEPT ![w] = "start"]
       /\ held' = [held EXCEPT ![w] = j]
       /\ heldToken' = [heldToken EXCEPT ![w] = jobToken[j]]
  /\ UNCHANGED dbVars /\ NoFault

(* The oldest queued job nobody has locked: for update skip locked limit 1. *)
Candidate(j) ==
  /\ jobStatus[j] = "QUEUED" /\ j \notin Locked
  /\ \A i \in 1..(j - 1) : jobStatus[i] = "QUEUED" => i \in Locked

ClaimQueued(w) ==
  /\ pc[w] = "claim"
  /\ LeasesOf(w) = {}
  /\ \E j \in Jobs :
       /\ Candidate(j)
       /\ \/ /\ ApplyClaim(j, w)
             /\ pc' = [pc EXCEPT ![w] = "start"]
             /\ held' = [held EXCEPT ![w] = j]
             /\ heldToken' = [heldToken EXCEPT ![w] = lastToken + 1]
             /\ NoFault
          \/ /\ Lose(CallClaim(j, w))
             /\ Goto(w, "recover")

(* Nothing to claim, or the request never reached the database: back off.   *)
ClaimNothing(w) ==
  /\ pc[w] = "claim"
  /\ Goto(w, "recover")
  /\ \/ /\ LeasesOf(w) = {} /\ \A j \in Jobs : ~Candidate(j)
        /\ NoFault
     \/ /\ faults < MaxFaults
        /\ faults' = faults + 1
        /\ UNCHANGED <<late, slow>>
  /\ UNCHANGED dbVars

(* update_job(job, s): on to `next' if the lease still holds; LostLeaseError *)
(* if not; on a transport error on to `failed'.                              *)
UpdateJob(w, s, next, failed) ==
  \/ /\ ApplyJobPatch(held[w], heldToken[w], s)
     /\ IF next = "recover" THEN BackToLoop(w) ELSE Goto(w, next)
     /\ NoFault
  \/ /\ ~LeaseHolds(held[w], heldToken[w])
     /\ BackToLoop(w)
     /\ UNCHANGED dbVars /\ NoFault
  \/ /\ Lose(PatchJob(held[w], heldToken[w], s))
     /\ IF failed = "recover" THEN BackToLoop(w) ELSE Goto(w, failed)

(* DOWNLOADING_IFC.                                                         *)
BeginDownload(w) ==
  /\ pc[w] = "start"
  /\ UpdateJob(w, "RUNNING", "scan", "fail")

(* The processor's progress callback: a stage ended, and renews the lease.  *)
Progress(w) ==
  /\ pc[w] = "scan"
  /\ UpdateJob(w, "RUNNING", "scan", "fail")

(* The download or the processor raises.                                    *)
ScanFails(w) ==
  /\ pc[w] = "scan"
  /\ Goto(w, "fail")
  /\ UNCHANGED dbVars /\ NoFault

(* WRITING_DATABASE: the scan has its result.                               *)
BeginWriting(w) ==
  /\ pc[w] = "scan"
  /\ UpdateJob(w, "RUNNING", "model", "fail")

(* Variant: the answers of insert_result are not checked.                   *)
InsertRows_Unchecked(w, p, next) ==
  /\ pc[w] = p
  /\ Goto(w, next)
  /\ LET f == jobFile[held[w]] IN
       \/ ApplyRowPost(f, p) /\ NoFault
       \/ fileStatus[f] \notin Stored /\ UNCHANGED dbVars /\ NoFault
       \/ Lose(PostRows(f, p))

(* insert_result: not filtered by the lease.                                *)
InsertRows(w, p, next) ==
  /\ pc[w] = p
  /\ LET f == jobFile[held[w]] IN
       \/ /\ ApplyRowPost(f, p)
          /\ Goto(w, next)
          /\ NoFault
       \/ /\ fileStatus[f] \notin Stored
          /\ Goto(w, "fail")
          /\ UNCHANGED dbVars /\ NoFault
       \/ /\ Lose(PostRows(f, p))
          /\ Goto(w, "fail")

InsertModelRows(w) == InsertRows(w, "model", "project")
InsertProjectRows(w) == InsertRows(w, "project", "mark")

(* update_file(PROCESSED): not filtered by the lease either.                *)
MarkProcessed(w) ==
  /\ pc[w] = "mark"
  /\ \/ /\ ApplyFilePatch(jobFile[held[w]], "PROCESSED")
        /\ Goto(w, "complete")
        /\ NoFault
     \/ /\ Lose(PatchFile(jobFile[held[w]], "PROCESSED"))
        /\ Goto(w, "fail")

Complete(w) ==
  /\ pc[w] = "complete"
  /\ UpdateJob(w, "COMPLETED", "recover", "fail")

(* Variant: the file is marked even when the lease is lost.                 *)
FailJob_FileAnyway(w) ==
  /\ pc[w] = "fail"
  /\ Goto(w, "failFile")
  /\ \/ ApplyJobPatch(held[w], heldToken[w], "FAILED") /\ NoFault
     \/ ~LeaseHolds(held[w], heldToken[w]) /\ UNCHANGED dbVars /\ NoFault
     \/ Lose(PatchJob(held[w], heldToken[w], "FAILED"))

(* The except branch: the job first, then the file.                         *)
FailJob(w) ==
  /\ pc[w] = "fail"
  /\ UpdateJob(w, "FAILED", "failFile", "recover")

FailFile(w) ==
  /\ pc[w] = "failFile"
  /\ BackToLoop(w)
  /\ \/ /\ ApplyFilePatch(jobFile[held[w]], "FAILED")
        /\ NoFault
     \/ Lose(PatchFile(jobFile[held[w]], "FAILED"))

(* The process dies wherever it is.                                         *)
Crash(w) ==
  /\ pc[w] # "down"
  /\ faults < MaxFaults
  /\ faults' = faults + 1
  /\ pc' = [pc EXCEPT ![w] = "down"]
  /\ held' = [held EXCEPT ![w] = 0]
  /\ heldToken' = [heldToken EXCEPT ![w] = 0]
  /\ UNCHANGED <<dbVars, late, slow>>

(* What a live worker keeps doing by itself.                                *)
WorkerStep(w) ==
  \/ Start(w) \/ Recover(w)
  \/ ClaimExisting(w) \/ ClaimQueued(w) \/ ClaimNothing(w)
  \/ BeginDownload(w) \/ ScanFails(w) \/ BeginWriting(w)
  \/ InsertModelRows(w) \/ InsertProjectRows(w)
  \/ MarkProcessed(w) \/ Complete(w)
  \/ FailJob(w) \/ FailFile(w)

Worker == \E w \in Workers : WorkerStep(w) \/ Progress(w) \/ Crash(w)

-----------------------------------------------------------------------------
(***************************************************************************)
(* Time and the network.                                                   *)
(***************************************************************************)

Abandoned(j) == \A w \in Workers : ~(held[w] = j /\ heldToken[w] = jobToken[j])

(* The heartbeat of a running job grows older than the stale interval: its  *)
(* worker is gone, or a stage takes longer than the interval.               *)
GrowOverdue(j) ==
  /\ jobStatus[j] = "RUNNING" /\ j \notin overdue
  /\ overdue' = overdue \cup {j}
  /\ \/ Abandoned(j) /\ slow' = slow
     \/ ~Abandoned(j) /\ slow < MaxSlow /\ slow' = slow + 1
  /\ UNCHANGED <<jobCount, jobStatus, jobFile, jobToken, jobWorker, lastToken,
                 fileStatus, rows, workerVars, late, faults>>

(* A request whose client stopped waiting commits after all.                *)
Arrive(m) ==
  /\ late' = late \ {m}
  /\ \/ m.op = "job" /\ ApplyJobPatch(m.job, m.token, m.to)
     \/ m.op = "file" /\ ApplyFilePatch(m.file, m.to)
     \/ m.op = "rows" /\ ApplyRowPost(m.file, m.part)
     \/ m.op = "claim" /\ ApplyClaim(m.job, m.worker)
  /\ UNCHANGED <<workerVars, faults, slow>>

(* ... or it never reached the database, or rolled back.                    *)
Drop(m) ==
  /\ late' = late \ {m}
  /\ UNCHANGED <<dbVars, workerVars, faults, slow>>

Environment ==
  \/ \E j \in Jobs : GrowOverdue(j)
  \/ \E m \in late : Arrive(m) \/ Drop(m)

Next == User \/ Worker \/ Environment

(* Railway keeps the process running and restarts it after a failure.       *)
WorkersRun == \A w \in Workers : WF_vars(WorkerStep(w))

(* The heartbeat of an abandoned job grows old, and a late request commits   *)
(* or vanishes.                                                             *)
TimePasses ==
  /\ \A j \in Jobs : WF_vars(GrowOverdue(j) /\ Abandoned(j))
  /\ WF_vars(\E m \in late : Arrive(m) \/ Drop(m))

Spec == Init /\ [][Next]_vars
FairSpec == Spec /\ WorkersRun

-----------------------------------------------------------------------------
(***************************************************************************)
(* Properties.                                                             *)
(***************************************************************************)

(* The types of the variables.                                              *)
TypeOK ==
  /\ jobCount \in 0..MaxJobs
  /\ jobStatus \in [Jobs -> JobStatus]
  /\ jobFile \in [Jobs -> Files \cup {0}]
  /\ jobToken \in [Jobs -> Nat]
  /\ jobWorker \in [Jobs -> Workers \cup {NoWorker}]
  /\ overdue \subseteq Jobs
  /\ lastToken \in Nat
  /\ fileStatus \in [Files -> FileStatus]
  /\ rows \in [Files -> SUBSET Part]
  /\ pc \in [Workers -> PC]
  /\ held \in [Workers -> Jobs \cup {0}]
  /\ heldToken \in [Workers -> Nat]
  /\ late \subseteq JobPatch \cup FilePatch \cup RowPost \cup ClaimCall
  /\ faults \in Nat
  /\ slow \in Nat

(* A file never has two scans under way, through claims, recoveries,        *)
(* retries, re-runs and repeated finalisations (ifc_one_active_job_idx).    *)
OneActiveJobPerFile ==
  \A i, j \in Jobs :
    /\ jobStatus[i] \in Active /\ jobStatus[j] \in Active
    /\ jobFile[i] = jobFile[j]
    => i = j

(* The lease process_job holds is the one the database has on record.       *)
HasLease(w) == held[w] # 0 /\ LeaseHolds(held[w], heldToken[w])

(* Two workers never both hold the current lease of one job, although a job *)
(* is taken from a live worker by stale recovery, and a lease is handed out *)
(* again to the worker whose claim lost its answer (update_job's filter).   *)
LeaseIsExclusive ==
  \A v, w \in Workers : HasLease(v) /\ HasLease(w) /\ held[v] = held[w] => v = w

(* A scan is reported, as a COMPLETED job or a PROCESSED file, only once the *)
(* extracted rows of the file are stored: "COMPLETE is only persisted after  *)
(* all database writes succeed".  A worker that lost its lease, and a patch  *)
(* that arrives late, must respect it too.                                   *)
ResultsBeforeReport ==
  /\ \A j \in Jobs : jobStatus[j] = "COMPLETED" => "model" \in rows[jobFile[j]]
  /\ \A f \in Files : fileStatus[f] = "PROCESSED" => "model" \in rows[f]

(* A file is shown as FAILED only if one of its scans failed: a worker that *)
(* lost its lease does not report the failure (process_job's except branch). *)
FailedFileHasFailedJob ==
  \A f \in Files : fileStatus[f] = "FAILED" =>
    \E j \in JobsOf(f) : jobStatus[j] = "FAILED"

(* A finished job is history: no late patch, retry, re-run or recovery      *)
(* changes it, only the removal of its file takes it away.                  *)
FinishedJobsStay ==
  [][\A j \in Jobs : jobStatus[j] \in Terminal =>
        jobStatus'[j] \in {jobStatus[j], "DELETED"}]_vars

(* A lease whose answer was lost, or whose failure could not be reported,   *)
(* is taken up again by its worker, without waiting for stale recovery      *)
(* (the first query of claim_reg38_ifc_job); and every scan that is asked   *)
(* for ends or is removed, whatever crashes and lost answers there were, if *)
(* time passes.                                                             *)
ScansResumeAndEnd ==
  /\ TimePasses =>
       \A j \in Jobs : jobStatus[j] \in Active ~> jobStatus[j] \notin Active
  /\ \A j \in Jobs, w \in Workers :
       (jobStatus[j] = "RUNNING" /\ jobWorker[j] = w /\ pc[w] # "down")
         ~> \/ jobStatus[j] # "RUNNING" \/ jobWorker[j] # w
            \/ pc[w] = "down"
            \/ held[w] = j /\ HasLease(w)

(* The queue implements the promise of ScanQueue.                           *)
Promise == INSTANCE ScanQueue WITH
  Scan <- Jobs, File <- Files, NoFile <- 0,
  status <- jobStatus, of <- jobFile,
  stored <- {f \in Files : "model" \in rows[f]}

PromiseKept == Promise!Spec

(* Said of remove_ifc: it "removes every row derived from this model", so    *)
(* the rows of another model stay.                                           *)
RemoveTakesOnlyItsModel ==
  [][\A f, g \in Files : Remove(f) /\ f # g => rows'[g] = rows[g]]_vars
=============================================================================
