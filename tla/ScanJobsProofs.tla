--------------------------- MODULE ScanJobsProofs ---------------------------
(***************************************************************************)
(* Theorems about ScanJobs, for any number of workers, files, jobs and     *)
(* faults.  The safety invariants of the model are not inductive: IInv     *)
(* strengthens them with what in-flight requests and workers without a     *)
(* lease may still do.                                                     *)
(***************************************************************************)
EXTENDS ScanJobs, TLAPS

(* Rows exist up to jobCount, and a row's file exists until both go.        *)
RowsKnown ==
  /\ \A j \in Jobs : j > jobCount <=> jobStatus[j] = "ABSENT"
  /\ \A j \in Jobs : jobStatus[j] # "ABSENT" => jobFile[j] \in Files
  /\ \A j \in Jobs : jobStatus[j] \notin {"ABSENT", "DELETED"} =>
        fileStatus[jobFile[j]] \in Stored
  /\ \A j \in Jobs : jobStatus[j] = "DELETED" => fileStatus[jobFile[j]] = "REMOVED"

(* A worker is inside process_job exactly when it holds a job.              *)
WorkerHolds ==
  \A w \in Workers :
    /\ pc[w] \in Working <=> held[w] # 0
    /\ held[w] # 0 => jobStatus[held[w]] # "ABSENT"

(* Tokens are handed out once, to the worker on record.                     *)
LeaseOwner ==
  /\ overdue \subseteq {j \in Jobs : jobStatus[j] = "RUNNING"}
  /\ \A j \in Jobs : jobToken[j] <= lastToken
  /\ \A w \in Workers : heldToken[w] <= lastToken
  /\ \A w \in Workers : HasLease(w) => jobWorker[held[w]] = w

(* A claim in flight has locked a queued row, alone.                        *)
ClaimsLock ==
  \A j \in Jobs, w \in Workers : CallClaim(j, w) \in late =>
    /\ jobStatus[j] = "QUEUED"
    /\ \A v \in Workers : CallClaim(j, v) \in late => v = w

(* The model rows of f are stored, unless f is gone.                        *)
HasRows(f) == "model" \in rows[f] \/ fileStatus[f] = "REMOVED"

(* Whoever may still report a result has stored it, or the file is gone.    *)
Results ==
  /\ ResultsBeforeReport
  /\ \A w \in Workers : pc[w] \in {"project", "mark", "complete"} =>
        HasRows(jobFile[held[w]])
  /\ \A m \in late : m.op = "job" /\ m.to = "COMPLETED" =>
        jobStatus[m.job] # "ABSENT" /\ HasRows(jobFile[m.job])
  /\ \A m \in late : m.op = "file" /\ m.to = "PROCESSED" => HasRows(m.file)

(* Some scan of f failed, or f is gone.                                     *)
HasFailed(f) ==
  fileStatus[f] = "REMOVED" \/ \E j \in JobsOf(f) : jobStatus[j] = "FAILED"

(* Whoever may still mark a file FAILED has recorded a failed job of it.    *)
Failures ==
  /\ FailedFileHasFailedJob
  /\ \A w \in Workers : pc[w] = "failFile" => HasFailed(jobFile[held[w]])
  /\ \A m \in late : m.op = "file" /\ m.to = "FAILED" => HasFailed(m.file)

IInv ==
  /\ TypeOK
  /\ RowsKnown
  /\ OneActiveJobPerFile
  /\ WorkerHolds
  /\ LeaseOwner
  /\ ClaimsLock
  /\ Results
  /\ Failures

-----------------------------------------------------------------------------
(***************************************************************************)
(* Every step changes the database in one of these ways.  A report is      *)
(* authorised by what the reporter did before.                             *)
(***************************************************************************)
Asks(f) == fileStatus[f] # "REMOVED" /\ NoActiveJob(f) /\ Enqueue(f)

Touches(f) ==
  /\ fileStatus[f] \in Stored
  /\ fileStatus' = [fileStatus EXCEPT ![f] = "UPLOADED"]
  /\ UNCHANGED <<jobCount, jobStatus, jobFile, jobToken, jobWorker, overdue,
                 lastToken, rows>>

Removes(f) ==
  /\ fileStatus[f] \in Stored
  /\ JobsOf(f) \cap Locked = {}
  /\ rows' = [g \in Files |-> IF g = f THEN {} ELSE rows[g] \ {"project"}]
  /\ fileStatus' = [fileStatus EXCEPT ![f] = "REMOVED"]
  /\ jobStatus' = [j \in Jobs |-> IF j \in JobsOf(f) THEN "DELETED" ELSE jobStatus[j]]
  /\ overdue' = overdue \ JobsOf(f)
  /\ UNCHANGED <<jobCount, jobFile, jobToken, jobWorker, lastToken>>

PatchesJob(j, t, s) == ApplyJobPatch(j, t, s) /\ (s = "COMPLETED" => HasRows(jobFile[j]))

PatchesFile(f, s) ==
  /\ ApplyFilePatch(f, s)
  /\ s = "PROCESSED" => HasRows(f)
  /\ s = "FAILED" => HasFailed(f)

Claims(j, w) ==
  /\ jobStatus[j] = "QUEUED"
  /\ \A v \in Workers : CallClaim(j, v) \notin late'
  /\ ApplyClaim(j, w)

Ages(j) ==
  /\ jobStatus[j] = "RUNNING"
  /\ overdue' = overdue \cup {j}
  /\ UNCHANGED <<jobCount, jobStatus, jobFile, jobToken, jobWorker, lastToken,
                 fileStatus, rows>>

DBStep ==
  \/ UNCHANGED dbVars
  \/ \E f \in Files : Asks(f) \/ Touches(f) \/ Removes(f)
  \/ \E j \in Jobs, t \in Nat, s \in {"RUNNING", "COMPLETED", "FAILED"} : PatchesJob(j, t, s)
  \/ \E f \in Files, s \in {"PROCESSED", "FAILED"} : PatchesFile(f, s)
  \/ \E f \in Files, p \in Part : ApplyRowPost(f, p)
  \/ \E j \in Jobs, w \in Workers : Claims(j, w)
  \/ ApplyRecover
  \/ \E j \in Jobs : Ages(j)

(* update_job from inside process_job: the patch, or nothing.               *)
LEMMA UpdateJobStep ==
  ASSUME IInv, NEW w \in Workers, held[w] # 0,
         NEW s \in {"RUNNING", "COMPLETED", "FAILED"},
         s = "COMPLETED" => HasRows(jobFile[held[w]]),
         NEW next, NEW failed, UpdateJob(w, s, next, failed)
  PROVE  DBStep
<1>1. held[w] \in Jobs /\ heldToken[w] \in Nat
  BY DEF IInv, TypeOK
<1>2. CASE ApplyJobPatch(held[w], heldToken[w], s)
  BY <1>1, <1>2 DEF DBStep, PatchesJob
<1>3. CASE UNCHANGED dbVars
  BY <1>3 DEF DBStep
<1> QED
  BY <1>2, <1>3 DEF UpdateJob, Lose

LEMMA UserStep == ASSUME IInv, User PROVE DBStep
<1>1. PICK f \in Files : Finalize(f) \/ Retry(f) \/ Rerun(f) \/ Remove(f)
  BY DEF User
<1>2. ASSUME JobsOf(f) # {} PROVE fileStatus[f] \in Stored
  BY <1>2 DEF JobsOf, IInv, RowsKnown
<1>3. fileStatus[f] \in Stored => fileStatus[f] # "REMOVED"
  BY DEF Stored
<1>4. CASE Finalize(f)
  <2>1. CASE NoActiveJob(f) /\ Enqueue(f)
    BY <1>4, <2>1 DEF Finalize, DBStep, Asks
  <2>2. CASE ~NoActiveJob(f) /\ fileStatus' = [fileStatus EXCEPT ![f] = "UPLOADED"]
             /\ UNCHANGED <<jobCount, jobStatus, jobFile, jobToken, jobWorker,
                            overdue, lastToken, rows>>
    <3>1. JobsOf(f) # {}
      BY <2>2 DEF NoActiveJob
    <3> QED
      BY <1>2, <2>2, <3>1 DEF DBStep, Touches
  <2> QED
    BY <1>4, <2>1, <2>2 DEF Finalize
<1>5. CASE Retry(f)
  BY <1>2, <1>3, <1>5 DEF Retry, DBStep, Asks
<1>6. CASE Rerun(f)
  BY <1>2, <1>3, <1>6 DEF Rerun, IsLatest, DBStep, Asks
<1>7. CASE Remove(f)
  BY <1>7 DEF Remove, DBStep, Removes
<1> QED
  BY <1>1, <1>4, <1>5, <1>6, <1>7

LEMMA WorkerDBStep == ASSUME IInv, Worker PROVE DBStep
<1>1. PICK w \in Workers : WorkerStep(w) \/ Progress(w) \/ Crash(w)
  BY DEF Worker
<1>2. ASSUME UNCHANGED dbVars PROVE DBStep
  BY <1>2 DEF DBStep
<1>3. ASSUME pc[w] \in Working
      PROVE  /\ held[w] \in Jobs /\ held[w] # 0
             /\ jobFile[held[w]] \in Files
  BY <1>3 DEF IInv, TypeOK, WorkerHolds, RowsKnown
<1>4. CASE Start(w) \/ ClaimExisting(w) \/ ClaimNothing(w) \/ ScanFails(w) \/ Crash(w)
  BY <1>2, <1>4 DEF Start, ClaimExisting, ClaimNothing, ScanFails, Crash
<1>5. CASE Recover(w)
  BY <1>2, <1>5 DEF Recover, DBStep
<1>6. CASE ClaimQueued(w)
  <2>1. PICK j \in Jobs : Candidate(j) /\ ((ApplyClaim(j, w) /\ NoFault) \/ UNCHANGED dbVars)
    BY <1>6 DEF ClaimQueued, Lose
  <2> QED
    BY <1>2, <2>1 DEF Candidate, Locked, NoFault, DBStep, Claims
<1>7. CASE BeginDownload(w) \/ Progress(w) \/ BeginWriting(w)
  BY <1>3, <1>7, UpdateJobStep DEF BeginDownload, Progress, BeginWriting, Working
<1>8. CASE Complete(w)
  <2>1. HasRows(jobFile[held[w]])
    BY <1>8 DEF Complete, IInv, Results
  <2> QED
    BY <1>3, <1>8, <2>1, UpdateJobStep DEF Complete, Working
<1>9. CASE FailJob(w)
  BY <1>3, <1>9, UpdateJobStep DEF FailJob, Working
<1>10. CASE InsertModelRows(w) \/ InsertProjectRows(w)
  <2>1. PICK p \in Part, next \in PC : pc[w] = p /\ InsertRows(w, p, next)
    BY <1>10 DEF InsertModelRows, InsertProjectRows, Part, PC, InsertRows
  <2>2. CASE ApplyRowPost(jobFile[held[w]], p)
    BY <1>3, <2>1, <2>2 DEF Part, Working, DBStep
  <2>3. CASE UNCHANGED dbVars
    BY <1>2, <2>3
  <2> QED
    BY <2>1, <2>2, <2>3 DEF InsertRows, Lose
<1>11. CASE MarkProcessed(w)
  <2>1. CASE ApplyFilePatch(jobFile[held[w]], "PROCESSED")
    <3>1. HasRows(jobFile[held[w]])
      BY <1>11 DEF MarkProcessed, IInv, Results
    <3>2. PatchesFile(jobFile[held[w]], "PROCESSED")
      BY <2>1, <3>1 DEF PatchesFile
    <3> QED
      BY <1>3, <1>11, <3>2 DEF MarkProcessed, Working, DBStep
  <2>2. CASE UNCHANGED dbVars
    BY <1>2, <2>2
  <2> QED
    BY <1>11, <2>1, <2>2 DEF MarkProcessed, Lose
<1>12. CASE FailFile(w)
  <2>1. CASE ApplyFilePatch(jobFile[held[w]], "FAILED")
    <3>1. HasFailed(jobFile[held[w]])
      BY <1>12 DEF FailFile, IInv, Failures
    <3>2. PatchesFile(jobFile[held[w]], "FAILED")
      BY <2>1, <3>1 DEF PatchesFile
    <3> QED
      BY <1>3, <1>12, <3>2 DEF FailFile, Working, DBStep
  <2>2. CASE UNCHANGED dbVars
    BY <1>2, <2>2
  <2> QED
    BY <1>12, <2>1, <2>2 DEF FailFile, Lose
<1> QED
  BY <1>1, <1>4, <1>5, <1>6, <1>7, <1>8, <1>9, <1>10, <1>11, <1>12 DEF WorkerStep

LEMMA EnvironmentDBStep == ASSUME IInv, Environment PROVE DBStep
<1>1. ASSUME NEW j \in Jobs, GrowOverdue(j) PROVE DBStep
  BY <1>1 DEF GrowOverdue, DBStep, Ages
<1>2. ASSUME NEW m \in late, Arrive(m) PROVE DBStep
  <2>1. m \in JobPatch \cup FilePatch \cup RowPost \cup ClaimCall
    BY DEF IInv, TypeOK
  <2>2. CASE m.op = "job" /\ ApplyJobPatch(m.job, m.token, m.to)
    <3>1. m \in JobPatch
      BY <2>1, <2>2 DEF JobPatch, FilePatch, RowPost, ClaimCall
    <3>2. m.to = "COMPLETED" => HasRows(jobFile[m.job])
      BY <2>2 DEF IInv, Results
    <3>3. PatchesJob(m.job, m.token, m.to)
      BY <2>2, <3>2 DEF PatchesJob
    <3> QED
      BY <3>1, <3>3 DEF DBStep, JobPatch
  <2>3. CASE m.op = "file" /\ ApplyFilePatch(m.file, m.to)
    <3>1. m \in FilePatch
      BY <2>1, <2>3 DEF JobPatch, FilePatch, RowPost, ClaimCall
    <3>2. PatchesFile(m.file, m.to)
      BY <2>3 DEF IInv, Results, Failures, PatchesFile
    <3> QED
      BY <3>1, <3>2 DEF DBStep, FilePatch
  <2>4. CASE m.op = "rows" /\ ApplyRowPost(m.file, m.part)
    <3>1. m \in RowPost
      BY <2>1, <2>4 DEF JobPatch, FilePatch, RowPost, ClaimCall
    <3> QED
      BY <2>4, <3>1 DEF DBStep, RowPost
  <2>5. CASE m.op = "claim" /\ ApplyClaim(m.job, m.worker)
    <3>1. m \in ClaimCall /\ m = CallClaim(m.job, m.worker)
      BY <2>1, <2>5 DEF JobPatch, FilePatch, RowPost, ClaimCall, CallClaim
    <3>2. \A v \in Workers : CallClaim(m.job, v) \in late => v = m.worker
      BY <3>1 DEF IInv, ClaimsLock, ClaimCall
    <3>3. \A v \in Workers : CallClaim(m.job, v) \notin late'
      BY <1>2, <3>1, <3>2 DEF Arrive
    <3>4. Claims(m.job, m.worker)
      BY <2>5, <3>1, <3>3 DEF IInv, ClaimsLock, Claims, ClaimCall
    <3> QED
      BY <3>1, <3>4 DEF DBStep, ClaimCall
  <2> QED
    BY <1>2, <2>2, <2>3, <2>4, <2>5 DEF Arrive
<1>3. ASSUME NEW m \in late, Drop(m) PROVE DBStep
  BY <1>3 DEF Drop, DBStep
<1> QED
  BY <1>1, <1>2, <1>3 DEF Environment

(* Every step of the system is one of those.                                *)
LEMMA NextDBStep == ASSUME IInv, [Next]_vars PROVE DBStep
<1>1. CASE UNCHANGED vars
  BY <1>1 DEF vars, DBStep
<1> QED
  BY <1>1, UserStep, WorkerDBStep, EnvironmentDBStep DEF Next

-----------------------------------------------------------------------------
(***************************************************************************)
(* What no step takes away.                                                *)
(***************************************************************************)

(* A row that exists goes on existing and keeps its file.                   *)
LEMMA RowsStay ==
  ASSUME IInv, DBStep, NEW j \in Jobs, jobStatus[j] # "ABSENT"
  PROVE  jobStatus'[j] # "ABSENT" /\ jobFile'[j] = jobFile[j]
<1> USE DEF IInv, TypeOK, Jobs
<1>1. CASE UNCHANGED dbVars
  BY <1>1 DEF dbVars
<1>2. CASE \E f \in Files : Asks(f)
  BY <1>2 DEF Asks, Enqueue, RowsKnown, BoundsAssumption
<1>3. CASE \E f \in Files : Touches(f) \/ Removes(f)
  BY <1>3 DEF Touches, Removes
<1>4. CASE \E i \in Jobs, t \in Nat, s \in {"RUNNING", "COMPLETED", "FAILED"} : PatchesJob(i, t, s)
  BY <1>4 DEF PatchesJob, ApplyJobPatch
<1>5. CASE \E f \in Files, s \in {"PROCESSED", "FAILED"} : PatchesFile(f, s)
  BY <1>5 DEF PatchesFile, ApplyFilePatch
<1>6. CASE \E f \in Files, p \in Part : ApplyRowPost(f, p)
  BY <1>6 DEF ApplyRowPost
<1>7. CASE \E i \in Jobs, w \in Workers : Claims(i, w)
  BY <1>7 DEF Claims, ApplyClaim
<1>8. CASE ApplyRecover \/ \E i \in Jobs : Ages(i)
  BY <1>8 DEF ApplyRecover, Ages
<1> QED
  BY <1>1, <1>2, <1>3, <1>4, <1>5, <1>6, <1>7, <1>8 DEF DBStep

(* Once removed, a file stays removed.                                      *)
LEMMA RemovedStays ==
  ASSUME IInv, DBStep, NEW f \in Files, fileStatus[f] = "REMOVED"
  PROVE  fileStatus'[f] = "REMOVED"
<1> USE DEF IInv, TypeOK
<1>1. CASE \E g \in Files : Asks(g)
  BY <1>1 DEF Asks, Enqueue
<1>2. CASE \E g \in Files : Touches(g) \/ Removes(g)
  BY <1>2 DEF Touches, Removes, Stored
<1>3. CASE \E g \in Files, s \in {"PROCESSED", "FAILED"} : PatchesFile(g, s)
  BY <1>3 DEF PatchesFile, ApplyFilePatch, Stored
<1>4. CASE UNCHANGED fileStatus
  BY <1>4
<1> QED
  BY <1>1, <1>2, <1>3, <1>4
  DEF DBStep, dbVars, PatchesJob, ApplyJobPatch, ApplyRowPost, Claims,
      ApplyClaim, ApplyRecover, Ages

(* The model rows of a file only go with it.                                *)
LEMMA HasRowsStays ==
  ASSUME IInv, DBStep, NEW f \in Files, HasRows(f)
  PROVE  HasRows(f)'
<1>1. CASE fileStatus[f] = "REMOVED"
  BY <1>1, RemovedStays DEF HasRows
<1>2. CASE "model" \in rows[f]
  <2> USE DEF IInv, TypeOK
  <2>1. CASE \E g \in Files : Removes(g)
    BY <1>2, <2>1 DEF Removes, HasRows
  <2>2. CASE \E g \in Files, p \in Part : ApplyRowPost(g, p)
    BY <1>2, <2>2 DEF ApplyRowPost, HasRows
  <2>3. CASE UNCHANGED rows
    BY <1>2, <2>3 DEF HasRows
  <2> QED
    BY <2>1, <2>2, <2>3
    DEF DBStep, dbVars, Asks, Enqueue, Touches, PatchesJob, ApplyJobPatch,
        PatchesFile, ApplyFilePatch, Claims, ApplyClaim, ApplyRecover, Ages
<1> QED
  BY <1>1, <1>2 DEF HasRows

(* A finished job keeps its status, or goes with its file.                  *)
LEMMA FinishedStays ==
  ASSUME IInv, DBStep, NEW j \in Jobs, jobStatus[j] \in Terminal
  PROVE  /\ jobStatus'[j] \in {jobStatus[j], "DELETED"}
         /\ jobStatus'[j] = "DELETED" => fileStatus'[jobFile[j]] = "REMOVED"
<1> USE DEF IInv, TypeOK, Terminal
<1>1. CASE \E f \in Files : Asks(f)
  BY <1>1 DEF Asks, Enqueue, RowsKnown, Jobs, BoundsAssumption
<1>2. CASE \E f \in Files : Removes(f)
  BY <1>2 DEF Removes, JobsOf
<1>3. CASE \E i \in Jobs, t \in Nat, s \in {"RUNNING", "COMPLETED", "FAILED"} : PatchesJob(i, t, s)
  BY <1>3 DEF PatchesJob, ApplyJobPatch, LeaseHolds
<1>4. CASE \E i \in Jobs, w \in Workers : Claims(i, w)
  BY <1>4 DEF Claims, ApplyClaim
<1>5. CASE ApplyRecover
  BY <1>5 DEF ApplyRecover, LeaseOwner
<1>6. CASE UNCHANGED jobStatus
  BY <1>6
<1> QED
  BY <1>1, <1>2, <1>3, <1>4, <1>5, <1>6
  DEF DBStep, dbVars, Touches, PatchesFile, ApplyFilePatch, ApplyRowPost, Ages

LEMMA HasFailedStays ==
  ASSUME IInv, DBStep, NEW f \in Files, HasFailed(f)
  PROVE  HasFailed(f)'
<1>1. CASE fileStatus[f] = "REMOVED"
  BY <1>1, RemovedStays DEF HasFailed
<1>2. ASSUME NEW j \in JobsOf(f), jobStatus[j] = "FAILED" PROVE HasFailed(f)'
  <2>1. j \in Jobs /\ jobFile[j] = f /\ jobFile'[j] = f
    BY <1>2, RowsStay DEF JobsOf
  <2>2. jobStatus'[j] = "FAILED" \/ fileStatus'[f] = "REMOVED"
    BY <1>2, <2>1, FinishedStays DEF Terminal
  <2> QED
    BY <2>1, <2>2 DEF HasFailed, JobsOf
<1> QED
  BY <1>1, <1>2 DEF HasFailed

-----------------------------------------------------------------------------
(***************************************************************************)
(* The invariant, one conjunct at a time.                                  *)
(***************************************************************************)

DBTypes ==
  /\ jobCount \in 0..MaxJobs
  /\ jobStatus \in [Jobs -> JobStatus]
  /\ jobFile \in [Jobs -> Files \cup {0}]
  /\ jobToken \in [Jobs -> Nat]
  /\ jobWorker \in [Jobs -> Workers \cup {NoWorker}]
  /\ overdue \subseteq Jobs
  /\ lastToken \in Nat
  /\ fileStatus \in [Files -> FileStatus]
  /\ rows \in [Files -> SUBSET Part]

LEMMA DBTypesKept == ASSUME IInv, DBStep PROVE DBTypes'
<1> USE DEF IInv, TypeOK, DBTypes, JobStatus, FileStatus
<1>1. CASE UNCHANGED dbVars
  BY <1>1 DEF dbVars
<1>2. CASE \E f \in Files : Asks(f)
  BY <1>2, BoundsAssumption DEF Asks, Enqueue, Jobs
<1>3. CASE \E f \in Files : Touches(f) \/ Removes(f)
  BY <1>3 DEF Touches, Removes
<1>4. CASE \E j \in Jobs, t \in Nat, s \in {"RUNNING", "COMPLETED", "FAILED"} : PatchesJob(j, t, s)
  BY <1>4 DEF PatchesJob, ApplyJobPatch
<1>5. CASE \E f \in Files, s \in {"PROCESSED", "FAILED"} : PatchesFile(f, s)
  BY <1>5 DEF PatchesFile, ApplyFilePatch
<1>6. CASE \E f \in Files, p \in Part : ApplyRowPost(f, p)
  BY <1>6 DEF ApplyRowPost
<1>7. CASE \E j \in Jobs, w \in Workers : Claims(j, w)
  BY <1>7 DEF Claims, ApplyClaim
<1>8. CASE ApplyRecover \/ \E j \in Jobs : Ages(j)
  BY <1>8 DEF ApplyRecover, Ages
<1> QED
  BY <1>1, <1>2, <1>3, <1>4, <1>5, <1>6, <1>7, <1>8 DEF DBStep

LEMMA RowsKnownKept == ASSUME IInv, DBStep PROVE RowsKnown'
<1> USE DEF IInv, TypeOK, RowsKnown, Stored
<1>1. CASE UNCHANGED dbVars
  BY <1>1 DEF dbVars
<1>2. CASE \E f \in Files : Asks(f)
  BY <1>2, BoundsAssumption DEF Asks, Enqueue, Jobs
<1>3. CASE \E f \in Files : Touches(f)
  BY <1>3 DEF Touches
<1>4. CASE \E f \in Files : Removes(f)
  BY <1>4 DEF Removes, JobsOf
<1>5. CASE \E j \in Jobs, t \in Nat, s \in {"RUNNING", "COMPLETED", "FAILED"} : PatchesJob(j, t, s)
  BY <1>5 DEF PatchesJob, ApplyJobPatch, LeaseHolds
<1>6. CASE \E f \in Files, s \in {"PROCESSED", "FAILED"} : PatchesFile(f, s)
  BY <1>6 DEF PatchesFile, ApplyFilePatch
<1>7. CASE \E f \in Files, p \in Part : ApplyRowPost(f, p)
  BY <1>7 DEF ApplyRowPost
<1>8. CASE \E j \in Jobs, w \in Workers : Claims(j, w)
  BY <1>8 DEF Claims, ApplyClaim
<1>9. CASE ApplyRecover
  BY <1>9 DEF ApplyRecover, LeaseOwner
<1>10. CASE \E j \in Jobs : Ages(j)
  BY <1>10 DEF Ages
<1> QED
  BY <1>1, <1>2, <1>3, <1>4, <1>5, <1>6, <1>7, <1>8, <1>9, <1>10 DEF DBStep

LEMMA OneActiveKept == ASSUME IInv, DBStep PROVE OneActiveJobPerFile'
<1> USE DEF IInv, TypeOK, OneActiveJobPerFile, Active
<1>1. CASE UNCHANGED dbVars
  BY <1>1 DEF dbVars
<1>2. CASE \E f \in Files : Asks(f)
  BY <1>2, BoundsAssumption DEF Asks, Enqueue, NoActiveJob, JobsOf, RowsKnown, Jobs
<1>3. CASE \E f \in Files : Touches(f) \/ Removes(f)
  BY <1>3 DEF Touches, Removes
<1>4. CASE \E j \in Jobs, t \in Nat, s \in {"RUNNING", "COMPLETED", "FAILED"} : PatchesJob(j, t, s)
  BY <1>4 DEF PatchesJob, ApplyJobPatch, LeaseHolds
<1>5. CASE \E j \in Jobs, w \in Workers : Claims(j, w)
  BY <1>5 DEF Claims, ApplyClaim
<1>6. CASE ApplyRecover
  BY <1>6 DEF ApplyRecover, LeaseOwner
<1>7. CASE UNCHANGED <<jobStatus, jobFile>>
  BY <1>7
<1> QED
  BY <1>1, <1>2, <1>3, <1>4, <1>5, <1>6, <1>7
  DEF DBStep, PatchesFile, ApplyFilePatch, ApplyRowPost, Ages

LEMMA ResultsReportKept == ASSUME IInv, DBStep PROVE ResultsBeforeReport'
<1> USE DEF IInv, TypeOK
<1>1. ASSUME NEW j \in Jobs, jobStatus'[j] = "COMPLETED"
      PROVE  "model" \in rows'[jobFile'[j]]
  <2>1. jobStatus[j] # "ABSENT" /\ HasRows(jobFile[j])
    <3>1. CASE jobStatus[j] = "COMPLETED"
      BY <3>1 DEF Results, ResultsBeforeReport, HasRows
    <3>2. CASE jobStatus[j] # "COMPLETED"
      BY <1>1, <3>2
      DEF DBStep, dbVars, Asks, Enqueue, Touches, Removes, PatchesJob,
          ApplyJobPatch, LeaseHolds, PatchesFile, ApplyFilePatch, ApplyRowPost,
          Claims, ApplyClaim, ApplyRecover, Ages
    <3> QED
      BY <3>1, <3>2
  <2>2. jobFile'[j] = jobFile[j] /\ jobFile[j] \in Files
    BY <2>1, RowsStay DEF RowsKnown
  <2>3. HasRows(jobFile[j])'
    BY <2>1, <2>2, HasRowsStays DEF HasRows
  <2>4. fileStatus'[jobFile'[j]] \in Stored
    BY <1>1, RowsKnownKept DEF RowsKnown
  <2> QED
    BY <2>2, <2>3, <2>4 DEF HasRows, Stored
<1>2. ASSUME NEW f \in Files, fileStatus'[f] = "PROCESSED"
      PROVE  "model" \in rows'[f]
  <2>1. HasRows(f)
    <3>1. CASE fileStatus[f] = "PROCESSED"
      BY <3>1 DEF Results, ResultsBeforeReport, HasRows
    <3>2. CASE fileStatus[f] # "PROCESSED"
      BY <1>2, <3>2
      DEF DBStep, dbVars, Asks, Enqueue, Touches, Removes, PatchesJob,
          ApplyJobPatch, PatchesFile, ApplyFilePatch, ApplyRowPost,
          Claims, ApplyClaim, ApplyRecover, Ages
    <3> QED
      BY <3>1, <3>2
  <2> QED
    BY <1>2, <2>1, HasRowsStays DEF HasRows
<1> QED
  BY <1>1, <1>2 DEF ResultsBeforeReport

LEMMA FailedFileKept == ASSUME IInv, DBStep PROVE FailedFileHasFailedJob'
<1> USE DEF IInv, TypeOK
<1> SUFFICES ASSUME NEW f \in Files, fileStatus'[f] = "FAILED"
             PROVE  (\E j \in JobsOf(f) : jobStatus[j] = "FAILED")'
  BY DEF FailedFileHasFailedJob
<1>1. HasFailed(f)
  <2>1. CASE fileStatus[f] = "FAILED"
    BY <2>1 DEF Failures, FailedFileHasFailedJob, HasFailed
  <2>2. CASE fileStatus[f] # "FAILED"
    BY <2>2
    DEF DBStep, dbVars, Asks, Enqueue, Touches, Removes, PatchesJob,
        ApplyJobPatch, PatchesFile, ApplyFilePatch, ApplyRowPost,
        Claims, ApplyClaim, ApplyRecover, Ages
  <2> QED
    BY <2>1, <2>2
<1> QED
  BY <1>1, HasFailedStays DEF HasFailed

-----------------------------------------------------------------------------
(***************************************************************************)
(* What a step does to one worker, and to the requests in flight.          *)
(***************************************************************************)

(* HasRows and HasFailed after the step, of the file named before it.       *)
StillHasRows(f) == "model" \in rows'[f] \/ fileStatus'[f] = "REMOVED"

StillHasFailed(f) ==
  \/ fileStatus'[f] = "REMOVED"
  \/ \E j \in Jobs : jobFile'[j] = f /\ jobStatus'[j] = "FAILED"

Waits(w) ==
  /\ pc'[w] \in {"down", "recover", "claim"}
  /\ held'[w] = 0
  /\ heldToken'[w] \in {0, heldToken[w]}

Takes(w) ==
  /\ pc'[w] = "start"
  /\ held'[w] \in Jobs
  /\ heldToken'[w] = jobToken'[held'[w]]
  /\ jobStatus'[held'[w]] = "RUNNING"
  /\ jobWorker'[held'[w]] = w

Keeps(w) == held'[w] = held[w] /\ heldToken'[w] = heldToken[w]

Advances(w) ==
  /\ pc[w] \in Working /\ pc'[w] \in Working
  /\ Keeps(w)
  /\ pc'[w] \in {"project", "mark", "complete"} => StillHasRows(jobFile[held[w]])
  /\ pc'[w] = "failFile" => StillHasFailed(jobFile[held[w]])

Stays(w) == pc'[w] = pc[w] /\ Keeps(w)

LocalStep ==
  /\ pc' \in [Workers -> PC]
  /\ held' \in [Workers -> Jobs \cup {0}]
  /\ heldToken' \in [Workers -> Nat]
  /\ \A w \in Workers : Stays(w) \/ Waits(w) \/ Takes(w) \/ Advances(w)

Request == JobPatch \cup FilePatch \cup RowPost \cup ClaimCall

(* A request its sender may make.                                           *)
Authorised(m) ==
  /\ m.op = "job" => jobStatus[m.job] # "ABSENT"
  /\ m.op = "job" /\ m.to = "COMPLETED" => HasRows(jobFile[m.job])
  /\ m.op = "file" /\ m.to = "PROCESSED" => HasRows(m.file)
  /\ m.op = "file" /\ m.to = "FAILED" => HasFailed(m.file)
  /\ m.op = "claim" => jobStatus[m.job] = "QUEUED" /\ m.job \notin Locked

LateStep ==
  \/ late' \subseteq late
  \/ UNCHANGED dbVars /\ \E m \in Request : Authorised(m) /\ late' = late \cup {m}

LEMMA LocalUnchanged ==
  ASSUME IInv, UNCHANGED workerVars PROVE LocalStep
BY DEF IInv, TypeOK, workerVars, LocalStep, Stays, Keeps

(* One worker moves to l and keeps what it holds.                           *)
LEMMA GotoLocal ==
  ASSUME IInv, NEW w \in Workers, NEW l \in PC, Goto(w, l),
         \/ pc[w] \notin Working /\ l \in {"recover", "claim"}
         \/ /\ pc[w] \in Working /\ l \in Working
            /\ l \in {"project", "mark", "complete"} => StillHasRows(jobFile[held[w]])
            /\ l = "failFile" => StillHasFailed(jobFile[held[w]])
  PROVE  LocalStep
<1> USE DEF IInv, TypeOK, Goto
<1>1. pc' \in [Workers -> PC] /\ pc'[w] = l
  OBVIOUS
<1>2. ASSUME NEW v \in Workers, v # w PROVE Stays(v)
  BY <1>2 DEF Stays, Keeps
<1>3. Waits(w) \/ Advances(w)
  BY <1>1 DEF Waits, Advances, Keeps, WorkerHolds
<1> QED
  BY <1>1, <1>2, <1>3 DEF LocalStep

(* One worker leaves process_job, or dies.                                  *)
LEMMA LeaveLocal ==
  ASSUME IInv, NEW w \in Workers, NEW l \in {"recover", "down"},
         pc' = [pc EXCEPT ![w] = l],
         held' = [held EXCEPT ![w] = 0],
         heldToken' = [heldToken EXCEPT ![w] = 0]
  PROVE  LocalStep
BY DEF IInv, TypeOK, PC, LocalStep, Stays, Keeps, Waits

(* update_job, when the next place needs no more than the lease.            *)
LEMMA UpdateJobLocal ==
  ASSUME IInv, NEW w \in Workers, pc[w] \in Working,
         NEW s, NEW next \in {"scan", "model", "recover", "failFile"},
         NEW failed \in {"fail", "recover"},
         next = "failFile" /\ ApplyJobPatch(held[w], heldToken[w], s)
           => StillHasFailed(jobFile[held[w]]),
         UpdateJob(w, s, next, failed)
  PROVE  LocalStep
<1>1. CASE BackToLoop(w)
  BY <1>1, LeaveLocal DEF BackToLoop
<1>2. CASE Goto(w, next) /\ next # "recover" /\ ApplyJobPatch(held[w], heldToken[w], s)
  <2>1. next \in Working /\ next \in PC /\ next \notin {"project", "mark", "complete"}
    BY <1>2 DEF Working, PC
  <2> QED
    BY <1>2, <2>1, GotoLocal
<1>3. CASE Goto(w, failed) /\ failed # "recover"
  <2>1. failed \in Working /\ failed \in PC /\ failed \notin {"project", "mark", "complete", "failFile"}
    BY <1>3 DEF Working, PC
  <2> QED
    BY <1>3, <2>1, GotoLocal
<1> QED
  BY <1>1, <1>2, <1>3 DEF UpdateJob

LEMMA WorkerLocal == ASSUME IInv, DBStep, Worker PROVE LocalStep
<1>1. PICK w \in Workers : WorkerStep(w) \/ Progress(w) \/ Crash(w)
  BY DEF Worker
<1>2. ASSUME pc[w] \in Working
      PROVE  /\ held[w] \in Jobs /\ jobFile[held[w]] \in Files
             /\ jobStatus[held[w]] # "ABSENT"
             /\ jobFile'[held[w]] = jobFile[held[w]] /\ held[w] # 0
  BY <1>2, RowsStay DEF IInv, TypeOK, WorkerHolds, RowsKnown
<1>3. CASE Start(w) \/ Recover(w) \/ ClaimNothing(w)
  BY <1>3, GotoLocal DEF Start, Recover, ClaimNothing, PC, Working
<1>4. CASE ClaimExisting(w)
  <2>1. PICK j \in LeasesOf(w) :
          /\ pc' = [pc EXCEPT ![w] = "start"]
          /\ held' = [held EXCEPT ![w] = j]
          /\ heldToken' = [heldToken EXCEPT ![w] = jobToken[j]]
          /\ UNCHANGED dbVars
    BY <1>4 DEF ClaimExisting
  <2>2. Takes(w)
    BY <2>1 DEF IInv, TypeOK, Takes, LeasesOf, dbVars
  <2>3. ASSUME NEW v \in Workers, v # w PROVE Stays(v)
    BY <2>1, <2>3 DEF IInv, TypeOK, Stays, Keeps
  <2> QED
    BY <2>1, <2>2, <2>3 DEF IInv, TypeOK, LocalStep, LeasesOf, PC
<1>5. CASE ClaimQueued(w)
  <2>1. CASE Goto(w, "recover")
    BY <1>5, <2>1, GotoLocal DEF ClaimQueued, PC, Working
  <2>2. ASSUME NEW j \in Jobs, ApplyClaim(j, w),
               pc' = [pc EXCEPT ![w] = "start"],
               held' = [held EXCEPT ![w] = j],
               heldToken' = [heldToken EXCEPT ![w] = lastToken + 1]
        PROVE  LocalStep
    <3>1. Takes(w)
      BY <2>2 DEF IInv, TypeOK, Takes, ApplyClaim
    <3>2. ASSUME NEW v \in Workers, v # w PROVE Stays(v)
      BY <2>2, <3>2 DEF IInv, TypeOK, Stays, Keeps
    <3> QED
      BY <2>2, <3>1, <3>2 DEF IInv, TypeOK, LocalStep, PC
  <2> QED
    BY <1>5, <2>1, <2>2 DEF ClaimQueued
<1>6. CASE BeginDownload(w) \/ Progress(w) \/ BeginWriting(w)
  BY <1>6, UpdateJobLocal DEF BeginDownload, Progress, BeginWriting, Working
<1>7. CASE ScanFails(w)
  BY <1>7, GotoLocal DEF ScanFails, PC, Working
<1>8. CASE Complete(w)
  BY <1>8, UpdateJobLocal DEF Complete, Working
<1>9. CASE FailJob(w)
  <2>1. ASSUME ApplyJobPatch(held[w], heldToken[w], "FAILED")
        PROVE  StillHasFailed(jobFile[held[w]])
    BY <1>2, <1>9, <2>1
    DEF FailJob, Working, ApplyJobPatch, StillHasFailed, IInv, TypeOK
  <2> QED
    BY <1>9, <2>1, UpdateJobLocal DEF FailJob, Working
<1>10. CASE InsertModelRows(w)
  <2>1. CASE ApplyRowPost(jobFile[held[w]], "model") /\ Goto(w, "project")
    <3>1. StillHasRows(jobFile[held[w]])
      BY <1>2, <1>10, <2>1
      DEF InsertModelRows, InsertRows, Working, ApplyRowPost, StillHasRows, IInv, TypeOK
    <3> QED
      BY <1>10, <2>1, <3>1, GotoLocal DEF InsertModelRows, InsertRows, PC, Working
  <2>2. CASE Goto(w, "fail")
    BY <1>10, <2>2, GotoLocal DEF InsertModelRows, InsertRows, PC, Working
  <2> QED
    BY <1>10, <2>1, <2>2 DEF InsertModelRows, InsertRows
<1>11. CASE InsertProjectRows(w) \/ MarkProcessed(w)
  <2>1. StillHasRows(jobFile[held[w]])
    <3>1. pc[w] \in {"project", "mark"}
      BY <1>11 DEF InsertProjectRows, InsertRows, MarkProcessed
    <3>2. HasRows(jobFile[held[w]])
      BY <3>1 DEF IInv, Results
    <3> QED
      BY <1>2, <3>1, <3>2, HasRowsStays DEF Working, HasRows, StillHasRows
  <2>2. Goto(w, "mark") \/ Goto(w, "complete") \/ Goto(w, "fail")
    BY <1>11 DEF InsertProjectRows, InsertRows, MarkProcessed
  <2>3. pc[w] \in Working
    BY <1>11 DEF InsertProjectRows, InsertRows, MarkProcessed, Working
  <2> QED
    BY <2>1, <2>2, <2>3, GotoLocal DEF PC, Working
<1>12. CASE FailFile(w) \/ Crash(w)
  BY <1>12, LeaveLocal DEF FailFile, Crash, BackToLoop
<1> QED
  BY <1>1, <1>3, <1>4, <1>5, <1>6, <1>7, <1>8, <1>9, <1>10, <1>11, <1>12 DEF WorkerStep

LEMMA NextLocal == ASSUME IInv, [Next]_vars PROVE LocalStep
<1>1. CASE User \/ Environment \/ UNCHANGED vars
  <2>1. UNCHANGED workerVars
    BY <1>1
    DEF User, Finalize, Retry, Rerun, Remove, Environment, GrowOverdue, Arrive,
        Drop, vars, workerVars
  <2> QED
    BY <2>1, LocalUnchanged
<1> QED
  BY <1>1, NextDBStep, WorkerLocal DEF Next

LEMMA LoseLate ==
  ASSUME NEW m \in Request, Authorised(m), Lose(m) PROVE LateStep
BY DEF Lose, LateStep

LEMMA UpdateJobLate ==
  ASSUME IInv, NEW w \in Workers, pc[w] \in Working,
         NEW s \in {"RUNNING", "COMPLETED", "FAILED"},
         s = "COMPLETED" => HasRows(jobFile[held[w]]),
         NEW next, NEW failed, UpdateJob(w, s, next, failed)
  PROVE  LateStep
<1>1. CASE NoFault
  BY <1>1 DEF NoFault, LateStep
<1>2. CASE Lose(PatchJob(held[w], heldToken[w], s))
  <2>1. held[w] \in Jobs /\ heldToken[w] \in Nat /\ jobStatus[held[w]] # "ABSENT"
    BY DEF IInv, TypeOK, WorkerHolds
  <2>2. PatchJob(held[w], heldToken[w], s) \in Request
    BY <2>1 DEF Request, PatchJob, JobPatch
  <2>3. Authorised(PatchJob(held[w], heldToken[w], s))
    BY <2>1 DEF Authorised, PatchJob
  <2> QED
    BY <1>2, <2>2, <2>3, LoseLate
<1> QED
  BY <1>1, <1>2 DEF UpdateJob

LEMMA WorkerLate == ASSUME IInv, Worker PROVE LateStep
<1>1. PICK w \in Workers : WorkerStep(w) \/ Progress(w) \/ Crash(w)
  BY DEF Worker
<1>2. ASSUME UNCHANGED late PROVE LateStep
  BY <1>2 DEF LateStep
<1>3. ASSUME pc[w] \in Working PROVE jobFile[held[w]] \in Files
  BY <1>3 DEF IInv, TypeOK, WorkerHolds, RowsKnown
<1>4. CASE Start(w) \/ Recover(w) \/ ClaimExisting(w) \/ ClaimNothing(w) \/ ScanFails(w) \/ Crash(w)
  BY <1>2, <1>4
  DEF Start, Recover, ClaimExisting, ClaimNothing, ScanFails, Crash, NoFault
<1>5. CASE ClaimQueued(w)
  <2>1. PICK j \in Jobs : Candidate(j) /\ (NoFault \/ Lose(CallClaim(j, w)))
    BY <1>5 DEF ClaimQueued
  <2>2. CallClaim(j, w) \in Request
    BY DEF Request, ClaimCall, CallClaim
  <2>3. Authorised(CallClaim(j, w))
    BY <2>1 DEF Authorised, CallClaim, Candidate
  <2> QED
    BY <1>2, <2>1, <2>2, <2>3, LoseLate DEF NoFault
<1>6. CASE BeginDownload(w) \/ Progress(w) \/ BeginWriting(w) \/ FailJob(w)
  BY <1>6, UpdateJobLate DEF BeginDownload, Progress, BeginWriting, FailJob, Working
<1>7. CASE Complete(w)
  <2>1. HasRows(jobFile[held[w]])
    BY <1>7 DEF Complete, IInv, Results
  <2> QED
    BY <1>7, <2>1, UpdateJobLate DEF Complete, Working
<1>8. CASE InsertModelRows(w) \/ InsertProjectRows(w)
  <2>1. PICK p \in Part, next \in PC : pc[w] = p /\ InsertRows(w, p, next)
    BY <1>8 DEF InsertModelRows, InsertProjectRows, Part, PC, InsertRows
  <2>2. PostRows(jobFile[held[w]], p) \in Request
    BY <1>3, <2>1 DEF Part, Working, Request, PostRows, RowPost
  <2>3. Authorised(PostRows(jobFile[held[w]], p))
    BY DEF Authorised, PostRows
  <2> QED
    BY <1>2, <2>1, <2>2, <2>3, LoseLate DEF InsertRows, NoFault
<1>9. CASE MarkProcessed(w)
  <2>1. PatchFile(jobFile[held[w]], "PROCESSED") \in Request
    BY <1>3, <1>9 DEF MarkProcessed, Working, Request, PatchFile, FilePatch
  <2>2. Authorised(PatchFile(jobFile[held[w]], "PROCESSED"))
    BY <1>9 DEF MarkProcessed, IInv, Results, Authorised, PatchFile
  <2> QED
    BY <1>2, <1>9, <2>1, <2>2, LoseLate DEF MarkProcessed, NoFault
<1>10. CASE FailFile(w)
  <2>1. PatchFile(jobFile[held[w]], "FAILED") \in Request
    BY <1>3, <1>10 DEF FailFile, Working, Request, PatchFile, FilePatch
  <2>2. Authorised(PatchFile(jobFile[held[w]], "FAILED"))
    BY <1>10 DEF FailFile, IInv, Failures, Authorised, PatchFile
  <2> QED
    BY <1>2, <1>10, <2>1, <2>2, LoseLate DEF FailFile, NoFault
<1> QED
  BY <1>1, <1>4, <1>5, <1>6, <1>7, <1>8, <1>9, <1>10 DEF WorkerStep

LEMMA NextLate == ASSUME IInv, [Next]_vars PROVE LateStep
<1>1. CASE User \/ Environment \/ UNCHANGED vars
  BY <1>1
  DEF User, Finalize, Retry, Rerun, Remove, Environment, GrowOverdue, Arrive,
      Drop, vars, LateStep
<1> QED
  BY <1>1, WorkerLate DEF Next

-----------------------------------------------------------------------------
(* The conjuncts of IInv about workers and requests.                        *)

LEMMA TypeOKKept ==
  ASSUME IInv, [Next]_vars PROVE TypeOK'
<1>1. DBTypes'
  BY NextDBStep, DBTypesKept
<1>2. late' \subseteq JobPatch \cup FilePatch \cup RowPost \cup ClaimCall
  BY NextLate DEF LateStep, Request, IInv, TypeOK
<1>3. faults' \in Nat /\ slow' \in Nat
  BY DEF IInv, TypeOK, Next, User, Finalize, Retry, Rerun, Remove, Worker,
     WorkerStep, Start, Recover, ClaimExisting, ClaimQueued, ClaimNothing,
     BeginDownload, Progress, ScanFails, BeginWriting, UpdateJob, InsertRows,
     InsertModelRows, InsertProjectRows, MarkProcessed, Complete, FailJob,
     FailFile, Crash, NoFault, Lose, Environment, GrowOverdue, Arrive, Drop, vars
<1> QED
  BY <1>1, <1>2, <1>3, NextLocal DEF TypeOK, DBTypes, LocalStep

LEMMA WorkerHoldsKept ==
  ASSUME IInv, [Next]_vars PROVE WorkerHolds'
<1>1. SUFFICES ASSUME NEW w \in Workers
               PROVE  /\ pc'[w] \in Working <=> held'[w] # 0
                      /\ held'[w] # 0 => jobStatus'[held'[w]] # "ABSENT"
  BY DEF WorkerHolds
<1>2. ASSUME held[w] # 0 PROVE jobStatus'[held[w]] # "ABSENT"
  BY <1>2, NextDBStep, RowsStay DEF IInv, TypeOK, WorkerHolds
<1>3. Stays(w) \/ Waits(w) \/ Takes(w) \/ Advances(w)
  BY NextLocal DEF LocalStep
<1> QED
  BY <1>2, <1>3
  DEF IInv, WorkerHolds, Stays, Waits, Takes, Advances, Keeps, Working, Jobs

(* A lease in force after a step was in force, with its owner, before.      *)
LEMMA LeaseStays ==
  ASSUME IInv, DBStep, NEW j \in Jobs, NEW t \in Nat, t <= lastToken,
         jobStatus'[j] = "RUNNING", jobToken'[j] = t
  PROVE  LeaseHolds(j, t) /\ jobWorker'[j] = jobWorker[j]
<1> USE DEF IInv, TypeOK, LeaseHolds
<1>1. CASE \E f \in Files : Asks(f)
  BY <1>1, BoundsAssumption DEF Asks, Enqueue, Jobs
<1>2. CASE \E f \in Files : Removes(f)
  BY <1>2 DEF Removes
<1>3. CASE \E i \in Jobs, u \in Nat, s \in {"RUNNING", "COMPLETED", "FAILED"} : PatchesJob(i, u, s)
  BY <1>3 DEF PatchesJob, ApplyJobPatch
<1>4. CASE \E i \in Jobs, w \in Workers : Claims(i, w)
  BY <1>4 DEF Claims, ApplyClaim
<1>5. CASE ApplyRecover
  BY <1>5 DEF ApplyRecover
<1>6. CASE UNCHANGED <<jobStatus, jobToken, jobWorker>>
  BY <1>6
<1> QED
  BY <1>1, <1>2, <1>3, <1>4, <1>5, <1>6
  DEF DBStep, dbVars, Touches, PatchesFile, ApplyFilePatch, ApplyRowPost, Ages

LEMMA TokensGrow ==
  ASSUME IInv, DBStep
  PROVE  /\ lastToken' >= lastToken
         /\ \A j \in Jobs : jobToken'[j] <= lastToken'
         /\ overdue' \subseteq {j \in Jobs : jobStatus'[j] = "RUNNING"}
<1> USE DEF IInv, TypeOK, LeaseOwner
<1>1. CASE \E f \in Files : Asks(f)
  BY <1>1, BoundsAssumption DEF Asks, Enqueue, RowsKnown, Jobs
<1>2. CASE \E f \in Files : Touches(f) \/ Removes(f)
  BY <1>2 DEF Touches, Removes
<1>3. CASE \E i \in Jobs, u \in Nat, s \in {"RUNNING", "COMPLETED", "FAILED"} : PatchesJob(i, u, s)
  BY <1>3 DEF PatchesJob, ApplyJobPatch
<1>4. CASE \E i \in Jobs, w \in Workers : Claims(i, w)
  BY <1>4 DEF Claims, ApplyClaim
<1>5. CASE ApplyRecover
  BY <1>5 DEF ApplyRecover
<1>6. CASE \E i \in Jobs : Ages(i)
  BY <1>6 DEF Ages
<1>7. CASE UNCHANGED <<jobStatus, jobToken, lastToken, overdue>>
  BY <1>7
<1> QED
  BY <1>1, <1>2, <1>3, <1>4, <1>5, <1>6, <1>7
  DEF DBStep, dbVars, PatchesFile, ApplyFilePatch, ApplyRowPost

LEMMA LeaseOwnerKept ==
  ASSUME IInv, [Next]_vars PROVE LeaseOwner'
<1>1. /\ lastToken' >= lastToken
      /\ \A j \in Jobs : jobToken'[j] <= lastToken'
      /\ overdue' \subseteq {j \in Jobs : jobStatus'[j] = "RUNNING"}
  BY NextDBStep, TokensGrow
<1>2. lastToken \in Nat /\ lastToken' \in Nat
  BY TypeOKKept DEF IInv, TypeOK
<1>3. ASSUME NEW w \in Workers
      PROVE  /\ heldToken'[w] <= lastToken'
             /\ held'[w] # 0 /\ jobStatus'[held'[w]] = "RUNNING"
                /\ jobToken'[held'[w]] = heldToken'[w] => jobWorker'[held'[w]] = w
  <2>1. heldToken[w] \in Nat /\ heldToken[w] <= lastToken /\ held[w] \in Jobs \cup {0}
    BY DEF IInv, TypeOK, LeaseOwner
  <2>2. CASE Keeps(w)
    <3>1. ASSUME held[w] # 0, jobStatus'[held[w]] = "RUNNING",
                 jobToken'[held[w]] = heldToken[w]
          PROVE  jobWorker'[held[w]] = w
      <4>1. HasLease(w) /\ jobWorker'[held[w]] = jobWorker[held[w]]
        BY <2>1, <3>1, NextDBStep, LeaseStays DEF HasLease
      <4> QED
        BY <4>1 DEF IInv, LeaseOwner
    <3> QED
      BY <1>1, <1>2, <2>1, <2>2, <3>1 DEF Keeps
  <2>3. CASE Waits(w)
    BY <1>1, <1>2, <2>1, <2>3 DEF Waits
  <2>4. CASE Takes(w)
    BY <1>1, <2>4 DEF Takes
  <2> QED
    BY <2>2, <2>3, <2>4, NextLocal DEF LocalStep, Stays, Advances
<1> QED
  BY <1>1, <1>3 DEF LeaseOwner, HasLease, LeaseHolds

(* A row locked by a claim in flight stays queued, and locked once.         *)
LEMMA ClaimsLockKept ==
  ASSUME IInv, [Next]_vars PROVE ClaimsLock'
<1>1. SUFFICES ASSUME NEW j \in Jobs, NEW w \in Workers, CallClaim(j, w) \in late'
               PROVE  /\ jobStatus'[j] = "QUEUED"
                      /\ \A v \in Workers : CallClaim(j, v) \in late' => v = w
  BY DEF ClaimsLock
<1>2. CASE late' \subseteq late
  <2>1. /\ CallClaim(j, w) \in late /\ jobStatus[j] = "QUEUED" /\ j \in Locked
        /\ \A v \in Workers : CallClaim(j, v) \in late' => v = w
    BY <1>1, <1>2 DEF IInv, ClaimsLock, Locked
  <2>2. jobStatus'[j] = "QUEUED"
    <3> USE DEF IInv, TypeOK
    <3>1. CASE \E f \in Files : Asks(f)
      BY <2>1, <3>1, BoundsAssumption DEF Asks, Enqueue, RowsKnown, Jobs
    <3>2. CASE \E f \in Files : Removes(f)
      BY <2>1, <3>2 DEF Removes
    <3>3. CASE \E i \in Jobs, t \in Nat, s \in {"RUNNING", "COMPLETED", "FAILED"} : PatchesJob(i, t, s)
      BY <2>1, <3>3 DEF PatchesJob, ApplyJobPatch, LeaseHolds
    <3>4. CASE \E i \in Jobs, v \in Workers : Claims(i, v)
      BY <1>1, <2>1, <3>4 DEF Claims, ApplyClaim
    <3>5. CASE ApplyRecover
      BY <2>1, <3>5 DEF ApplyRecover
    <3>6. CASE UNCHANGED jobStatus
      BY <2>1, <3>6
    <3> QED
      BY <3>1, <3>2, <3>3, <3>4, <3>5, <3>6, NextDBStep
      DEF DBStep, dbVars, Touches, PatchesFile, ApplyFilePatch, ApplyRowPost, Ages
  <2> QED
    BY <2>1, <2>2
<1>3. ASSUME UNCHANGED dbVars, NEW m \in Request, Authorised(m), late' = late \cup {m}
      PROVE  /\ jobStatus'[j] = "QUEUED"
             /\ \A v \in Workers : CallClaim(j, v) \in late' => v = w
  <2>1. CASE m = CallClaim(j, w)
    <3>1. jobStatus[j] = "QUEUED" /\ j \notin Locked
      BY <1>3, <2>1 DEF Authorised, CallClaim
    <3>2. \A v \in Workers : CallClaim(j, v) \in late' => CallClaim(j, v) = CallClaim(j, w)
      BY <1>3, <2>1, <3>1 DEF Locked
    <3> QED
      BY <1>3, <3>1, <3>2 DEF dbVars, CallClaim
  <2>2. CASE m # CallClaim(j, w)
    <3>1. CallClaim(j, w) \in late /\ jobStatus[j] = "QUEUED" /\ j \in Locked
      BY <1>1, <1>3, <2>2 DEF IInv, ClaimsLock, Locked
    <3>2. \A v \in Workers : m # CallClaim(j, v)
      BY <1>3, <3>1 DEF Authorised, CallClaim
    <3> QED
      BY <1>3, <3>1, <3>2 DEF IInv, ClaimsLock, dbVars
  <2> QED
    BY <2>1, <2>2
<1> QED
  BY <1>2, <1>3, NextLate DEF LateStep

LEMMA ResultsKept ==
  ASSUME IInv, [Next]_vars PROVE Results'
<1> USE NextDBStep
<1>1. ResultsBeforeReport'
  BY ResultsReportKept
<1>2. ASSUME NEW w \in Workers, pc'[w] \in {"project", "mark", "complete"}
      PROVE  HasRows(jobFile[held[w]])'
  <2>1. Stays(w) \/ Advances(w)
    BY <1>2, NextLocal DEF LocalStep, Waits, Takes
  <2>2. pc[w] \in Working /\ held'[w] = held[w]
    BY <1>2, <2>1 DEF Stays, Advances, Keeps, Working
  <2>3. held[w] \in Jobs /\ jobFile[held[w]] \in Files /\ jobFile'[held[w]] = jobFile[held[w]]
    BY <2>2, RowsStay DEF IInv, TypeOK, WorkerHolds, RowsKnown
  <2>4. StillHasRows(jobFile[held[w]])
    <3>1. CASE Advances(w)
      BY <1>2, <3>1 DEF Advances
    <3>2. CASE Stays(w)
      <4>1. HasRows(jobFile[held[w]])
        BY <1>2, <3>2 DEF Stays, IInv, Results
      <4> QED
        BY <2>3, <4>1, HasRowsStays DEF HasRows, StillHasRows
    <3> QED
      BY <2>1, <3>1, <3>2
  <2> QED
    BY <2>2, <2>3, <2>4 DEF StillHasRows, HasRows
<1>3. ASSUME NEW m \in late', m.op = "job", m.to = "COMPLETED"
      PROVE  jobStatus'[m.job] # "ABSENT" /\ HasRows(jobFile[m.job])'
  <2>1. m \in JobPatch
    BY <1>3, TypeOKKept DEF TypeOK, JobPatch, FilePatch, RowPost, ClaimCall
  <2>2. jobStatus[m.job] # "ABSENT" /\ HasRows(jobFile[m.job])
    BY <1>3, NextLate DEF LateStep, Authorised, IInv, Results
  <2>3. jobFile[m.job] \in Files /\ m.job \in Jobs
    BY <2>1, <2>2 DEF JobPatch, IInv, RowsKnown
  <2> QED
    BY <2>2, <2>3, RowsStay, HasRowsStays DEF HasRows
<1>4. ASSUME NEW m \in late', m.op = "file", m.to = "PROCESSED"
      PROVE  HasRows(m.file)'
  <2>1. m \in FilePatch
    BY <1>4, TypeOKKept DEF TypeOK, JobPatch, FilePatch, RowPost, ClaimCall
  <2>2. HasRows(m.file) /\ m.file \in Files
    BY <1>4, <2>1, NextLate DEF LateStep, Authorised, IInv, Results, FilePatch
  <2> QED
    BY <2>2, HasRowsStays DEF HasRows
<1> QED
  BY <1>1, <1>2, <1>3, <1>4 DEF Results

LEMMA FailuresKept ==
  ASSUME IInv, [Next]_vars PROVE Failures'
<1> USE NextDBStep
<1>1. FailedFileHasFailedJob'
  BY FailedFileKept
<1>2. ASSUME NEW w \in Workers, pc'[w] = "failFile"
      PROVE  HasFailed(jobFile[held[w]])'
  <2>1. Stays(w) \/ Advances(w)
    BY <1>2, NextLocal DEF LocalStep, Waits, Takes
  <2>2. pc[w] \in Working /\ held'[w] = held[w]
    BY <1>2, <2>1 DEF Stays, Advances, Keeps, Working
  <2>3. held[w] \in Jobs /\ jobFile[held[w]] \in Files /\ jobFile'[held[w]] = jobFile[held[w]]
    BY <2>2, RowsStay DEF IInv, TypeOK, WorkerHolds, RowsKnown
  <2>4. CASE Advances(w)
    BY <1>2, <2>2, <2>3, <2>4 DEF Advances, StillHasFailed, HasFailed, JobsOf
  <2>5. CASE Stays(w)
    <3>1. HasFailed(jobFile[held[w]])
      BY <1>2, <2>5 DEF Stays, IInv, Failures
    <3> QED
      BY <2>2, <2>3, <3>1, HasFailedStays DEF HasFailed, JobsOf
  <2> QED
    BY <2>1, <2>4, <2>5
<1>3. ASSUME NEW m \in late', m.op = "file", m.to = "FAILED"
      PROVE  HasFailed(m.file)'
  <2>1. m \in FilePatch
    BY <1>3, TypeOKKept DEF TypeOK, JobPatch, FilePatch, RowPost, ClaimCall
  <2>2. HasFailed(m.file) /\ m.file \in Files
    BY <1>3, <2>1, NextLate DEF LateStep, Authorised, IInv, Failures, FilePatch
  <2> QED
    BY <2>2, HasFailedStays DEF HasFailed, JobsOf
<1> QED
  BY <1>1, <1>2, <1>3 DEF Failures

-----------------------------------------------------------------------------
(***************************************************************************)
(* The theorems.                                                           *)
(***************************************************************************)

LEMMA InitIInv == Init => IInv
<1> SUFFICES ASSUME Init PROVE IInv
  OBVIOUS
<1> USE DEF Init
<1>1. TypeOK
  BY BoundsAssumption
  DEF TypeOK, JobStatus, FileStatus, PC, Jobs, Files
<1>2. RowsKnown
  BY DEF RowsKnown, Jobs
<1>3. OneActiveJobPerFile
  BY DEF OneActiveJobPerFile, Active
<1>4. WorkerHolds /\ LeaseOwner /\ ClaimsLock
  BY DEF WorkerHolds, Working, LeaseOwner, ClaimsLock, HasLease
<1>5. Results /\ Failures
  BY DEF Results, ResultsBeforeReport, Failures, FailedFileHasFailedJob
<1> QED
  BY <1>1, <1>2, <1>3, <1>4, <1>5 DEF IInv

LEMMA NextIInv == IInv /\ [Next]_vars => IInv'
<1> SUFFICES ASSUME IInv, [Next]_vars PROVE IInv'
  OBVIOUS
<1>1. RowsKnown' /\ OneActiveJobPerFile'
  BY NextDBStep, RowsKnownKept, OneActiveKept
<1> QED
  BY <1>1, TypeOKKept, WorkerHoldsKept, LeaseOwnerKept, ClaimsLockKept,
     ResultsKept, FailuresKept
  DEF IInv

(* IInv holds in every reachable state.                                     *)
THEOREM Invariance == Spec => []IInv
BY InitIInv, NextIInv, PTL DEF Spec

(* The variables keep their types.                                          *)
THEOREM TypeCorrect == Spec => []TypeOK
<1>1. IInv => TypeOK
  BY DEF IInv
<1> QED
  BY <1>1, Invariance, PTL

(* A file never has two scans under way (ifc_one_active_job_idx and every    *)
(* function that moves a job between QUEUED and RUNNING).                    *)
THEOREM OneActive == Spec => []OneActiveJobPerFile
<1>1. IInv => OneActiveJobPerFile
  BY DEF IInv
<1> QED
  BY <1>1, Invariance, PTL

(* Two workers never both hold the current lease of one job: the update_job  *)
(* filter lets at most one of them through.                                  *)
THEOREM LeaseExclusion == Spec => []LeaseIsExclusive
<1>1. IInv => LeaseIsExclusive
  BY DEF IInv, LeaseOwner, LeaseIsExclusive
<1> QED
  BY <1>1, Invariance, PTL

(* No scan is reported as done before its rows are stored, by whichever      *)
(* worker and however late the report arrives.                               *)
THEOREM ReportAfterResults == Spec => []ResultsBeforeReport
<1>1. IInv => ResultsBeforeReport
  BY DEF IInv, Results
<1> QED
  BY <1>1, Invariance, PTL

(* A file is marked FAILED only after one of its jobs was.                   *)
THEOREM FailureIsRecorded == Spec => []FailedFileHasFailedJob
<1>1. IInv => FailedFileHasFailedJob
  BY DEF IInv, Failures
<1> QED
  BY <1>1, Invariance, PTL

(* A finished job is never changed again, only removed with its file.        *)
THEOREM FinishedJobs == Spec => FinishedJobsStay
<1>1. ASSUME IInv, [Next]_vars
      PROVE  [\A j \in Jobs : jobStatus[j] \in Terminal =>
                 jobStatus'[j] \in {jobStatus[j], "DELETED"}]_vars
  BY <1>1, NextDBStep, FinishedStays
<1> QED
  BY <1>1, Invariance, PTL DEF Spec, FinishedJobsStay

-----------------------------------------------------------------------------
(* The queue implements ScanQueue: every database step is one of its steps,  *)
(* or changes nothing it speaks of.                                          *)

StoredFiles == {f \in Files : "model" \in rows[f]}

LEMMA PromiseStep == IInv /\ [Next]_vars => [Promise!Next]_(Promise!vars)
<1> SUFFICES ASSUME IInv, [Next]_vars
             PROVE  Promise!Next \/ UNCHANGED <<jobStatus, jobFile, StoredFiles>>
  BY DEF Promise!vars, StoredFiles
<1> USE DEF IInv, TypeOK
<1>1. ASSUME NEW f \in Files, Asks(f) PROVE Promise!Next
  <2>1. jobCount + 1 \in Jobs /\ jobStatus[jobCount + 1] = "ABSENT"
    BY <1>1, BoundsAssumption DEF Asks, Enqueue, RowsKnown, Jobs
  <2>2. ~Promise!UnderWay(f)
    BY <1>1 DEF Asks, NoActiveJob, JobsOf, Active, Promise!UnderWay
  <2>3. Promise!Enqueue(jobCount + 1, f)
    BY <1>1, <2>1, <2>2 DEF Asks, Enqueue, Promise!Enqueue
  <2> QED
    BY <2>1, <2>3 DEF Promise!Next
<1>2. ASSUME NEW f \in Files, Removes(f) PROVE Promise!Next
  <2>1. jobStatus' = [s \in Jobs |-> IF jobFile[s] = f /\ jobStatus[s] # "ABSENT"
                                       THEN "DELETED" ELSE jobStatus[s]]
    BY <1>2 DEF Removes, JobsOf
  <2>2. StoredFiles' = StoredFiles \ {f}
    BY <1>2 DEF Removes, StoredFiles
  <2>3. Promise!Forget(f)
    BY <1>2, <2>1, <2>2 DEF Removes, Promise!Forget, StoredFiles
  <2> QED
    BY <2>3 DEF Promise!Next
<1>3. ASSUME NEW j \in Jobs, NEW t \in Nat,
             NEW s \in {"RUNNING", "COMPLETED", "FAILED"}, PatchesJob(j, t, s)
      PROVE  Promise!Next \/ UNCHANGED <<jobStatus, jobFile, StoredFiles>>
  <2>1. jobStatus[j] = "RUNNING" /\ jobStatus' = [jobStatus EXCEPT ![j] = s]
        /\ UNCHANGED <<jobFile, rows>>
    BY <1>3 DEF PatchesJob, ApplyJobPatch, LeaseHolds
  <2>2. CASE s = "RUNNING"
    BY <2>1, <2>2 DEF StoredFiles
  <2>3. CASE s \in {"COMPLETED", "FAILED"}
    <3>1. fileStatus[jobFile[j]] \in Stored /\ jobFile[j] \in Files
      BY <2>1 DEF RowsKnown
    <3>2. s = "COMPLETED" => "model" \in rows[jobFile[j]]
      BY <1>3, <3>1 DEF PatchesJob, HasRows, Stored
    <3>3. Promise!Finish(j, s)
      BY <2>1, <3>1, <3>2 DEF Promise!Finish
    <3> QED
      BY <2>3, <3>3 DEF Promise!Next
  <2> QED
    BY <2>2, <2>3
<1>4. ASSUME NEW f \in Files, NEW p \in Part, ApplyRowPost(f, p)
      PROVE  Promise!Next \/ UNCHANGED <<jobStatus, jobFile, StoredFiles>>
  <2>1. CASE p = "model"
    <3>1. StoredFiles' = StoredFiles \cup {f}
      BY <1>4, <2>1 DEF ApplyRowPost, StoredFiles
    <3>2. Promise!Store(f)
      BY <1>4, <3>1 DEF ApplyRowPost, StoredFiles, Promise!Store
    <3> QED
      BY <3>2 DEF Promise!Next
  <2>2. CASE p = "project"
    BY <1>4, <2>2 DEF ApplyRowPost, StoredFiles
  <2> QED
    BY <2>1, <2>2 DEF Part
<1>5. ASSUME NEW j \in Jobs, NEW w \in Workers, Claims(j, w) PROVE Promise!Next
  <2>1. Promise!Begin(j)
    BY <1>5 DEF Claims, ApplyClaim, Promise!Begin
  <2> QED
    BY <2>1 DEF Promise!Next
<1>6. ASSUME ApplyRecover PROVE Promise!Next
  <2>1. Promise!PutBack(overdue)
    BY <1>6 DEF ApplyRecover, LeaseOwner, Promise!PutBack
  <2> QED
    BY <2>1 DEF Promise!Next
<1>7. CASE UNCHANGED <<jobStatus, jobFile, rows>>
  BY <1>7 DEF StoredFiles
<1> QED
  BY <1>1, <1>2, <1>3, <1>4, <1>5, <1>6, <1>7, NextDBStep
  DEF DBStep, dbVars, Touches, PatchesFile, ApplyFilePatch, Ages

(* The queue keeps the promise of ScanQueue.                                 *)
THEOREM Refinement == Spec => PromiseKept
<1>1. Init => Promise!Init
  BY DEF Init, Promise!Init
<1> QED
  BY <1>1, PromiseStep, Invariance, PTL DEF Spec, PromiseKept, Promise!Spec
=============================================================================
