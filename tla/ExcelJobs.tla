----------------------------- MODULE ExcelJobs -----------------------------
(***************************************************************************)
(* The jobs that convert an IFC file to a workbook and back: the           *)
(* ExcelJobStore of backend/excel_jobs.py in the web process, its executor *)
(* threads, the child process of every job (backend/excel_job_runner.py),  *)
(* and the job files all of them share.                                    *)
(*                                                                         *)
(* A child imports app, and so builds an ExcelJobStore of its own on the   *)
(* same directory: _recover runs in every child as it does when the web    *)
(* process starts.  A job file is short: it is written in one call.        *)
(***************************************************************************)
EXTENDS Naturals, Sequences

CONSTANTS
  Jobs,        \* jobs that may be created
  Executors,   \* threads the executor may have
  Web,         \* the web process
  None,        \* no job
  MaxCrashes,  \* bound: crashes of the web process, its children with it
  MaxFaults    \* bound: failed writes of a job file, children not started

ASSUME NamesAssumption == Web \notin Executors /\ None \notin Jobs

ASSUME BoundsAssumption == MaxCrashes \in Nat /\ MaxFaults \in Nat

Active == {"queued", "running"}
Terminal == {"completed", "failed"}
JobState == {"absent"} \cup Active \cup Terminal

(* The processes that recover: the web process and the child of a thread.   *)
Procs == {Web} \cup Executors

VARIABLES
  disk,       \* <job>.json: the status in it
  tmp,        \* <job>.tmp
  mem,        \* ExcelJobStore._jobs of the web process
  request,    \* where the request that creates a job is
  queue,      \* the executor's queue
  pool,       \* the threads it has (EXCEL_JOB_WORKERS)
  pc,         \* where a thread is in _execute
  job,        \* the job it executes
  phase,      \* a process: not there, in _recover, past it
  todo,       \* job files _recover has still to look at
  cur,        \* the job whose file it rewrites
  result,     \* what the child of a thread left in <job>.result.json
  polled,     \* the outcome the page was told
  crashes, faults

files == <<disk, tmp>>
threads == <<queue, pool, pc, job>>
procs == <<phase, todo, cur>>
bounds == <<crashes, faults>>
vars == <<files, mem, request, threads, procs, result, polled, bounds>>

Init ==
  /\ disk = [j \in Jobs |-> "absent"]
  /\ tmp = [j \in Jobs |-> "absent"]
  /\ mem = [j \in Jobs |-> "absent"]
  /\ request = [j \in Jobs |-> "idle"]
  /\ queue = <<>>
  /\ pool \in SUBSET Executors \ {{}}
  /\ pc = [e \in Executors |-> "idle"]
  /\ job = [e \in Executors |-> None]
  /\ phase = [p \in Procs |-> "off"]
  /\ todo = [p \in Procs |-> {}]
  /\ cur = [p \in Procs |-> None]
  /\ result = [e \in Executors |-> "none"]
  /\ polled = [j \in Jobs |-> "none"]
  /\ crashes = 0
  /\ faults = 0

Serving == phase[Web] = "on"

Fault == faults < MaxFaults /\ faults' = faults + 1 /\ UNCHANGED crashes

-----------------------------------------------------------------------------
(***************************************************************************)
(* Files: _persist writes <job>.tmp and then renames it.  The web process  *)
(* does both under _lock, a child knows nothing of that lock.              *)
(***************************************************************************)

Persisting == {"start", "report"}

LockFree ==
  /\ \A j \in Jobs : request[j] # "replace"
  /\ \A e \in Executors : pc[e] \notin Persisting

(* The job changes in memory, and its temporary file is written.           *)
Update(j, s) ==
  /\ mem' = [mem EXCEPT ![j] = s]
  /\ tmp' = [tmp EXCEPT ![j] = s]
  /\ UNCHANGED disk

(* ... or the write raises: the job has changed in memory.                  *)
UpdateRaises(j, s) ==
  /\ Fault
  /\ mem' = [mem EXCEPT ![j] = s]
  /\ UNCHANGED files

(* os.replace moves whatever the temporary file holds.                     *)
Replace(j) ==
  /\ tmp[j] # "absent"
  /\ disk' = [disk EXCEPT ![j] = tmp[j]]
  /\ tmp' = [tmp EXCEPT ![j] = "absent"]

(* ... or raises, if somebody else has moved it.                            *)
ReplaceRaises(j) == tmp[j] = "absent" /\ UNCHANGED files

-----------------------------------------------------------------------------
(***************************************************************************)
(* Requests.                                                               *)
(***************************************************************************)

RequestUnchanged == UNCHANGED <<pool, pc, job, procs, result, polled>>

(* create, up to os.replace.                                               *)
Create(j) ==
  /\ Serving /\ LockFree
  /\ request[j] = "idle"
  /\ \/ /\ Update(j, "queued")
        /\ request' = [request EXCEPT ![j] = "replace"]
        /\ UNCHANGED bounds
     \/ /\ UpdateRaises(j, "queued")
        /\ request' = [request EXCEPT ![j] = "refused"]
  /\ UNCHANGED queue /\ RequestUnchanged

CreateReplace(j) ==
  /\ request[j] = "replace"
  /\ Replace(j)
  /\ request' = [request EXCEPT ![j] = "submit"]
  /\ UNCHANGED <<mem, queue, bounds>> /\ RequestUnchanged

(* The job is handed to the executor and the request answered.             *)
Submit(j) ==
  /\ request[j] = "submit"
  /\ queue' = Append(queue, j)
  /\ request' = [request EXCEPT ![j] = "answered"]
  /\ UNCHANGED <<files, mem, bounds>> /\ RequestUnchanged

(* get_excel_job: the page asks until it is told an outcome.               *)
Poll(j) ==
  /\ Serving /\ LockFree
  /\ request[j] = "answered" /\ polled[j] = "none"
  /\ mem[j] \in Terminal
  /\ polled' = [polled EXCEPT ![j] = mem[j]]
  /\ UNCHANGED <<files, mem, request, threads, procs, result, bounds>>

-----------------------------------------------------------------------------
(***************************************************************************)
(* _recover, of the web process (p = Web) and of a child.                  *)
(***************************************************************************)

Files == {j \in Jobs : disk[j] # "absent"}

Launch(p) ==
  /\ phase' = [phase EXCEPT ![p] = "scan"]
  /\ todo' = [todo EXCEPT ![p] = Files]
  /\ cur' = [cur EXCEPT ![p] = None]

Exit(p) ==
  /\ phase' = [phase EXCEPT ![p] = "off"]
  /\ todo' = [todo EXCEPT ![p] = {}]
  /\ cur' = [cur EXCEPT ![p] = None]

Remember(p, j, s) == mem' = IF p = Web THEN [mem EXCEPT ![j] = s] ELSE mem

(* Variant: a file is rewritten as failed whatever it says.                 *)
Interrupted_Any(j) == TRUE

(* Variant: jobs that were queued are forgotten.                            *)
Interrupted_RunningOnly(j) == disk[j] = "running"

(* The jobs _recover takes for interrupted.                                 *)
Interrupted(j) == disk[j] \in Active

(* A file is read.                                                         *)
RecoverRead(p, j) ==
  /\ phase[p] = "scan" /\ j \in todo[p]
  /\ todo' = [todo EXCEPT ![p] = @ \ {j}]
  /\ IF Interrupted(j)
       THEN /\ phase' = [phase EXCEPT ![p] = "write"]
            /\ cur' = [cur EXCEPT ![p] = j]
            /\ UNCHANGED mem
       ELSE Remember(p, j, disk[j]) /\ UNCHANGED <<phase, cur>>
  /\ UNCHANGED <<files, request, threads, result, polled, bounds>>

(* An exception ends the web process, which has not served anything yet; a  *)
(* child reports it as the failure of its own job.                         *)
RecoverRaises(p) ==
  /\ Exit(p)
  /\ mem' = IF p = Web THEN [j \in Jobs |-> "absent"] ELSE mem
  /\ result' = [e \in Executors |-> IF e = p THEN "failed" ELSE result[e]]
  /\ pc' = [e \in Executors |-> IF e = p THEN "ended" ELSE pc[e]]
  /\ UNCHANGED <<request, queue, pool, job, polled>>

RecoverWrite(p) ==
  /\ phase[p] = "write"
  /\ \/ /\ tmp' = [tmp EXCEPT ![cur[p]] = "failed"]
        /\ phase' = [phase EXCEPT ![p] = "replace"]
        /\ UNCHANGED <<disk, mem, request, threads, todo, cur, result, polled, bounds>>
     \/ Fault /\ RecoverRaises(p) /\ UNCHANGED files

RecoverReplace(p) ==
  /\ phase[p] = "replace"
  /\ \/ /\ Replace(cur[p])
        /\ Remember(p, cur[p], "failed")
        /\ phase' = [phase EXCEPT ![p] = "scan"]
        /\ cur' = [cur EXCEPT ![p] = None]
        /\ UNCHANGED <<request, threads, todo, result, polled>>
     \/ ReplaceRaises(cur[p]) /\ RecoverRaises(p)
  /\ UNCHANGED bounds

(* The web process serves, the child works.                                *)
Recovered(p) ==
  /\ phase[p] = "scan" /\ todo[p] = {}
  /\ phase' = [phase EXCEPT ![p] = "on"]
  /\ UNCHANGED <<files, mem, request, threads, todo, cur, result, polled, bounds>>

Recover(p) ==
  \/ \E j \in Jobs : RecoverRead(p, j)
  \/ RecoverWrite(p)
  \/ RecoverReplace(p)
  \/ Recovered(p)

-----------------------------------------------------------------------------
(***************************************************************************)
(* The threads of the executor: _execute.                                  *)
(***************************************************************************)

ExecutorUnchanged == UNCHANGED <<request, pool, polled>>

Goto(e, l) == pc' = [pc EXCEPT ![e] = l] /\ UNCHANGED job

(* The thread is free again; what _execute raises is kept in a future that  *)
(* nobody asks.                                                            *)
Leave(e) ==
  /\ pc' = [pc EXCEPT ![e] = "idle"]
  /\ job' = [job EXCEPT ![e] = None]

(* A thread takes the next job and marks it running.                       *)
Begin(e) ==
  /\ LockFree
  /\ e \in pool /\ pc[e] = "idle" /\ queue # <<>>
  /\ queue' = Tail(queue)
  /\ \/ /\ Update(Head(queue), "running")
        /\ pc' = [pc EXCEPT ![e] = "start"]
        /\ job' = [job EXCEPT ![e] = Head(queue)]
        /\ UNCHANGED bounds
     \/ UpdateRaises(Head(queue), "running") /\ UNCHANGED <<pc, job>>
  /\ UNCHANGED <<procs, result>> /\ ExecutorUnchanged

BeginReplace(e) ==
  /\ pc[e] = "start"
  /\ \/ Replace(job[e]) /\ Goto(e, "spawn")
     \/ ReplaceRaises(job[e]) /\ Leave(e)
  /\ UNCHANGED <<mem, queue, procs, result, bounds>> /\ ExecutorUnchanged

(* subprocess.run starts the child, or raises.                              *)
Spawn(e) ==
  /\ pc[e] = "spawn"
  /\ \/ /\ Goto(e, "wait")
        /\ Launch(e)
        /\ result' = [result EXCEPT ![e] = "none"]
        /\ UNCHANGED bounds
     \/ Fault /\ Leave(e) /\ UNCHANGED <<procs, result>>
  /\ UNCHANGED <<files, mem, queue>> /\ ExecutorUnchanged

(* The child leaves its result.                                            *)
Work(e) ==
  /\ pc[e] = "wait" /\ phase[e] = "on"
  /\ \E r \in Terminal : result' = [result EXCEPT ![e] = r]
  /\ Goto(e, "ended") /\ Exit(e)
  /\ UNCHANGED <<files, mem, queue, bounds>> /\ ExecutorUnchanged

(* ... or is killed wherever it is, by a signal or a native crash.          *)
ChildDies(e) ==
  /\ pc[e] = "wait"
  /\ Goto(e, "ended") /\ Exit(e)
  /\ UNCHANGED <<files, mem, queue, result, bounds>> /\ ExecutorUnchanged

(* Variant: the result is taken as it is, though the child was killed.      *)
Outcome_Unchecked(e) == result[e]

Outcome(e) == IF result[e] = "completed" THEN "completed" ELSE "failed"

(* The outcome is stored.                                                  *)
Report(e) ==
  /\ LockFree
  /\ pc[e] = "ended"
  /\ \/ Update(job[e], Outcome(e)) /\ Goto(e, "report") /\ UNCHANGED bounds
     \/ UpdateRaises(job[e], Outcome(e)) /\ Leave(e)
  /\ UNCHANGED <<queue, procs, result>> /\ ExecutorUnchanged

ReportReplace(e) ==
  /\ pc[e] = "report"
  /\ Replace(job[e]) \/ ReplaceRaises(job[e])
  /\ Leave(e)
  /\ UNCHANGED <<mem, queue, procs, result, bounds>> /\ ExecutorUnchanged

Execute(e) ==
  \/ Begin(e) \/ BeginReplace(e) \/ Spawn(e)
  \/ Work(e) \/ ChildDies(e)
  \/ Report(e) \/ ReportReplace(e)

-----------------------------------------------------------------------------
(***************************************************************************)
(* The web process starts, and is killed: it is the first process of its    *)
(* container, so its children go with it.                                   *)
(***************************************************************************)

StartWeb ==
  /\ phase[Web] = "off"
  /\ Launch(Web)
  /\ UNCHANGED <<files, mem, request, threads, result, polled, bounds>>

Crash ==
  /\ phase[Web] # "off" /\ crashes < MaxCrashes
  /\ crashes' = crashes + 1
  /\ mem' = [j \in Jobs |-> "absent"]
  /\ request' = [j \in Jobs |-> IF request[j] \in {"replace", "submit"}
                                  THEN "refused" ELSE request[j]]
  /\ queue' = <<>>
  /\ pc' = [e \in Executors |-> "idle"]
  /\ job' = [e \in Executors |-> None]
  /\ phase' = [p \in Procs |-> "off"]
  /\ todo' = [p \in Procs |-> {}]
  /\ cur' = [p \in Procs |-> None]
  /\ UNCHANGED <<files, pool, result, polled, faults>>

Next ==
  \/ \E j \in Jobs : Create(j) \/ CreateReplace(j) \/ Submit(j) \/ Poll(j)
  \/ \E p \in Procs : Recover(p)
  \/ \E e \in Executors : Execute(e)
  \/ StartWeb
  \/ Crash

(* The container restarts the web process, threads and processes run on,    *)
(* and a conversion ends.                                                   *)
Fairness ==
  /\ WF_vars(StartWeb)
  /\ \A p \in Procs : WF_vars(Recover(p))
  /\ \A e \in Executors : WF_vars(Execute(e))
  /\ \A j \in Jobs : WF_vars(CreateReplace(j) \/ Submit(j))

Spec == Init /\ [][Next]_vars
FairSpec == Spec /\ Fairness

-----------------------------------------------------------------------------
(***************************************************************************)
(* Properties.                                                             *)
(***************************************************************************)

Requests == {"idle", "replace", "submit", "answered", "refused"}
PC == {"idle", "start", "spawn", "wait", "ended", "report"}
Phases == {"off", "scan", "write", "replace", "on"}

(* The types of the variables.                                             *)
TypeOK ==
  /\ disk \in [Jobs -> JobState]
  /\ tmp \in [Jobs -> JobState]
  /\ mem \in [Jobs -> JobState]
  /\ request \in [Jobs -> Requests]
  /\ queue \in Seq(Jobs)
  /\ pool \subseteq Executors
  /\ pc \in [Executors -> PC]
  /\ job \in [Executors -> Jobs \cup {None}]
  /\ phase \in [Procs -> Phases]
  /\ todo \in [Procs -> SUBSET Jobs]
  /\ cur \in [Procs -> Jobs \cup {None}]
  /\ result \in [Executors -> {"none"} \cup Terminal]
  /\ polled \in [Jobs -> {"none"} \cup Terminal]
  /\ crashes \in 0..MaxCrashes
  /\ faults \in 0..MaxFaults

(* EXCEL_JOB_WORKERS is 1 by default.                                       *)
OneThread == \E e \in Executors : pool = {e}

(* What the page was told stays true over restarts, and while every child   *)
(* rewrites job files: a job whose creation was answered is known (create,  *)
(* _recover), so the page never gets "Job not found"; an outcome it could be *)
(* told is on disk (_update under _lock); and the outcome it was told is the *)
(* job's.  The last two hold for one thread, and while no write fails.       *)
AnswersStayTrue ==
  Serving => \A j \in Jobs :
    /\ request[j] = "answered" => mem[j] # "absent"
    /\ OneThread /\ faults = 0 =>
         /\ LockFree /\ mem[j] \in Terminal => disk[j] = mem[j]
         /\ polled[j] # "none" => mem[j] = polled[j]

(* A job whose creation was answered completes or fails, over restarts,     *)
(* unless a write or a spawn fails.                                        *)
Ends(j) == request[j] = "answered" ~> (mem[j] \in Terminal \/ faults > 0)

(* With one thread every answered job ends.                                 *)
EveryAnsweredJobEnds == OneThread => \A j \in Jobs : Ends(j)

=============================================================================
