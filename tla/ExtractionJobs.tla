--------------------------- MODULE ExtractionJobs ---------------------------
(***************************************************************************)
(* The IFC data extractor's queue: the table ifc_extraction_jobs           *)
(* (backend/ifc_jobs.py), the endpoints of app.py that create and cancel   *)
(* jobs, and the worker processes of backend/ifc_worker.py.                *)
(*                                                                         *)
(* A function of ifc_jobs.py opens a connection, runs one statement and    *)
(* commits: it is one step.  The statement may fail, or its commit may be  *)
(* lost on the way back; either way the caller sees an exception.          *)
(***************************************************************************)
EXTENDS Naturals, FiniteSets

CONSTANTS
  Jobs,       \* jobs that may be created
  Workers,    \* worker processes
  Clients,    \* browsers that cancel jobs
  None,       \* no job
  MaxFaults,  \* bound: crashes and failed database calls
  MaxCancels  \* bound: cancel requests

ASSUME NoneAssumption == None \notin Jobs

ASSUME BoundsAssumption == MaxFaults \in Nat /\ MaxCancels \in Nat

VARIABLES
  status,     \* ifc_extraction_jobs.status
  attempts,   \* ifc_extraction_jobs.attempts
  session,    \* the session directory the jobs read from is there
  pc,         \* where a worker is in main and run_once
  job,        \* the job a worker claimed
  client,     \* jobs each client read as cancellable and has not updated yet
  cancels, faults

dbVars == <<status, attempts>>
vars == <<dbVars, session, pc, job, client, cancels, faults>>

Status == {"absent", "queued", "running", "done", "failed", "canceled"}
Terminal == {"done", "failed", "canceled"}
PC == {"down", "poll", "begin", "extract", "finish", "fail"}

Init ==
  /\ status = [j \in Jobs |-> "absent"]
  /\ attempts = [j \in Jobs |-> 0]
  /\ session = TRUE
  /\ pc = [w \in Workers |-> "down"]
  /\ job = [w \in Workers |-> None]
  /\ client = [c \in Clients |-> None]
  /\ cancels = 0
  /\ faults = 0

-----------------------------------------------------------------------------
(***************************************************************************)
(* The endpoints.                                                          *)
(***************************************************************************)

(* _build_ifc_job_payload refuses a request whose session or whose files    *)
(* are not there; create_job inserts the row.                               *)
Create(j) ==
  /\ session
  /\ status[j] = "absent"
  /\ status' = [status EXCEPT ![j] = "queued"]
  /\ UNCHANGED <<attempts, session, pc, job, client,
                 cancels, faults>>

(* cancel_ifc_extraction_job reads the row; a finished job is left alone.   *)
CancelRead(c, j) ==
  /\ client[c] = None /\ cancels < MaxCancels
  /\ status[j] \in {"queued", "running"}
  /\ client' = [client EXCEPT ![c] = j]
  /\ cancels' = cancels + 1
  /\ UNCHANGED <<dbVars, session, pc, job, faults>>

(* ... and another call updates it, without looking again.                  *)
CancelWrite(c) ==
  /\ client[c] # None
  /\ status' = [status EXCEPT ![client[c]] = "canceled"]
  /\ client' = [client EXCEPT ![c] = None]
  /\ UNCHANGED <<attempts, session, pc, job, cancels, faults>>

(* The session is dropped, or expires.                                      *)
DropSession ==
  /\ session
  /\ session' = FALSE
  /\ UNCHANGED <<dbVars, pc, job, client, cancels, faults>>

-----------------------------------------------------------------------------
(***************************************************************************)
(* The worker.                                                             *)
(***************************************************************************)

Goto(w, l) == pc' = [pc EXCEPT ![w] = l] /\ UNCHANGED job

Leave(w, l) ==
  /\ pc' = [pc EXCEPT ![w] = l]
  /\ job' = [job EXCEPT ![w] = None]

WebUnchanged == UNCHANGED <<session, client, cancels>>

Fault == faults < MaxFaults /\ faults' = faults + 1

Start(w) ==
  /\ pc[w] = "down"
  /\ Goto(w, "poll")
  /\ UNCHANGED <<dbVars, faults>> /\ WebUnchanged

(* Variant: the candidate is not restricted to queued jobs.                 *)
Claimable_NotFinished == {j \in Jobs : status[j] \in {"queued", "running"}}

(* claim_next_job: any queued job, as the order in which Jobs are created   *)
(* is free.                                                                 *)
Claimable == {j \in Jobs : status[j] = "queued"}

MarkClaimed(j) ==
  /\ status' = [status EXCEPT ![j] = "running"]
  /\ attempts' = [attempts EXCEPT ![j] = @ + 1]

(* An exception of claim_next_job ends the process: main does not catch it. *)
Claim(w) ==
  /\ pc[w] = "poll"
  /\ \E j \in Claimable :
       \/ /\ MarkClaimed(j)
          /\ pc' = [pc EXCEPT ![w] = "begin"]
          /\ job' = [job EXCEPT ![w] = j]
          /\ UNCHANGED faults
       \/ /\ Fault
          /\ MarkClaimed(j) \/ UNCHANGED dbVars
          /\ Leave(w, "down")
  /\ WebUnchanged

(* emit: the row is updated by its id alone; on an exception run_once goes  *)
(* to its handler.                                                          *)
Emit(w, Write, next) ==
  \/ Write /\ Goto(w, next) /\ UNCHANGED faults
  \/ Fault /\ (Write \/ UNCHANGED dbVars) /\ Goto(w, "fail")

WriteStatus(j, s) ==
  /\ status' = [status EXCEPT ![j] = s]
  /\ UNCHANGED attempts

(* run_data_extractor_job: the session must be there; "Starting extraction" *)
BeginRun(w) ==
  /\ pc[w] = "begin"
  /\ IF session THEN Emit(w, WriteStatus(job[w], "running"), "extract")
                ELSE Goto(w, "fail") /\ UNCHANGED <<dbVars, faults>>
  /\ WebUnchanged

(* The tables are written, file by file; progress leaves the status alone.  *)
(* The session's files may be gone, a file may not open in time.            *)
Extract(w) ==
  /\ pc[w] = "extract"
  /\ \/ session /\ Goto(w, "finish")
     \/ Goto(w, "fail")
  /\ UNCHANGED <<dbVars, faults>> /\ WebUnchanged

(* The last emit, through _progress, writes "done" and the result together. *)
Finish(w) ==
  /\ pc[w] = "finish"
  /\ \/ WriteStatus(job[w], "done") /\ Leave(w, "poll") /\ UNCHANGED faults
     \/ Fault /\ (WriteStatus(job[w], "done") \/ UNCHANGED dbVars) /\ Goto(w, "fail")
  /\ WebUnchanged

(* Variant: run_once swallows the exception.                                *)
Fail_Silent(w) ==
  /\ pc[w] = "fail"
  /\ Leave(w, "poll")
  /\ UNCHANGED <<dbVars, faults>> /\ WebUnchanged

(* The handler of run_once; an exception here ends the process.             *)
Fail(w) ==
  /\ pc[w] = "fail"
  /\ \/ WriteStatus(job[w], "failed") /\ Leave(w, "poll") /\ UNCHANGED faults
     \/ Fault /\ (WriteStatus(job[w], "failed") \/ UNCHANGED dbVars) /\ Leave(w, "down")
  /\ WebUnchanged

Crash(w) ==
  /\ pc[w] # "down"
  /\ Fault
  /\ Leave(w, "down")
  /\ UNCHANGED dbVars /\ WebUnchanged

WorkerStep(w) ==
  Start(w) \/ Claim(w) \/ BeginRun(w) \/ Extract(w) \/ Finish(w) \/ Fail(w)

Next ==
  \/ \E j \in Jobs : Create(j)
  \/ \E c \in Clients, j \in Jobs : CancelRead(c, j)
  \/ \E c \in Clients : CancelWrite(c)
  \/ DropSession
  \/ \E w \in Workers : WorkerStep(w) \/ Crash(w)

(* A worker process runs on, and is restarted; an endpoint finishes.        *)
Fairness ==
  /\ \A w \in Workers : WF_vars(WorkerStep(w))
  /\ \A c \in Clients : WF_vars(CancelWrite(c))

Spec == Init /\ [][Next]_vars
FairSpec == Spec /\ Fairness

-----------------------------------------------------------------------------
(***************************************************************************)
(* Properties.                                                             *)
(***************************************************************************)

(* The types of the variables.                                              *)
TypeOK ==
  /\ status \in [Jobs -> Status]
  /\ attempts \in [Jobs -> Nat]
  /\ session \in BOOLEAN
  /\ pc \in [Workers -> PC]
  /\ job \in [Workers -> Jobs \cup {None}]
  /\ client \in [Clients -> Jobs \cup {None}]
  /\ cancels \in 0..MaxCancels
  /\ faults \in 0..MaxFaults

(* The jobs that are shown as running.                                     *)
Running == {j \in Jobs : status[j] = "running"}

Stranded == {j \in Running : \A w \in Workers : job[w] # j}

(* A job is handed to one worker, once: whatever happens to it afterwards,  *)
(* no other worker extracts the same files (claim_next_job's skip locked);  *)
(* and it is shown as running only while that worker has it, whatever       *)
(* cancellations come between: each crash or failed call strands one job at *)
(* most (run_once and its handler).                                         *)
RunningHasOneWorker ==
  /\ \A j \in Jobs : attempts[j] <= 1
  /\ \A v, w \in Workers : job[v] = job[w] /\ job[v] # None => v = w
  /\ Cardinality(Stranded) <= faults

(* Every job ends, cancelled or not, unless a worker crashes or a call fails: *)
(* nothing takes a stranded job up again.                                  *)
EveryJobEnds ==
  \A j \in Jobs : status[j] = "queued" ~> (status[j] \in Terminal \/ faults > 0)

=============================================================================
